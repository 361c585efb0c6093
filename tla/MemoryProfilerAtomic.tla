------------------------- MODULE MemoryProfilerAtomic -------------------------
(***************************************************************************)
(* What the memory profiler promises its users (spec 4.5 and 5): one      *)
(* mailbox, messages handled one at a time in send order, and a Print      *)
(* handled as a single step that asks every registered reporter, prints   *)
(* at least the ones that succeed synchronously and never the ones that   *)
(* fail. ProfilerActor, where a print cycle takes many steps and senders  *)
(* keep sending during it, is shown to implement this specification.      *)
(***************************************************************************)
EXTENDS Sequences, Functions, TLC

CONSTANTS Msg  \* the messages senders may send

VARIABLES mailbox, reg, actor, last

avars == <<mailbox, reg, actor, last>>

Init ==
    /\ mailbox = <<>>
    /\ reg = <<>>
    /\ actor = "running"
    /\ last = [done |-> FALSE]

\* Any holder of a Sender sends, while the profiler runs.
Send ==
    /\ actor = "running"
    /\ \E m \in Msg : mailbox' = Append(mailbox, m)
    /\ UNCHANGED <<reg, actor, last>>

\* A contract violation ends the profiler and drops what is queued.
Misuse ==
    /\ actor' = "panicked" /\ mailbox' = <<>>
    /\ UNCHANGED <<reg, last>>

Handle ==
    /\ actor = "running" /\ mailbox # <<>>
    /\ LET m == Head(mailbox) IN
       CASE m.type = "Register" ->
              IF m.name \in DOMAIN reg THEN Misuse
              ELSE /\ reg' = (m.name :> m.kind) @@ reg
                   /\ mailbox' = Tail(mailbox) /\ UNCHANGED <<actor, last>>
         [] m.type = "Unregister" ->
              IF m.name \notin DOMAIN reg THEN Misuse
              ELSE /\ reg' = Restrict(reg, DOMAIN reg \ {m.name})
                   /\ mailbox' = Tail(mailbox) /\ UNCHANGED <<actor, last>>
         [] m.type = "Print" ->
              /\ \E printed \in SUBSET DOMAIN reg :
                    /\ \A n \in DOMAIN reg : reg[n] = "sync" => n \in printed
                    /\ \A n \in printed : reg[n] # "fail"
                    /\ last' = [done |-> TRUE, from |-> m.from, expect |-> m.expect,
                                sysUnreg |-> m.sysUnreg, registered |-> reg,
                                visited |-> DOMAIN reg, printed |-> printed]
              /\ mailbox' = Tail(mailbox) /\ UNCHANGED <<reg, actor>>
         [] m.type = "Exit" ->
              /\ actor' = "exited" /\ mailbox' = <<>>
              /\ UNCHANGED <<reg, last>>

\* The mailbox is empty and closed: the loop ends.
Disconnect ==
    /\ actor = "running" /\ mailbox = <<>>
    /\ actor' = "exited"
    /\ UNCHANGED <<mailbox, reg, last>>

Next == Send \/ Handle \/ Disconnect

Spec == Init /\ [][Next]_avars

=============================================================================
