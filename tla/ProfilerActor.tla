--------------------------- MODULE ProfilerActor ---------------------------
(***************************************************************************)
(* The memory profiler of src/components/util/memory.rs: the actor thread  *)
(* spawned by MemoryProfiler::create, the optional timer thread that sends *)
(* Print every period, the client threads holding clones of                *)
(* MemoryProfilerChan, and the reporters visited by handle_print_msg.      *)
(*                                                                         *)
(* A reporter is abstracted to how its collect_reports behaves:            *)
(*   "sync"  - sends its reports on the MemoryReportsChan, returns true    *)
(*             (SystemMemoryReporter does this);                           *)
(*   "fail"  - returns false, the actor skips it;                          *)
(*   "async" - hands the MemoryReportsChan to its own thread and returns   *)
(*             true; that thread later sends the reports or drops the     *)
(*             channel, and the actor blocks in port.recv() until then.    *)
(* Report contents and their formatting are left out: a print cycle is     *)
(* recorded as the set of reporters visited and the set whose reports were *)
(* printed.                                                                *)
(***************************************************************************)
EXTENDS Naturals, Sequences, SequencesExt, Functions

CONSTANTS
    Clients,     \* threads holding a clone of the MemoryProfilerChan
    Names,       \* reporter names the clients use
    SystemName,  \* "system", the name create() registers
    Kinds,       \* behaviours of the reporters clients register
    HasTimer,    \* create() was given Some(period)
    MaxSends,    \* bound on the messages all clients send together
    MaxQueue,    \* the timer only sends while the mailbox is shorter
    NoName       \* model value: the actor is not waiting on a reporter

ASSUME /\ SystemName \in Names
       /\ Kinds \subseteq {"sync", "fail", "async"}
       /\ HasTimer \in BOOLEAN
       /\ MaxSends \in Nat /\ MaxQueue \in Nat \ {0}
       /\ NoName \notin Names

VARIABLES
    phase,    \* "creating" until create() has sent Register("system") and returned
    mailbox,  \* the channel's queue of MemoryProfilerMsg, in send order
    actor,    \* "running", "exited" (loop left) or "panicked"
    reg,      \* MemoryProfiler.reporters: registered name -> reporter kind
    cycle,    \* the Print being handled by handle_print_msg, or Idle
    last,     \* the last completed print cycle, or NoBatch
    handles,  \* per client: "held", "dropped" or "panicked" (send unwrap failed)
    timer,    \* "none", "sleeping" (in its loop) or "stopped"
    sends,    \* messages sent by clients so far
    sysUnreg  \* history: some client has sent Unregister(SystemName)

vars == <<phase, mailbox, actor, reg, cycle, last, handles, timer, sends, sysUnreg>>

AllKinds == Kinds \cup {"sync"}

-----------------------------------------------------------------------------
(* Messages. A Print carries two history fields that the code does not     *)
(* have: the set of names that will be registered when it is handled if    *)
(* the messages before it are handled in order, and whether Unregister of  *)
(* the system reporter had been sent before it.                            *)

RegisterMsg(n, k) == [type |-> "Register", name |-> n, kind |-> k]
UnregisterMsg(n) == [type |-> "Unregister", name |-> n]
ExitMsg == [type |-> "Exit"]

\* The registry after handle_msg has applied m (ignoring the panics).
ApplyMsg(r, m) ==
    CASE m.type = "Register" /\ m.name \notin DOMAIN r -> (m.name :> m.kind) @@ r
      [] m.type = "Unregister" -> Restrict(r, DOMAIN r \ {m.name})
      [] OTHER -> r

PrintMsg(from) ==
    [type |-> "Print", from |-> from,
     expect |-> DOMAIN FoldLeft(ApplyMsg, reg, mailbox),
     sysUnreg |-> sysUnreg]

Idle == [active |-> FALSE]
NoBatch == [done |-> FALSE]

-----------------------------------------------------------------------------
Init ==
    /\ phase = "creating"
    /\ mailbox = <<>>
    /\ actor = "running"
    /\ reg = <<>>
    /\ cycle = Idle
    /\ last = NoBatch
    /\ handles = [c \in Clients |-> "held"]
    /\ timer = IF HasTimer THEN "sleeping" ELSE "none"
    /\ sends = 0
    /\ sysUnreg = FALSE

\* Mutant: create() returns without registering the system reporter.
Create_NoSystem ==
    /\ phase = "creating"
    /\ phase' = "created"
    /\ UNCHANGED <<mailbox, actor, reg, cycle, last, handles, timer, sends, sysUnreg>>

\* MemoryProfiler::create, after spawning the timer and the actor: send
\* Register("system", SystemMemoryReporter) and return the handle.
Create ==
    /\ phase = "creating"
    /\ mailbox' = Append(mailbox, RegisterMsg(SystemName, "sync"))
    /\ phase' = "created"
    /\ UNCHANGED <<actor, reg, cycle, last, handles, timer, sends, sysUnreg>>

\* MemoryProfilerChan::send: c.send(msg).unwrap() panics the sending
\* thread once the actor's Receiver has been dropped.
ClientSend(c, m) ==
    /\ phase = "created"
    /\ handles[c] = "held"
    /\ sends < MaxSends
    /\ sends' = sends + 1
    /\ IF actor = "running"
          THEN /\ mailbox' = Append(mailbox, m)
               /\ sysUnreg' = (sysUnreg \/ m = UnregisterMsg(SystemName))
               /\ UNCHANGED handles
          ELSE /\ handles' = [handles EXCEPT ![c] = "panicked"]
               /\ UNCHANGED <<mailbox, sysUnreg>>
    /\ UNCHANGED <<phase, actor, reg, cycle, last, timer>>

ClientRequest(c) ==
    \/ \E n \in Names, k \in Kinds : ClientSend(c, RegisterMsg(n, k))
    \/ \E n \in Names : ClientSend(c, UnregisterMsg(n))
    \/ ClientSend(c, PrintMsg(c))
    \/ ClientSend(c, ExitMsg)

\* A client thread drops its clone of the channel (or ends).
DropHandle(c) ==
    /\ phase = "created"
    /\ handles[c] = "held"
    /\ handles' = [handles EXCEPT ![c] = "dropped"]
    /\ UNCHANGED <<phase, mailbox, actor, reg, cycle, last, timer, sends, sysUnreg>>

\* Mutant: the timer ignores the send error and keeps looping.
TimerTick_IgnoreSendError ==
    /\ timer = "sleeping"
    /\ IF actor = "running"
          THEN /\ Len(mailbox) < MaxQueue
               /\ mailbox' = Append(mailbox, PrintMsg("timer"))
          ELSE UNCHANGED mailbox
    /\ UNCHANGED <<phase, actor, reg, cycle, last, handles, timer, sends, sysUnreg>>

\* The timer thread: after sleep(period_ms), send Print; break when the
\* send fails because the actor is gone.
TimerTick ==
    /\ timer = "sleeping"
    /\ IF actor = "running"
          THEN /\ Len(mailbox) < MaxQueue
               /\ mailbox' = Append(mailbox, PrintMsg("timer"))
               /\ UNCHANGED timer
          ELSE /\ timer' = "stopped"
               /\ UNCHANGED mailbox
    /\ UNCHANGED <<phase, actor, reg, cycle, last, handles, sends, sysUnreg>>

-----------------------------------------------------------------------------
(* The actor thread: MemoryProfiler::start and handle_msg. Dropping the    *)
(* Receiver when the loop ends discards the messages still queued.         *)

\* Mutant: the next message is taken while a print cycle is still running.
Receiving_DuringPrint == actor = "running" /\ mailbox # <<>>

Receiving == actor = "running" /\ ~cycle.active /\ mailbox # <<>>

\* RegisterMemoryReporter: insert, panic if the name is in use.
HandleRegister ==
    /\ Receiving
    /\ Head(mailbox).type = "Register"
    /\ LET m == Head(mailbox) IN
       IF m.name \in DOMAIN reg
          THEN /\ actor' = "panicked"
               /\ mailbox' = <<>>
               /\ UNCHANGED reg
          ELSE /\ reg' = (m.name :> m.kind) @@ reg
               /\ mailbox' = Tail(mailbox)
               /\ UNCHANGED actor
    /\ UNCHANGED <<phase, cycle, last, handles, timer, sends, sysUnreg>>

\* Mutant: the entry is looked up but not removed.
HandleUnregister_KeepEntry ==
    /\ Receiving
    /\ Head(mailbox).type = "Unregister"
    /\ LET m == Head(mailbox) IN
       IF m.name \in DOMAIN reg
          THEN /\ mailbox' = Tail(mailbox)
               /\ UNCHANGED <<actor, reg>>
          ELSE /\ actor' = "panicked"
               /\ mailbox' = <<>>
               /\ UNCHANGED reg
    /\ UNCHANGED <<phase, cycle, last, handles, timer, sends, sysUnreg>>

\* Mutant: the entry is overwritten with a marker instead of removed.
HandleUnregister_Tombstone ==
    /\ Receiving
    /\ Head(mailbox).type = "Unregister"
    /\ LET m == Head(mailbox) IN
       IF m.name \in DOMAIN reg
          THEN /\ reg' = [reg EXCEPT ![m.name] = "removed"]
               /\ mailbox' = Tail(mailbox)
               /\ UNCHANGED actor
          ELSE /\ actor' = "panicked"
               /\ mailbox' = <<>>
               /\ UNCHANGED reg
    /\ UNCHANGED <<phase, cycle, last, handles, timer, sends, sysUnreg>>

\* UnregisterMemoryReporter: remove, panic if the name is unknown.
HandleUnregister ==
    /\ Receiving
    /\ Head(mailbox).type = "Unregister"
    /\ LET m == Head(mailbox) IN
       IF m.name \in DOMAIN reg
          THEN /\ reg' = Restrict(reg, DOMAIN reg \ {m.name})
               /\ mailbox' = Tail(mailbox)
               /\ UNCHANGED actor
          ELSE /\ actor' = "panicked"
               /\ mailbox' = <<>>
               /\ UNCHANGED reg
    /\ UNCHANGED <<phase, cycle, last, handles, timer, sends, sysUnreg>>

\* Print: handle_print_msg prints the header and starts visiting
\* self.reporters.values().
HandlePrint ==
    /\ Receiving
    /\ Head(mailbox).type = "Print"
    /\ LET m == Head(mailbox) IN
       cycle' = [active |-> TRUE, from |-> m.from, expect |-> m.expect,
                 sysUnreg |-> m.sysUnreg, registered |-> reg,
                 toVisit |-> DOMAIN reg, visited |-> {}, printed |-> {},
                 waiting |-> NoName]
    /\ mailbox' = Tail(mailbox)
    /\ UNCHANGED <<phase, actor, reg, last, handles, timer, sends, sysUnreg>>

\* Mutant: Exit is consumed but handle_msg returns true.
HandleExit_Continue ==
    /\ Receiving
    /\ Head(mailbox).type = "Exit"
    /\ mailbox' = Tail(mailbox)
    /\ UNCHANGED <<phase, actor, reg, cycle, last, handles, timer, sends, sysUnreg>>

\* Exit: handle_msg returns false and the loop breaks.
HandleExit ==
    /\ Receiving
    /\ Head(mailbox).type = "Exit"
    /\ actor' = "exited"
    /\ mailbox' = <<>>
    /\ UNCHANGED <<phase, reg, cycle, last, handles, timer, sends, sysUnreg>>

\* Mutant: the actor keeps a Sender of its own channel alive.
SendersGone_SelfSender ==
    /\ phase = "created"
    /\ \A c \in Clients : handles[c] # "held"
    /\ timer # "sleeping"
    /\ FALSE

\* port.recv() returns Err once every Sender is gone: the loop breaks.
SendersGone ==
    /\ phase = "created"
    /\ \A c \in Clients : handles[c] # "held"
    /\ timer # "sleeping"

RecvDisconnected ==
    /\ actor = "running" /\ ~cycle.active /\ mailbox = <<>>
    /\ SendersGone
    /\ actor' = "exited"
    /\ UNCHANGED <<phase, mailbox, reg, cycle, last, handles, timer, sends, sysUnreg>>

-----------------------------------------------------------------------------
(* One iteration of the loop over self.reporters.values(), in the          *)
(* HashMap's unspecified order.                                            *)

\* Mutant: a reporter returning false ends the loop (break, not skip).
CollectReports_BreakOnFail(n) ==
    /\ cycle.active /\ cycle.waiting = NoName
    /\ n \in cycle.toVisit
    /\ cycle' = [cycle EXCEPT !.toVisit = IF reg[n] = "fail" THEN {} ELSE @ \ {n},
                   !.visited = @ \cup {n},
                   !.printed = IF reg[n] = "sync" THEN @ \cup {n} ELSE @,
                   !.waiting = IF reg[n] = "async" THEN n ELSE NoName]
    /\ UNCHANGED <<phase, mailbox, actor, reg, last, handles, timer, sends, sysUnreg>>

CollectReports(n) ==
    /\ cycle.active /\ cycle.waiting = NoName
    /\ n \in cycle.toVisit
    /\ cycle' = [cycle EXCEPT !.toVisit = @ \ {n}, !.visited = @ \cup {n},
                   !.printed = IF reg[n] = "sync" THEN @ \cup {n} ELSE @,
                   !.waiting = IF reg[n] = "async" THEN n ELSE NoName]
    /\ UNCHANGED <<phase, mailbox, actor, reg, last, handles, timer, sends, sysUnreg>>

\* The async reporter's thread sends its reports; port.recv() returns Ok
\* and the reports are printed.
ReportsArrive ==
    /\ cycle.active /\ cycle.waiting # NoName
    /\ cycle' = [cycle EXCEPT !.printed = @ \cup {cycle.waiting}, !.waiting = NoName]
    /\ UNCHANGED <<phase, mailbox, actor, reg, last, handles, timer, sends, sysUnreg>>

\* The async reporter's thread drops the MemoryReportsChan without
\* sending; port.recv() returns Err and the reporter is skipped.
ReportsChanDropped ==
    /\ cycle.active /\ cycle.waiting # NoName
    /\ cycle' = [cycle EXCEPT !.waiting = NoName]
    /\ UNCHANGED <<phase, mailbox, actor, reg, last, handles, timer, sends, sysUnreg>>

\* The loop is over: print the blank line, back to port.recv().
FinishPrint ==
    /\ cycle.active /\ cycle.waiting = NoName /\ cycle.toVisit = {}
    /\ last' = [done |-> TRUE, from |-> cycle.from, expect |-> cycle.expect,
                sysUnreg |-> cycle.sysUnreg, registered |-> cycle.registered,
                visited |-> cycle.visited, printed |-> cycle.printed]
    /\ cycle' = Idle
    /\ UNCHANGED <<phase, mailbox, actor, reg, handles, timer, sends, sysUnreg>>

-----------------------------------------------------------------------------
\* Every thread has ended: the actor, the timer and every client.
Terminated ==
    /\ actor # "running"
    /\ timer # "sleeping"
    /\ \A c \in Clients : handles[c] # "held"

ActorStep ==
    \/ HandleRegister \/ HandleUnregister \/ HandlePrint \/ HandleExit
    \/ RecvDisconnected
    \/ \E n \in Names : CollectReports(n)
    \/ FinishPrint

ReporterThread == ReportsArrive \/ ReportsChanDropped

Next ==
    \/ Create
    \/ \E c \in Clients : ClientRequest(c) \/ DropHandle(c)
    \/ TimerTick
    \/ ActorStep
    \/ ReporterThread
    \/ (Terminated /\ UNCHANGED vars)

\* create() runs to its end; the actor and timer threads always get to
\* run. Clients are not assumed to do anything, and neither is a
\* reporter's own thread: nothing in this code makes it answer.
Fairness ==
    /\ WF_vars(Create)
    /\ WF_vars(ActorStep)
    /\ WF_vars(TimerTick)

Spec == Init /\ [][Next]_vars /\ Fairness

-----------------------------------------------------------------------------
(* Properties.                                                             *)

Msgs ==
    [type : {"Register"}, name : Names, kind : AllKinds]
    \cup [type : {"Unregister"}, name : Names]
    \cup [type : {"Exit"}]
    \cup [type : {"Print"}, from : Clients \cup {"timer"},
          expect : SUBSET Names, sysUnreg : BOOLEAN]

TypeOK ==
    /\ phase \in {"creating", "created"}
    /\ mailbox \in Seq(Msgs)
    /\ actor \in {"running", "exited", "panicked"}
    /\ DOMAIN reg \subseteq Names /\ \A n \in DOMAIN reg : reg[n] \in AllKinds
    /\ cycle.active \in BOOLEAN
    /\ cycle.active => /\ cycle.toVisit \cup cycle.visited \subseteq Names
                       /\ cycle.waiting \in Names \cup {NoName}
    /\ handles \in [Clients -> {"held", "dropped", "panicked"}]
    /\ timer \in {"none", "sleeping", "stopped"}
    /\ sends \in 0..MaxSends
    /\ sysUnreg \in BOOLEAN

(* Messages are handled strictly in send order by the one actor thread:  *)
(* a print cycle visits exactly the reporters that the Register and      *)
(* Unregister messages sent before its Print left registered (the        *)
(* "exactly the reporters in R" property of handle_msg and               *)
(* handle_print_msg).                                                    *)
PrintSeesSendOrder ==
    last.done => last.visited = last.expect

(* A failing reporter never stops the cycle: every reporter registered   *)
(* when the Print was handled whose collect_reports succeeds              *)
(* synchronously has its reports printed, and a reporter returning false *)
(* never has (handle_print_msg: "If anything goes wrong with a reporter, *)
(* we just skip it").                                                    *)
FailureIsolation ==
    last.done =>
        /\ {n \in DOMAIN last.registered : last.registered[n] = "sync"} \subseteq last.printed
        /\ \A n \in last.printed : n \in DOMAIN last.registered
                                  /\ last.registered[n] # "fail"

(* create() sends Register("system") before it returns the handle, so a  *)
(* Print sent by any holder of the handle reports the system reporter,   *)
(* unless some client unregistered it before sending that Print.         *)
ClientPrintSeesSystem ==
    (last.done /\ last.from \in Clients /\ ~last.sysUnreg)
        => SystemName \in last.visited

\* The actor is blocked in handle_print_msg's port.recv() on a reporter
\* whose thread holds the MemoryReportsChan.
BlockedOnReporter == cycle.active /\ cycle.waiting # NoName

(* Once an Exit is in the mailbox, the actor thread ends, and then the   *)
(* timer thread's next send fails and it ends too; the one way out is a  *)
(* reporter whose thread keeps the channel and never answers, which      *)
(* blocks port.recv() forever, as it has no timeout (handle_print_msg).  *)
ExitStopsThreads ==
    (\E i \in DOMAIN mailbox : mailbox[i].type = "Exit")
        ~> \/ actor # "running" /\ timer # "sleeping"
           \/ []BlockedOnReporter

(* When every client has dropped its handle, port.recv() fails and the   *)
(* actor thread ends, unless it is blocked forever on a reporter.        *)
AbandonedProfilerStops ==
    (phase = "created" /\ \A c \in Clients : handles[c] # "held")
        ~> (actor # "running" \/ []BlockedOnReporter)

(* Every print cycle, the timer's included, reports the system reporter  *)
(* unless a client unregistered it.                                      *)
EveryPrintSeesSystem ==
    (last.done /\ ~last.sysUnreg) => SystemName \in last.visited



-----------------------------------------------------------------------------
(* Refinement. While a print cycle runs, its Print is still at the head   *)
(* of the abstract mailbox; the cycle's steps are stuttering steps and    *)
(* FinishPrint is the abstract Print.                                     *)

AbsMailbox ==
    IF cycle.active
    THEN << [type |-> "Print", from |-> cycle.from, expect |-> cycle.expect,
             sysUnreg |-> cycle.sysUnreg] >> \o mailbox
    ELSE mailbox

Atomic == INSTANCE MemoryProfilerAtomic WITH mailbox <- AbsMailbox, Msg <- Msgs

(* The actor, with print cycles that block on reporters while clients and *)
(* the timer keep sending, implements the one-message-at-a-time profiler: *)
(* no message is handled during a print cycle and every cycle asks every  *)
(* registered reporter (MemoryProfiler::start, handle_print_msg).         *)
ImplementsAtomic == Atomic!Spec

(* Spec 7: only a contract violation (duplicate Register, unknown         *)
(* Unregister) is visible as abrupt termination. A client whose send      *)
(* fails in MemoryProfilerChan::send's unwrap() has crashed.              *)
NoCrashWithoutMisuse ==
    (\E c \in Clients : handles[c] = "panicked") => actor = "panicked"

(* Spec 7: a contract violation is fatal, the process aborts: once        *)
(* handle_msg has panicked no other thread of the profiler runs on.       *)
MisuseAbortsProcess ==
    actor = "panicked" => /\ timer # "sleeping"
                          /\ \A c \in Clients : handles[c] # "held"

=============================================================================
