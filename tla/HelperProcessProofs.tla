------------------------- MODULE HelperProcessProofs -------------------------
(***************************************************************************)
(* A reply answers the command it is taken for, no window is granted to a  *)
(* request of a running processor, no child outlives its host, and at most *)
(* one request outlives the bridge: for any number of calls, requests and  *)
(* links, and any room on the socket.                                      *)
(***************************************************************************)
EXTENDS HelperProcess, TLAPS

\* A leaf that names no prover is tried with Zenon, then with the SMT solver.
USE ZenonT(30), SMTT(30)

(***************************************************************************)
(* The inductive invariant.                                                *)
(***************************************************************************)

\* Commands with a reply the processor's own thread has had sent, at most.
Spent ==
    CASE thread = "setup"    -> IF call.cmd = "setup" THEN 1 ELSE 0
      [] thread = "start"    -> 1
      [] thread = "loop"     -> IF call.cmd = "stop" THEN 2 ELSE 1
      [] thread = "teardown" -> IF call.cmd = "teardown" THEN 3 ELSE 2
      [] OTHER               -> 3

\* The numbers given out fit the calls made.
Budget == serial <= calls + Spent

\* Where a call is, what it is and which thread made it.
Stage ==
    /\ at = "free" <=> call.cmd = "none"
    /\ at \in {"send", "write", "wait"}
         => call.cmd \in Answered \cup Silent /\ (call.cmd \in Answered => call.n # 0)
    /\ at = "wait" => call.cmd \in Answered
    /\ at \in {"close", "windows", "handles", "reap"}
         => call.cmd \in {"setup", "teardown", "drop"}
    /\ call.cmd = "setup" => thread = "setup"
    /\ call.cmd = "run" => thread = "start"
    /\ call.cmd = "stop" => thread = "loop"
    /\ call.cmd = "teardown" => thread = "teardown"
    /\ call.cmd = "drop" => thread = "ended"
    /\ thread = "setup" => (at = "free" /\ ~bridge) \/ call.cmd = "setup"

\* A number on s other than 0 is k.
Only(s, k) == \A i \in 1..Len(s) : s[i].n \in {0, k}

\* Some item of s is numbered, and no two are.
Due(s) == \E i \in 1..Len(s) : s[i].n # 0
Single(s) == \A i, j \in 1..Len(s) : s[i].n # 0 /\ s[j].n # 0 => i = j

\* From the host's socket to its channel, one reply is due at most.
OneDue ==
    /\ Single(down) /\ Single(queue) /\ Single(up) /\ Single(replies)
    /\ Due(down)  => ~Due(queue) /\ work.n = 0 /\ ~Due(up) /\ ~Due(replies)
    /\ Due(queue) => work.n = 0 /\ ~Due(up) /\ ~Due(replies)
    /\ work.n # 0 => ~Due(up) /\ ~Due(replies)
    /\ Due(up)    => ~Due(replies)

\* The only reply due is that of command k.
DueOnly(k) ==
    /\ Only(down, k) /\ Only(queue, k) /\ work.n \in {0, k}
    /\ Only(up, k) /\ Only(replies, k)

\* No reply is due when a command is sent, and its own when one is awaited.
Flow ==
    /\ at \in {"send", "write"} => DueOnly(0)
    /\ at # "wait" /\ (~gone \/ (thread = "setup" /\ at = "free")) => DueOnly(0)
    /\ at = "wait" => OneDue /\ DueOnly(call.n)

NoRunIn(s) == \A i \in 1..Len(s) : s[i].cmd # "run"
NoMidIn(s) == \A i \in 1..Len(s) : ~(s[i].rpc = "window" /\ s[i].flag)

\* Nothing of the processor's run has begun, anywhere.
NotRunning ==
    /\ NoRunIn(down) /\ NoRunIn(queue) /\ work.cmd # "run" /\ pc # "loop"
    /\ NoMidIn(up)

\* What the noted command tells the reader thread.
Noted ==
    /\ at = "write" => lastCommand = call.cmd
    /\ thread = "setup" => lastCommand \in {"none", "setup"}
    /\ lastCommand \in {"none", "setup"} => NotRunning
    /\ ~midProcess

\* A request the reader thread can still serve.
Pending == IF reader \in {"reading", "minting"} THEN 1 ELSE 0

\* What the registry holds while the bridge goes, and after.
Draining ==
    /\ at \in {"windows", "handles"} => shut /\ bridge
    /\ at = "handles" => windows + Pending <= 1
    /\ ~bridge => handles + windows + Pending <= 1
    /\ ~bridge /\ reader # "none" => shut

Owned == child = "alive" => handle

IInv == TypeOK /\ Stage /\ Budget /\ Flow /\ Noted /\ Draining /\ Owned

(***************************************************************************)
(* Types and control.                                                      *)
(***************************************************************************)

\* What a command's fields can be.
LEMMA CommandFields ==
  /\ \A c \in Commands : /\ c.cmd \in Answered \cup Silent /\ c.n \in Serials
                         /\ c.links \subseteq Links
                         /\ c.n # 0 <=> c.cmd \in Answered
                         /\ c.links # {} => c.cmd \in Wiring
  /\ \A c \in Answered, k \in Serials \ {0}, ls \in SUBSET Links :
        (ls # {} => c \in Wiring) => Command(c, k, ls) \in Commands
  /\ \A c \in Silent, ls \in SUBSET Links :
        (ls # {} => c \in Wiring) => Command(c, 0, ls) \in Commands
  /\ Idle.cmd = "none" /\ Idle.n = 0 /\ Idle.links = {}
  /\ Closed.cmd = "closed" /\ Closed.n = 0 /\ Closed.links = {}
  /\ \A c, k, ls : /\ Command(c, k, ls).cmd = c
                   /\ Command(c, k, ls).n = k
                   /\ Command(c, k, ls).links = ls
<1>1. \A c \in Commands : /\ c.cmd \in Answered \cup Silent /\ c.n \in Serials
                          /\ c.links \subseteq Links
                          /\ c.n # 0 <=> c.cmd \in Answered
                          /\ c.links # {} => c.cmd \in Wiring
  BY SMTT(30), HelperAssumption DEF Commands, Answered, Silent, Serials
<1>2. \A c \in Answered, k \in Serials \ {0}, ls \in SUBSET Links :
        (ls # {} => c \in Wiring) => Command(c, k, ls) \in Commands
  BY DEF Commands, Command
<1>3. \A c \in Silent, ls \in SUBSET Links :
        (ls # {} => c \in Wiring) => Command(c, 0, ls) \in Commands
  BY DEF Commands, Command
<1>4. \A c, k, ls : /\ Command(c, k, ls).cmd = c
                    /\ Command(c, k, ls).n = k
                    /\ Command(c, k, ls).links = ls
  BY DEF Command
<1>. QED  BY SMTT(30), <1>1, <1>2, <1>3, <1>4 DEF Idle, Closed

\* The bound on the numbers given out.
LEMMA SerialsFit ==
  /\ 0 \in Serials /\ Serials \subseteq Nat
  /\ \A c \in 0..MaxCalls, e \in 0..3, k \in Nat : k <= c + e => k \in Serials
BY SMTT(30), HelperAssumption DEF Serials

\* The fields of the call in progress.
LEMMA CallFields ==
  ASSUME TypeOK
  PROVE  /\ call.cmd \in Answered \cup Silent \cup {"none", "teardown", "drop"}
         /\ call.n \in Serials /\ call.links \subseteq Links
         /\ serial \in Nat /\ calls \in Nat
         /\ call.cmd \in Answered \cup Silent /\ (call.cmd \in Answered => call.n # 0)
              => call \in Commands
<1>1. call \in Commands \/ call \in {Idle, Command("teardown", 0, {}), Command("drop", 0, {})}
  BY DEF TypeOK
<1>2. /\ call.cmd \in Answered \cup Silent \cup {"none", "teardown", "drop"}
      /\ call.n \in Serials /\ call.links \subseteq Links
  BY SMTT(30), <1>1, CommandFields, SerialsFit
<1>3. serial \in Nat /\ calls \in Nat
  BY SMTT(30), SerialsFit DEF TypeOK
<1>4. call.cmd \in Answered \cup Silent /\ (call.cmd \in Answered => call.n # 0)
        => call \in Commands
  BY SMTT(30), <1>1, CommandFields DEF Answered, Silent
<1>. QED  BY <1>2, <1>3, <1>4

\* A call stays where its own steps put it, and only its thread moves on.
LEMMA StageStep ==
  ASSUME TypeOK, Stage, HostStep \/ CallStep
  PROVE  Stage'
<1>. /\ call.cmd \in Answered \cup Silent \cup {"none", "teardown", "drop"}
     /\ serial \in Nat
  BY CallFields
<1>. thread \in {"setup", "start", "loop", "teardown", "ended"}
  BY DEF TypeOK
<1>. at \in {"free", "send", "write", "wait", "close", "windows", "handles", "reap"}
  BY DEF TypeOK
<1>1. CASE HostSetup
  BY SMTT(30), <1>1 DEF HostSetup, Begin, Command, Stage, Answered, Silent, bridgeVars
<1>2. CASE HostStart
  BY SMTT(30), <1>2 DEF HostStart, Begin, Command, Stage, Answered, Silent, bridgeVars
<1>3. CASE HostPauseOrResume
  BY SMTT(30), <1>3 DEF HostPauseOrResume, Exchange, Begin, Command, Stage, Answered, Silent,
     bridgeVars
<1>4. CASE HostSeesFailure
  BY <1>4 DEF HostSeesFailure, Stage, Answered, Silent, bridgeVars
<1>5. CASE HostStop
  BY SMTT(30), <1>5 DEF HostStop, Exchange, Begin, Command, Stage, Answered, Silent, bridgeVars
<1>6. CASE HostTeardown
  BY SMTT(30), <1>6 DEF HostTeardown, Exchange, Begin, Command, Stage, Answered, Silent,
     bridgeVars
<1>7. CASE HostUpdatesConfig
  BY SMTT(30), <1>7 DEF HostUpdatesConfig, Exchange, Begin, Command, Stage, Answered, Silent,
     bridgeVars
<1>8. CASE HostDrop
  BY SMTT(30), <1>8 DEF HostDrop, Command, Stage, Answered, Silent, bridgeVars
<1>9. ASSUME NEW l \in Links, HostWires(l) PROVE  Stage'
  BY SMTT(30), <1>9 DEF HostWires, Begin, Command, Stage, Answered, Silent, bridgeVars
<1>10. ASSUME NEW l \in Links, HostUnwires(l) PROVE  Stage'
  BY SMTT(30), <1>10 DEF HostUnwires, Begin, Command, Stage, Answered, Silent, bridgeVars
<1>11. CASE SendNotes
  BY SMTT(30), <1>11 DEF SendNotes, Return, NextAfter, Idle, Command, Stage, Answered, Silent,
     bridgeVars
<1>12. CASE SendWrites
  BY SMTT(30), <1>12 DEF SendWrites, Return, NextAfter, Idle, Command, Stage, Answered,
     Silent, bridgeVars
<1>13. CASE TakeReply
  BY SMTT(30), <1>13 DEF TakeReply, Return, NextAfter, Idle, Command, Stage, Answered, Silent,
     bridgeVars
<1>14. CASE ReplyTimesOut
  BY SMTT(30), <1>14 DEF ReplyTimesOut, Return, NextAfter, Idle, Command, Stage, Answered,
     Silent, bridgeVars
<1>15. CASE ReplyDisconnected
  BY SMTT(30), <1>15 DEF ReplyDisconnected, Return, NextAfter, Idle, Command, Stage, Answered,
     Silent, bridgeVars
<1>16. CASE CloseBridge
  BY <1>16 DEF CloseBridge, Stage, Answered, Silent, bridgeVars
<1>17. CASE DrainWindows
  BY <1>17 DEF DrainWindows, Stage, Answered, Silent, bridgeVars
<1>18. CASE DrainHandles
  BY <1>18 DEF DrainHandles, Stage, Answered, Silent, bridgeVars
<1>19. CASE Reap
  BY <1>19 DEF Reap, Idle, Command, Stage, Answered, Silent, bridgeVars
<1>. QED
  BY <1>1, <1>2, <1>3, <1>4, <1>5, <1>6, <1>7, <1>8, <1>9, <1>10, <1>11, <1>12,
     <1>13, <1>14, <1>15, <1>16, <1>17, <1>18, <1>19 DEF HostStep, CallStep

\* A lifecycle hook sends one numbered command, any other call costs one call.
LEMMA BudgetStep ==
  ASSUME TypeOK, Stage, Budget, HostStep \/ CallStep
  PROVE  Budget'
<1>. /\ call.cmd \in Answered \cup Silent \cup {"none", "teardown", "drop"}
     /\ serial \in Nat /\ calls \in Nat
  BY CallFields
<1>. thread \in {"setup", "start", "loop", "teardown", "ended"}
  BY DEF TypeOK
<1>. at \in {"free", "send", "write", "wait", "close", "windows", "handles", "reap"}
  BY DEF TypeOK
<1>1. CASE HostSetup
  BY SMTT(30), <1>1 DEF HostSetup, Begin, Command, Budget, Spent, Stage, Answered, Silent
<1>2. CASE HostStart
  BY <1>2 DEF HostStart, Begin, Command, Budget, Spent, Stage, Answered, Silent
<1>3. CASE HostPauseOrResume
  BY SMTT(30), <1>3 DEF HostPauseOrResume, Exchange, Begin, Command, Budget, Spent, Stage,
     Answered, Silent
<1>4. CASE HostSeesFailure
  BY <1>4 DEF HostSeesFailure, Budget, Spent, Stage, Answered, Silent
<1>5. CASE HostStop
  BY SMTT(30), <1>5
     DEF HostStop, Exchange, Begin, Command, Budget, Spent, Stage, Answered, Silent
<1>6. CASE HostTeardown
  BY SMTT(30), <1>6 DEF HostTeardown, Exchange, Begin, Command, Budget, Spent, Stage,
     Answered, Silent
<1>7. CASE HostUpdatesConfig
  BY SMTT(30), <1>7 DEF HostUpdatesConfig, Exchange, Begin, Command, Budget, Spent, Stage,
     Answered, Silent
<1>8. CASE HostDrop
  BY <1>8 DEF HostDrop, Command, Budget, Spent, Stage, Answered, Silent
<1>9. ASSUME NEW l \in Links, HostWires(l) PROVE  Budget'
  BY SMTT(30), <1>9 DEF HostWires, Begin, Command, Budget, Spent, Stage, Answered, Silent
<1>10. ASSUME NEW l \in Links, HostUnwires(l) PROVE  Budget'
  BY SMTT(30), <1>10 DEF HostUnwires, Begin, Command, Budget, Spent, Stage, Answered, Silent
<1>11. CASE SendNotes
  BY SMTT(30), <1>11 DEF SendNotes, Return, NextAfter, Idle, Command, Budget, Spent, Stage,
     Answered, Silent
<1>12. CASE SendWrites
  BY SMTT(30), <1>12 DEF SendWrites, Return, NextAfter, Idle, Command, Budget, Spent, Stage,
     Answered, Silent
<1>13. CASE TakeReply
  BY SMTT(30), <1>13 DEF TakeReply, Return, NextAfter, Idle, Command, Budget, Spent, Stage,
     Answered, Silent
<1>14. CASE ReplyTimesOut
  BY SMTT(30), <1>14 DEF ReplyTimesOut, Return, NextAfter, Idle, Command, Budget, Spent,
     Stage, Answered, Silent
<1>15. CASE ReplyDisconnected
  BY SMTT(30), <1>15 DEF ReplyDisconnected, Return, NextAfter, Idle, Command, Budget, Spent,
     Stage, Answered, Silent
<1>16. CASE CloseBridge
  BY <1>16 DEF CloseBridge, Budget, Spent, Stage, Answered, Silent
<1>17. CASE DrainWindows
  BY <1>17 DEF DrainWindows, Budget, Spent, Stage, Answered, Silent
<1>18. CASE DrainHandles
  BY <1>18 DEF DrainHandles, Budget, Spent, Stage, Answered, Silent
<1>19. CASE Reap
  BY SMTT(30), <1>19 DEF Reap, Idle, Command, Budget, Spent, Stage, Answered, Silent
<1>. QED
  BY <1>1, <1>2, <1>3, <1>4, <1>5, <1>6, <1>7, <1>8, <1>9, <1>10, <1>11, <1>12,
     <1>13, <1>14, <1>15, <1>16, <1>17, <1>18, <1>19 DEF HostStep, CallStep

\* A command that is begun is one the wire knows.
LEMMA BeginTypes ==
  ASSUME TypeOK, Budget', NEW c \in Answered \cup Silent, NEW ls \in SUBSET Links,
         ls # {} => c \in Wiring, Begin(c, ls), calls' \in 0..MaxCalls
  PROVE  call' \in Commands /\ serial' \in Serials /\ at' = "send"
<1>1. serial \in Nat
  BY CallFields
<1>2. serial' \in Nat /\ (c \in Answered => serial' # 0)
  BY SMTT(30), <1>1 DEF Begin
<1>3. Spent' \in 0..3
  BY SMTT(30) DEF Spent
<1>4. serial' \in Serials
  BY <1>2, <1>3, SerialsFit DEF Budget
<1>. QED  BY <1>2, <1>4, CommandFields DEF Begin

\* An empty channel is typed.
LEMMA EmptySequences ==
  /\ <<>> \in Seq(Replies) /\ <<>> \in Seq(Commands)
  /\ <<>> \in Seq(Commands \cup {Closed}) /\ <<>> \in Seq(Replies \cup Requests)
BY SMTT(30)

\* The types, by the part of the system they belong to.
HostTypes ==
    /\ thread \in {"setup", "start", "loop", "teardown", "ended"}
    /\ wasPaused \in BOOLEAN
    /\ call \in Commands \cup {Idle, Command("teardown", 0, {}), Command("drop", 0, {})}
    /\ at \in {"free", "send", "write", "wait", "close", "windows", "handles", "reap"}
    /\ gone \in BOOLEAN /\ handle \in BOOLEAN /\ error \in BOOLEAN
    /\ dropped \in BOOLEAN
    /\ envelope \subseteq Links
    /\ calls \in 0..MaxCalls /\ serial \in Serials /\ reported \in Serials

BridgeTypes ==
    /\ bridge \in BOOLEAN /\ dead \in BOOLEAN /\ shut \in BOOLEAN
    /\ replies \in Seq(Replies)
    /\ lastCommand \in Answered \cup Silent \cup {"none"}

ReaderTypes ==
    /\ handles \in Nat /\ windows \in Nat
    /\ reader \in {"none", "reading", "minting", "answering", "writing", "done"}
    /\ midProcess \in BOOLEAN

ChildTypes ==
    /\ child \in {"none", "alive", "exited"}
    /\ pc \in {"boot", "idle", "loop", "leave"}
    /\ work \in Commands \cup {Idle}
    /\ queue \in Seq(Commands \cup {Closed})
    /\ listening \in BOOLEAN
    /\ hosted \in {"no", "up", "failed"}
    /\ ports \subseteq Links /\ refused \subseteq Links
    /\ config \in Serials
    /\ requests \in 0..MaxRequests
    /\ wedged \in BOOLEAN

WireTypes == down \in Seq(Commands) /\ up \in Seq(Replies \cup Requests)

\* Together they are TypeOK.
LEMMA TypesByPart ==
  /\ TypeOK => HostTypes /\ BridgeTypes /\ ReaderTypes /\ ChildTypes /\ WireTypes
  /\ HostTypes' /\ BridgeTypes' /\ ReaderTypes' /\ ChildTypes' /\ WireTypes' => TypeOK'
BY DEF TypeOK, HostTypes, BridgeTypes, ReaderTypes, ChildTypes, WireTypes

\* A part that does not move keeps its types.
LEMMA TypesKept ==
  /\ HostTypes /\ UNCHANGED hostVars => HostTypes'
  /\ BridgeTypes /\ UNCHANGED bridgeVars => BridgeTypes'
  /\ ReaderTypes /\ UNCHANGED readerVars => ReaderTypes'
  /\ ChildTypes /\ UNCHANGED childVars => ChildTypes'
  /\ WireTypes /\ UNCHANGED <<down, up>> => WireTypes'
<1>1. HostTypes /\ UNCHANGED hostVars => HostTypes'
  BY DEF HostTypes, hostVars
<1>2. BridgeTypes /\ UNCHANGED bridgeVars => BridgeTypes'
  BY DEF BridgeTypes, bridgeVars
<1>3. ReaderTypes /\ UNCHANGED readerVars => ReaderTypes'
  BY DEF ReaderTypes, readerVars
<1>4. ChildTypes /\ UNCHANGED childVars => ChildTypes'
  BY DEF ChildTypes, childVars
<1>5. WireTypes /\ UNCHANGED <<down, up>> => WireTypes'
  BY DEF WireTypes
<1>. QED  BY <1>1, <1>2, <1>3, <1>4, <1>5

\* A call that begins is typed.
LEMMA TypeHostStep ==
  ASSUME TypeOK, Stage, Budget, HostStep
  PROVE  TypeOK'
<1>. Budget'
  BY BudgetStep
<1>. HostTypes /\ BridgeTypes /\ ReaderTypes /\ ChildTypes /\ WireTypes
  BY TypesByPart
<1>. USE SerialsFit
<1>1. CASE HostSetup
  <2>1. calls' \in 0..MaxCalls
    BY <1>1, HelperAssumption DEF HostSetup, HostTypes
  <2>2. HostTypes'
    BY <1>1, <2>1, BeginTypes DEF HostSetup, HostTypes, Answered, Wiring
  <2>3. BridgeTypes' /\ ReaderTypes' /\ WireTypes'
    BY <1>1 DEF HostSetup, BridgeTypes, ReaderTypes, WireTypes
  <2>4. ChildTypes'
    BY <1>1 DEF HostSetup, ChildTypes
  <2>. QED  BY <2>2, <2>3, <2>4, TypesByPart
<1>2. CASE HostStart
  <2>1. calls' \in 0..MaxCalls
    BY <1>2, HelperAssumption DEF HostStart, HostTypes
  <2>2. HostTypes'
    BY <1>2, <2>1, BeginTypes DEF HostStart, HostTypes, Answered, Silent
  <2>3. UNCHANGED <<bridgeVars, readerVars, down, up, childVars>>
    BY <1>2 DEF HostStart
  <2>. QED  BY <2>2, <2>3, TypesByPart, TypesKept
<1>3. CASE HostPauseOrResume
  <2>1. calls' \in 0..MaxCalls
    BY SMTT(30), <1>3, HelperAssumption DEF HostPauseOrResume, HostTypes
  <2>2. HostTypes'
    BY <1>3, <2>1, BeginTypes DEF HostPauseOrResume, Exchange, HostTypes, Answered,
       Silent
  <2>3. UNCHANGED <<bridgeVars, readerVars, down, up, childVars>>
    BY <1>3 DEF HostPauseOrResume
  <2>. QED  BY <2>2, <2>3, TypesByPart, TypesKept
<1>4. CASE HostSeesFailure
  <2>1. calls' \in 0..MaxCalls
    BY <1>4, HelperAssumption DEF HostSeesFailure, HostTypes
  <2>2. HostTypes'
    BY <1>4, <2>1, BeginTypes DEF HostSeesFailure, HostTypes, Answered, Silent
  <2>3. UNCHANGED <<bridgeVars, readerVars, down, up, childVars>>
    BY <1>4 DEF HostSeesFailure
  <2>. QED  BY <2>2, <2>3, TypesByPart, TypesKept
<1>5. CASE HostStop
  <2>1. calls' \in 0..MaxCalls
    BY <1>5, HelperAssumption DEF HostStop, HostTypes
  <2>2. HostTypes'
    BY <1>5, <2>1, BeginTypes DEF HostStop, Exchange, HostTypes, Answered, Silent
  <2>3. UNCHANGED <<bridgeVars, readerVars, down, up, childVars>>
    BY <1>5 DEF HostStop
  <2>. QED  BY <2>2, <2>3, TypesByPart, TypesKept
<1>6. CASE HostTeardown
  <2>1. calls' \in 0..MaxCalls
    BY <1>6, HelperAssumption DEF HostTeardown, HostTypes
  <2>2. HostTypes'
    BY <1>6, <2>1, BeginTypes DEF HostTeardown, Exchange, HostTypes, Answered, Silent
  <2>3. UNCHANGED <<bridgeVars, readerVars, down, up, childVars>>
    BY <1>6 DEF HostTeardown
  <2>. QED  BY <2>2, <2>3, TypesByPart, TypesKept
<1>7. CASE HostUpdatesConfig
  <2>1. calls' \in 0..MaxCalls
    BY SMTT(30), <1>7, HelperAssumption DEF HostUpdatesConfig, HostTypes
  <2>2. HostTypes'
    BY <1>7, <2>1, BeginTypes DEF HostUpdatesConfig, Exchange, HostTypes, Answered,
       Silent
  <2>3. UNCHANGED <<bridgeVars, readerVars, down, up, childVars>>
    BY <1>7 DEF HostUpdatesConfig
  <2>. QED  BY <2>2, <2>3, TypesByPart, TypesKept
<1>8. CASE HostDrop
  <2>1. calls' \in 0..MaxCalls
    BY <1>8, HelperAssumption DEF HostDrop, HostTypes
  <2>2. HostTypes'
    BY <1>8, <2>1, BeginTypes DEF HostDrop, HostTypes, Answered, Silent
  <2>3. UNCHANGED <<bridgeVars, readerVars, down, up, childVars>>
    BY <1>8 DEF HostDrop
  <2>. QED  BY <2>2, <2>3, TypesByPart, TypesKept
<1>9. ASSUME NEW l \in Links, HostWires(l) PROVE  TypeOK'
  <2>1. calls' \in 0..MaxCalls
    BY SMTT(30), <1>9, HelperAssumption DEF HostWires, HostTypes
  <2>2. HostTypes'
    BY <1>9, <2>1, BeginTypes DEF HostWires, HostTypes, Answered, Silent, Wiring
  <2>3. UNCHANGED <<bridgeVars, readerVars, down, up, childVars>>
    BY <1>9 DEF HostWires
  <2>. QED  BY <2>2, <2>3, TypesByPart, TypesKept
<1>10. ASSUME NEW l \in Links, HostUnwires(l) PROVE  TypeOK'
  <2>1. calls' \in 0..MaxCalls
    BY SMTT(30), <1>10, HelperAssumption DEF HostUnwires, HostTypes
  <2>2. HostTypes'
    BY <1>10, <2>1, BeginTypes DEF HostUnwires, HostTypes, Answered, Silent, Wiring
  <2>3. UNCHANGED <<bridgeVars, readerVars, down, up, childVars>>
    BY <1>10 DEF HostUnwires
  <2>. QED  BY <2>2, <2>3, TypesByPart, TypesKept
<1>. QED
  BY <1>1, <1>2, <1>3, <1>4, <1>5, <1>6, <1>7, <1>8, <1>9, <1>10 DEF HostStep

\* What is on its way to the socket is a command.
LEMMA CallsAreCommands ==
  ASSUME TypeOK, Stage
  PROVE  at \in {"send", "write", "wait"} => call \in Commands
BY CallFields DEF Stage

\* A child that has ended, however it did, is typed.
LEMMA EndedTypes ==
  ASSUME ChildEnds
  PROVE  ChildTypes' /\ down' \in Seq(Commands)
<1>1. queue' \in Seq(Commands \cup {Closed}) /\ down' \in Seq(Commands)
  BY EmptySequences DEF ChildEnds
<1>2. config' \in Serials /\ requests' \in 0..MaxRequests
  BY SMTT(30), SerialsFit, HelperAssumption DEF ChildEnds
<1>3. /\ child' \in {"none", "alive", "exited"}
      /\ pc' \in {"boot", "idle", "loop", "leave"}
      /\ work' \in Commands \cup {Idle}
      /\ hosted' \in {"no", "up", "failed"}
  BY DEF ChildEnds
<1>4. /\ listening' \in BOOLEAN /\ wedged' \in BOOLEAN
      /\ ports' \subseteq Links /\ refused' \subseteq Links
  BY DEF ChildEnds
<1>. QED  BY <1>1, <1>2, <1>3, <1>4 DEF ChildTypes

\* A step of a call is typed.
LEMMA TypeCallStep ==
  ASSUME TypeOK, Stage, CallStep
  PROVE  TypeOK'
<1>. HostTypes /\ BridgeTypes /\ ReaderTypes /\ ChildTypes /\ WireTypes
  BY TypesByPart
<1>. USE SerialsFit
<1>1. CASE SendNotes
  <2>1. HostTypes'
    BY <1>1 DEF SendNotes, Return, NextAfter, HostTypes
  <2>2. BridgeTypes'
    BY <1>1 DEF SendNotes, Stage, BridgeTypes
  <2>3. UNCHANGED <<readerVars, childVars, down, up>>
    BY <1>1 DEF SendNotes
  <2>. QED  BY <2>1, <2>2, <2>3, TypesByPart, TypesKept
<1>2. CASE SendWrites
  <2>1. HostTypes'
    BY <1>2 DEF SendWrites, Return, NextAfter, HostTypes
  <2>2. BridgeTypes'
    BY <1>2 DEF SendWrites, BridgeTypes
  <2>3. WireTypes'
    <3>1. call \in Commands
      BY <1>2, CallsAreCommands DEF SendWrites
    <3>2. down' \in {down, Append(down, call)} /\ UNCHANGED up
      BY <1>2 DEF SendWrites
    <3>. QED  BY SMTT(30), <3>1, <3>2 DEF WireTypes
  <2>4. UNCHANGED <<readerVars, childVars>>
    BY <1>2 DEF SendWrites
  <2>. QED  BY <2>1, <2>2, <2>3, <2>4, TypesByPart, TypesKept
<1>3. CASE TakeReply
  <2>1. HostTypes'
    BY <1>3, CallFields DEF TakeReply, Return, NextAfter, HostTypes
  <2>2. BridgeTypes'
    BY SMTT(30), <1>3 DEF TakeReply, BridgeTypes
  <2>3. UNCHANGED <<readerVars, childVars, down, up>>
    BY <1>3 DEF TakeReply
  <2>. QED  BY <2>1, <2>2, <2>3, TypesByPart, TypesKept
<1>4. CASE ReplyTimesOut
  <2>1. HostTypes'
    BY <1>4 DEF ReplyTimesOut, Return, NextAfter, HostTypes
  <2>2. UNCHANGED <<bridgeVars, readerVars, childVars, down, up>>
    BY <1>4 DEF ReplyTimesOut
  <2>. QED  BY <2>1, <2>2, TypesByPart, TypesKept
<1>5. CASE ReplyDisconnected
  <2>1. HostTypes'
    BY <1>5 DEF ReplyDisconnected, Return, NextAfter, HostTypes
  <2>2. UNCHANGED <<bridgeVars, readerVars, childVars, down, up>>
    BY <1>5 DEF ReplyDisconnected
  <2>. QED  BY <2>1, <2>2, TypesByPart, TypesKept
<1>6. CASE CloseBridge
  <2>1. HostTypes'
    BY <1>6 DEF CloseBridge, HostTypes
  <2>2. BridgeTypes'
    BY <1>6 DEF CloseBridge, BridgeTypes
  <2>3. UNCHANGED <<readerVars, childVars, down, up>>
    BY <1>6 DEF CloseBridge
  <2>. QED  BY <2>1, <2>2, <2>3, TypesByPart, TypesKept
<1>7. CASE DrainWindows
  <2>1. HostTypes'
    BY <1>7 DEF DrainWindows, HostTypes
  <2>2. ReaderTypes'
    BY <1>7 DEF DrainWindows, ReaderTypes
  <2>3. UNCHANGED <<bridgeVars, childVars, down, up>>
    BY <1>7 DEF DrainWindows
  <2>. QED  BY <2>1, <2>2, <2>3, TypesByPart, TypesKept
<1>8. CASE DrainHandles
  <2>1. HostTypes'
    BY <1>8 DEF DrainHandles, HostTypes
  <2>2. BridgeTypes'
    BY <1>8, EmptySequences DEF DrainHandles, BridgeTypes
  <2>3. ReaderTypes'
    BY <1>8 DEF DrainHandles, ReaderTypes
  <2>4. UNCHANGED <<childVars, down, up>>
    BY <1>8 DEF DrainHandles
  <2>. QED  BY <2>1, <2>2, <2>3, <2>4, TypesByPart, TypesKept
<1>9. CASE Reap
  <2>1. HostTypes'
    BY <1>9 DEF Reap, HostTypes
  <2>2. ChildTypes'
    BY <1>9, EndedTypes DEF Reap, ChildTypes
  <2>3. WireTypes'
    BY <1>9, EndedTypes DEF Reap, WireTypes
  <2>4. UNCHANGED <<bridgeVars, readerVars>>
    BY <1>9 DEF Reap
  <2>. QED  BY <2>1, <2>2, <2>3, <2>4, TypesByPart, TypesKept
<1>. QED
  BY <1>1, <1>2, <1>3, <1>4, <1>5, <1>6, <1>7, <1>8, <1>9 DEF CallStep

\* The first item of a sequence is one of its items, and so are the rest.
LEMMA FirstAndRest ==
  ASSUME NEW S, NEW s \in Seq(S), s # <<>>
  PROVE  Head(s) \in S /\ Tail(s) \in Seq(S)
BY SMTT(30)

\* A sequence with one more item of the same kind.
LEMMA AddOne ==
  ASSUME NEW S, NEW s \in Seq(S), NEW x \in S
  PROVE  Append(s, x) \in Seq(S)
BY SMTT(30)

\* The frames of the helper process are told apart by rpc.
LEMMA FrameFields ==
  /\ \A f \in Replies \cup Requests :
        /\ f.n \in Serials /\ (f.rpc = "reply" <=> f \in Replies)
        /\ f.n = 0 <=> f.rpc # "reply"
        /\ f.flag \in BOOLEAN
  /\ \A k \in Serials \ {0}, b \in BOOLEAN : Reply(k, b) \in Replies
  /\ \A o \in {"acquire", "window"}, b \in BOOLEAN : Request(o, b) \in Requests
<1>1. \A f \in Replies \cup Requests :
        /\ f.n \in Serials /\ (f.rpc = "reply" <=> f \in Replies)
        /\ f.n = 0 <=> f.rpc # "reply"
        /\ f.flag \in BOOLEAN
  BY SerialsFit DEF Replies, Requests
<1>2. \A k \in Serials \ {0}, b \in BOOLEAN : Reply(k, b) \in Replies
  BY DEF Reply, Replies
<1>3. \A o \in {"acquire", "window"}, b \in BOOLEAN : Request(o, b) \in Requests
  BY DEF Request, Requests
<1>. QED  BY <1>1, <1>2, <1>3

\* The reader thread's steps are typed: what it forwards is a reply.
LEMMA TypeReaderStep ==
  ASSUME TypeOK, ReaderStep
  PROVE  TypeOK'
<1>. HostTypes /\ BridgeTypes /\ ReaderTypes /\ ChildTypes /\ WireTypes
  BY TypesByPart
<1>0. up # <<>> => Head(up) \in Replies \cup Requests /\ Tail(up) \in Seq(Replies \cup Requests)
  BY FirstAndRest DEF WireTypes
<1>1. CASE ReaderForwards
  <2>1. BridgeTypes'
    BY <1>1, <1>0, FrameFields, AddOne DEF ReaderForwards, BridgeTypes
  <2>2. ReaderTypes'
    BY <1>1 DEF ReaderForwards, ReaderTypes
  <2>3. WireTypes'
    BY <1>1, <1>0 DEF ReaderForwards, WireTypes
  <2>4. UNCHANGED <<hostVars, childVars>>
    BY <1>1 DEF ReaderForwards
  <2>. QED  BY <2>1, <2>2, <2>3, <2>4, TypesByPart, TypesKept
<1>2. CASE ReaderServes
  <2>1. ReaderTypes'
    BY SMTT(30), <1>2, <1>0, FrameFields DEF
        ReaderServes, ServesAcquire, ServesWindow, ReaderTypes
  <2>2. WireTypes'
    BY <1>2, <1>0 DEF ReaderServes, ServesAcquire, ServesWindow, WireTypes
  <2>3. UNCHANGED <<hostVars, bridgeVars, childVars>>
    BY <1>2 DEF ReaderServes, ServesAcquire, ServesWindow
  <2>. QED  BY <2>1, <2>2, <2>3, TypesByPart, TypesKept
<1>3. CASE ReaderMints
  <2>1. ReaderTypes'
    BY SMTT(30), <1>3 DEF ReaderMints, ReaderTypes
  <2>2. UNCHANGED <<hostVars, bridgeVars, childVars, down, up>>
    BY <1>3 DEF ReaderMints
  <2>. QED  BY <2>1, <2>2, TypesByPart, TypesKept
<1>4. CASE ReaderLocksWriter
  <2>1. ReaderTypes'
    BY <1>4 DEF ReaderLocksWriter, ReaderTypes
  <2>2. UNCHANGED <<hostVars, bridgeVars, childVars, down, up>>
    BY <1>4 DEF ReaderLocksWriter
  <2>. QED  BY <2>1, <2>2, TypesByPart, TypesKept
<1>5. CASE ReaderAnswers
  <2>1. BridgeTypes'
    BY <1>5 DEF ReaderAnswers, BridgeTypes
  <2>2. ReaderTypes'
    BY <1>5 DEF ReaderAnswers, ReaderTypes
  <2>3. UNCHANGED <<hostVars, childVars, down, up>>
    BY <1>5 DEF ReaderAnswers
  <2>. QED  BY <2>1, <2>2, <2>3, TypesByPart, TypesKept
<1>6. CASE ReaderEnds
  <2>1. BridgeTypes'
    BY <1>6 DEF ReaderEnds, BridgeTypes
  <2>2. ReaderTypes'
    BY <1>6 DEF ReaderEnds, ReaderTypes
  <2>3. UNCHANGED <<hostVars, childVars, down, up>>
    BY <1>6 DEF ReaderEnds
  <2>. QED  BY <2>1, <2>2, <2>3, TypesByPart, TypesKept
<1>. QED
  BY <1>1, <1>2, <1>3, <1>4, <1>5, <1>6 DEF ReaderStep

\* The command being carried out, and the next one.
LEMMA WorkFields ==
  ASSUME TypeOK
  PROVE  /\ work.n \in Serials /\ work.links \subseteq Links
         /\ work.cmd \in Answered => work.n # 0
         /\ work.cmd \notin Answered => work.n = 0
         /\ queue # <<>> => /\ Head(queue) \in Commands \cup {Closed}
                            /\ Tail(queue) \in Seq(Commands \cup {Closed})
                            /\ Head(queue).cmd = "run" => Head(queue) \in Commands
<1>1. work \in Commands \/ work = Idle
  BY DEF TypeOK
<1>2. /\ work.n \in Serials /\ work.links \subseteq Links
      /\ work.cmd \in Answered => work.n # 0
      /\ work.cmd \notin Answered => work.n = 0
  BY <1>1, CommandFields, SerialsFit DEF Answered
<1>3. queue # <<>> => /\ Head(queue) \in Commands \cup {Closed}
                     /\ Tail(queue) \in Seq(Commands \cup {Closed})
  BY FirstAndRest DEF TypeOK
<1>. QED  BY <1>2, <1>3, CommandFields

\* The helper process's steps are typed.
LEMMA TypeChildStep ==
  ASSUME TypeOK, ChildStep
  PROVE  TypeOK'
<1>. HostTypes /\ BridgeTypes /\ ReaderTypes /\ ChildTypes /\ WireTypes
  BY TypesByPart
<1>. USE SerialsFit
<1>1. CASE ChildBoots
  <2>1. ChildTypes'
    BY <1>1 DEF ChildBoots, ChildTypes
  <2>2. UNCHANGED <<hostVars, bridgeVars, readerVars, down, up>>
    BY <1>1 DEF ChildBoots
  <2>. QED  BY <2>1, <2>2, TypesByPart, TypesKept
<1>2. CASE ChildTakes
  <2>1. ChildTypes'
    BY <1>2, WorkFields DEF ChildTakes, ChildSeesClosed, ChildRuns, ChildDispatches,
       ChildTypes
  <2>2. UNCHANGED <<hostVars, bridgeVars, readerVars, down, up>>
    BY <1>2 DEF ChildTakes
  <2>. QED  BY <2>1, <2>2, TypesByPart, TypesKept
<1>3. CASE ChildFinishes
  <2>1. ChildTypes'
    BY <1>3, WorkFields DEF ChildFinishes, FinishSetup, FinishWiring, FinishUpdate,
       FinishHook, ChildTypes
  <2>2. WireTypes'
    BY <1>3, WorkFields, FrameFields, AddOne DEF ChildFinishes, FinishSetup,
       FinishWiring, FinishUpdate, FinishHook, Writes, Answered, WireTypes
  <2>3. UNCHANGED <<hostVars, bridgeVars, readerVars>>
    BY <1>3 DEF ChildFinishes
  <2>. QED  BY <2>1, <2>2, <2>3, TypesByPart, TypesKept
<1>4. CASE ChildLeaves
  <2>1. ChildTypes'
    BY <1>4, EndedTypes DEF ChildLeaves, ChildTypes
  <2>2. WireTypes'
    BY <1>4, EndedTypes DEF ChildLeaves, WireTypes
  <2>3. UNCHANGED <<hostVars, bridgeVars, readerVars>>
    BY <1>4 DEF ChildLeaves
  <2>. QED  BY <2>1, <2>2, <2>3, TypesByPart, TypesKept
<1>5. CASE ChildReads
  <2>1. ChildTypes'
    <3>1. /\ Closed \in Commands \cup {Closed}
          /\ down # <<>> => Head(down) \in Commands \cup {Closed}
      BY FirstAndRest DEF WireTypes
    <3>2. queue' \in Seq(Commands \cup {Closed})
      BY <1>5, <3>1, AddOne DEF ChildReads, ChildTypes
    <3>. QED  BY <1>5, <3>2 DEF ChildReads, ChildTypes
  <2>2. WireTypes'
    BY <1>5, FirstAndRest DEF ChildReads, WireTypes
  <2>3. UNCHANGED <<hostVars, bridgeVars, readerVars>>
    BY <1>5 DEF ChildReads
  <2>. QED  BY <2>1, <2>2, <2>3, TypesByPart, TypesKept
<1>6. CASE ChildLeavesLoop
  <2>1. ChildTypes'
    BY <1>6 DEF ChildLeavesLoop, ChildTypes
  <2>2. UNCHANGED <<hostVars, bridgeVars, readerVars, down, up>>
    BY <1>6 DEF ChildLeavesLoop
  <2>. QED  BY <2>1, <2>2, TypesByPart, TypesKept
<1>7. CASE ChildWedges
  <2>1. ChildTypes'
    BY <1>7 DEF ChildWedges, ChildTypes
  <2>2. UNCHANGED <<hostVars, bridgeVars, readerVars, down, up>>
    BY <1>7 DEF ChildWedges
  <2>. QED  BY <2>1, <2>2, TypesByPart, TypesKept
<1>8. CASE ChildDies
  <2>1. ChildTypes'
    BY <1>8, EndedTypes DEF ChildDies, ChildTypes
  <2>2. WireTypes'
    BY <1>8, EndedTypes DEF ChildDies, WireTypes
  <2>3. UNCHANGED <<hostVars, bridgeVars, readerVars>>
    BY <1>8 DEF ChildDies
  <2>. QED  BY <2>1, <2>2, <2>3, TypesByPart, TypesKept
<1>9. ASSUME NEW o \in {"acquire", "window"}, ChildAsks(o) PROVE  TypeOK'
  <2>1. ChildTypes'
    BY SMTT(30), <1>9, HelperAssumption DEF ChildAsks, ChildTypes
  <2>2. WireTypes'
    BY <1>9, FrameFields, AddOne DEF ChildAsks, Writes, WireTypes
  <2>3. UNCHANGED <<hostVars, bridgeVars, readerVars>>
    BY <1>9 DEF ChildAsks
  <2>. QED  BY <2>1, <2>2, <2>3, TypesByPart, TypesKept
<1>. QED
  BY <1>1, <1>2, <1>3, <1>4, <1>5, <1>6, <1>7, <1>8, <1>9 DEF ChildStep, ChildMain

\* The reader thread and the helper process leave the host's calls alone.
LEMMA CallsLeftAlone ==
  ASSUME ReaderStep \/ ChildStep
  PROVE  UNCHANGED <<hostVars, bridge, shut, lastCommand>>
BY DEF ReaderStep, ReaderForwards,
    ReaderServes, ServesAcquire, ServesWindow,
    ReaderMints, ReaderLocksWriter, ReaderAnswers, ReaderEnds,
       ChildStep, ChildMain, ChildBoots, ChildTakes, ChildFinishes, ChildLeaves,
       ChildReads, ChildLeavesLoop, ChildWedges, ChildDies, ChildAsks, bridgeVars

\* So they keep what is known of those.
LEMMA ControlKept ==
  ASSUME Stage, Budget, UNCHANGED <<hostVars, bridge>>
  PROVE  Stage' /\ Budget'
BY DEF Stage, Budget, Spent, hostVars

\* The host has the handle of any process that lives.
LEMMA OwnedStep ==
  ASSUME Owned, Next
  PROVE  Owned'
<1>1. CASE HostStep
  BY <1>1 DEF HostStep, HostSetup, HostStart, HostPauseOrResume, HostSeesFailure,
              HostStop, HostTeardown, HostUpdatesConfig, HostDrop, HostWires,
              HostUnwires, Owned, childVars
<1>2. CASE CallStep
  BY <1>2 DEF CallStep, SendNotes, SendWrites, TakeReply, ReplyTimesOut,
              ReplyDisconnected, CloseBridge, DrainWindows, DrainHandles, Reap,
              ChildEnds, Owned, childVars
<1>3. CASE ReaderStep
  BY <1>3 DEF ReaderStep, ReaderForwards,
      ReaderServes, ServesAcquire, ServesWindow,
      ReaderMints, ReaderLocksWriter, ReaderAnswers, ReaderEnds,
              Owned, hostVars, childVars
<1>4. CASE ChildStep
  BY <1>4 DEF ChildStep, ChildMain, ChildBoots, ChildTakes, ChildFinishes,
              ChildLeaves, ChildReads, ChildLeavesLoop, ChildWedges, ChildDies,
              ChildAsks, ChildEnds, Owned, hostVars
<1>. QED  BY <1>1, <1>2, <1>3, <1>4 DEF Next

\* After the drain, the reader thread serves one more request at most.
LEMMA DrainingStep ==
  ASSUME TypeOK, Stage, Draining, Next
  PROVE  Draining'
<1>. ReaderTypes /\ BridgeTypes
  BY TypesByPart
<1>. USE DEF Draining, Pending, ReaderTypes, BridgeTypes
<1>1. CASE HostSetup
  BY <1>1 DEF HostSetup, Begin, Stage, hostVars, bridgeVars, readerVars
<1>2. CASE HostStart
  BY <1>2 DEF HostStart, Begin, Stage, hostVars, bridgeVars, readerVars
<1>3. CASE HostPauseOrResume
  BY <1>3 DEF HostPauseOrResume, Exchange, Begin, Stage, hostVars, bridgeVars,
     readerVars
<1>4. CASE HostSeesFailure
  BY <1>4 DEF HostSeesFailure, Stage, hostVars, bridgeVars, readerVars
<1>5. CASE HostStop
  BY <1>5 DEF HostStop, Exchange, Begin, Stage, hostVars, bridgeVars, readerVars
<1>6. CASE HostTeardown
  BY <1>6 DEF HostTeardown, Exchange, Begin, Stage, hostVars, bridgeVars, readerVars
<1>7. CASE HostUpdatesConfig
  BY <1>7 DEF HostUpdatesConfig, Exchange, Begin, Stage, hostVars, bridgeVars,
     readerVars
<1>8. CASE HostDrop
  BY <1>8 DEF HostDrop, Stage, hostVars, bridgeVars, readerVars
<1>9. ASSUME NEW l \in Links, HostWires(l) PROVE  Draining'
  BY <1>9 DEF HostWires, Begin, Stage, hostVars, bridgeVars, readerVars
<1>10. ASSUME NEW l \in Links, HostUnwires(l) PROVE  Draining'
  BY <1>10 DEF HostUnwires, Begin, Stage, hostVars, bridgeVars, readerVars
<1>11. CASE SendNotes
  BY <1>11 DEF SendNotes, Return, Stage, hostVars, bridgeVars, readerVars
<1>12. CASE SendWrites
  BY <1>12 DEF SendWrites, Return, Stage, hostVars, bridgeVars, readerVars
<1>13. CASE TakeReply
  BY <1>13 DEF TakeReply, Return, Stage, hostVars, bridgeVars, readerVars
<1>14. CASE ReplyTimesOut
  BY <1>14 DEF ReplyTimesOut, Return, Stage, hostVars, bridgeVars, readerVars
<1>15. CASE ReplyDisconnected
  BY <1>15 DEF ReplyDisconnected, Return, Stage, hostVars, bridgeVars, readerVars
<1>16. CASE CloseBridge
  BY <1>16 DEF CloseBridge, Stage, hostVars, bridgeVars, readerVars
<1>17. CASE DrainWindows
  BY SMTT(30), <1>17 DEF DrainWindows, Stage, hostVars, bridgeVars, readerVars
<1>18. CASE DrainHandles
  BY SMTT(30), <1>18 DEF DrainHandles, Stage, hostVars, bridgeVars, readerVars
<1>19. CASE Reap
  BY <1>19 DEF Reap, Stage, hostVars, bridgeVars, readerVars
<1>20. CASE ReaderForwards
  BY SMTT(30), <1>20 DEF ReaderForwards, Stage, hostVars, bridgeVars, readerVars
<1>21. CASE ReaderServes
  BY SMTT(30), <1>21 DEF
      ReaderServes, ServesAcquire, ServesWindow, Stage, hostVars, bridgeVars, readerVars
<1>22. CASE ReaderMints
  BY SMTT(30), <1>22 DEF ReaderMints, Stage, hostVars, bridgeVars, readerVars
<1>23. CASE ReaderLocksWriter
  BY <1>23 DEF ReaderLocksWriter, Stage, hostVars, bridgeVars, readerVars
<1>24. CASE ReaderAnswers
  BY <1>24 DEF ReaderAnswers, Stage, hostVars, bridgeVars, readerVars
<1>25. CASE ReaderEnds
  BY SMTT(30), <1>25 DEF ReaderEnds, Stage, hostVars, bridgeVars, readerVars
<1>26. CASE ChildStep
  BY <1>26 DEF ChildStep, ChildMain, ChildBoots, ChildTakes, ChildFinishes,
               ChildLeaves, ChildReads, ChildLeavesLoop, ChildWedges, ChildDies,
               ChildAsks, hostVars, bridgeVars, readerVars
<1>. QED
  BY <1>1, <1>2, <1>3, <1>4, <1>5, <1>6, <1>7, <1>8, <1>9, <1>10, <1>11, <1>12,
     <1>13, <1>14, <1>15, <1>16, <1>17, <1>18, <1>19, <1>20, <1>21, <1>22, <1>23,
     <1>24, <1>25, <1>26 DEF Next, HostStep, CallStep, ReaderStep

\* A sequence without a run stays without one.
LEMMA NoRunMoves ==
  ASSUME NEW S, NEW s \in Seq(S), NoRunIn(s)
  PROVE  /\ s # <<>> => NoRunIn(Tail(s)) /\ Head(s).cmd # "run"
         /\ \A x \in S : x.cmd # "run" => NoRunIn(Append(s, x))
BY SMTT(30) DEF NoRunIn

\* A sequence without a request made while running stays without one.
LEMMA NoMidMoves ==
  ASSUME NEW S, NEW s \in Seq(S), NoMidIn(s)
  PROVE  /\ s # <<>> => NoMidIn(Tail(s)) /\ ~(Head(s).rpc = "window" /\ Head(s).flag)
         /\ \A x \in S : ~(x.rpc = "window" /\ x.flag) => NoMidIn(Append(s, x))
BY SMTT(30) DEF NoMidIn

\* A child that has ended runs nothing.
LEMMA EndedIsNotRunning ==
  ASSUME ChildEnds, NotRunning, UNCHANGED up
  PROVE  NotRunning'
BY SMTT(30) DEF ChildEnds, NotRunning, NoRunIn, Idle, Command

\* Nothing begins to run that has not been told to.
LEMMA NotRunningKept ==
  ASSUME TypeOK, NotRunning, ChildStep
  PROVE  NotRunning'
<1>. /\ queue \in Seq(Commands \cup {Closed}) /\ down \in Seq(Commands)
     /\ up \in Seq(Replies \cup Requests)
  BY DEF TypeOK
<1>1. CASE ChildBoots
  BY <1>1 DEF ChildBoots, NotRunning
<1>2. CASE ChildTakes
  <2>1. queue' = Tail(queue) /\ queue # <<>> /\ UNCHANGED <<down, up>>
    BY <1>2 DEF ChildTakes
  <2>2. NoRunIn(queue') /\ Head(queue).cmd # "run"
    BY <2>1, NoRunMoves DEF NotRunning
  <2>3. work'.cmd # "run" /\ pc' # "loop"
    BY <1>2, <2>2 DEF ChildTakes, ChildSeesClosed, ChildRuns, ChildDispatches,
       NotRunning
  <2>. QED  BY <2>1, <2>2, <2>3 DEF NotRunning
<1>3. CASE ChildFinishes
  <2>1. work'.cmd # "run" /\ UNCHANGED <<pc, queue, down>>
    BY <1>3, CommandFields DEF ChildFinishes
  <2>2. up' = up \/ \E b \in BOOLEAN : up' = Append(up, Reply(work.n, b))
    BY <1>3 DEF ChildFinishes, FinishSetup, FinishWiring, FinishUpdate, FinishHook,
       Writes
  <2>3. \A b \in BOOLEAN : up' = Append(up, Reply(work.n, b)) => NoMidIn(up')
    <3>1. \A b \in BOOLEAN : ~(Reply(work.n, b).rpc = "window" /\ Reply(work.n, b).flag)
      BY DEF Reply
    <3>2. ASSUME NEW b \in BOOLEAN, up' = Append(up, Reply(work.n, b))
          PROVE  NoMidIn(up')
      BY SMTT(30), <3>1, <3>2 DEF NoMidIn, NotRunning
    <3>. QED  BY <3>2
  <2>. QED  BY <2>1, <2>2, <2>3 DEF NotRunning
<1>4. CASE ChildLeaves
  BY <1>4, EndedIsNotRunning DEF ChildLeaves
<1>5. CASE ChildReads
  <2>1. UNCHANGED <<up, work, pc>>
    BY <1>5 DEF ChildReads
  <2>2. CASE down # <<>>
    <3>1. queue' = Append(queue, Head(down)) /\ down' = Tail(down)
      BY <1>5, <2>2 DEF ChildReads
    <3>2. Head(down) \in Commands \cup {Closed}
      BY <2>2, FirstAndRest
    <3>3. NoRunIn(queue) /\ NoRunIn(down)
      BY DEF NotRunning
    <3>4. NoRunIn(down') /\ Head(down).cmd # "run"
      BY <2>2, <3>1, <3>3, NoRunMoves
    <3>5. NoRunIn(queue')
      BY <3>1, <3>2, <3>3, <3>4, NoRunMoves
    <3>. QED  BY <2>1, <3>4, <3>5 DEF NotRunning
  <2>3. CASE down = <<>>
    <3>1. queue' = Append(queue, Closed) /\ down' = down
      BY <1>5, <2>3 DEF ChildReads
    <3>2. NoRunIn(queue) /\ Closed.cmd # "run"
      BY CommandFields DEF NotRunning
    <3>3. NoRunIn(queue')
      BY <3>1, <3>2, NoRunMoves
    <3>. QED  BY <2>1, <3>1, <3>3 DEF NotRunning
  <2>. QED  BY <2>2, <2>3
<1>6. CASE ChildLeavesLoop
  BY <1>6 DEF ChildLeavesLoop, NotRunning
<1>7. CASE ChildWedges
  BY <1>7 DEF ChildWedges, NotRunning
<1>8. CASE ChildDies
  BY <1>8, EndedIsNotRunning DEF ChildDies
<1>9. ASSUME NEW o \in {"acquire", "window"}, ChildAsks(o)
      PROVE  NotRunning'
  <2>1. UNCHANGED <<down, queue, work, pc>>
    BY <1>9 DEF ChildAsks
  <2>2. pc # "loop" /\ NoMidIn(up)
    BY DEF NotRunning
  <2>3. up' \in {up, Append(up, Request(o, FALSE))}
    BY <1>9, <2>2 DEF ChildAsks, Writes
  <2>4. NoMidIn(up')
    <3>1. Request(o, FALSE) \in Replies \cup Requests /\ ~Request(o, FALSE).flag
      BY FrameFields DEF Request
    <3>. QED  BY <2>2, <2>3, <3>1, NoMidMoves
  <2>. QED  BY <2>1, <2>4 DEF NotRunning
<1>. QED
  BY <1>1, <1>2, <1>3, <1>4, <1>5, <1>6, <1>7, <1>8, <1>9 DEF ChildStep, ChildMain

\* A command is noted before it is written.
LEMMA NotedCallStep ==
  ASSUME TypeOK, Stage, Noted, CallStep
  PROVE  Noted'
<1>. /\ thread' = "setup" => thread = "setup"
     /\ ~midProcess' /\ UNCHANGED up
  BY SMTT(30) DEF CallStep, SendNotes, SendWrites, TakeReply, ReplyTimesOut,
         ReplyDisconnected, CloseBridge, DrainWindows, DrainHandles, Reap, Return,
         NextAfter, readerVars, Noted
<1>1. CASE SendNotes
  <2>1. UNCHANGED <<down, queue, work, pc>>
    BY <1>1 DEF SendNotes, childVars
  <2>2. NotRunning => NotRunning'
    BY <2>1 DEF NotRunning
  <2>3. at' # "write" => UNCHANGED lastCommand
    BY <1>1 DEF SendNotes
  <2>4. at' = "write" => lastCommand' = call.cmd /\ UNCHANGED <<call, thread>>
    BY <1>1 DEF SendNotes, Return
  <2>. QED  BY <1>1, <2>2, <2>3, <2>4 DEF SendNotes, Noted, Stage, Answered, Silent
<1>2. CASE SendWrites
  <2>1. UNCHANGED <<queue, work, pc, lastCommand>> /\ at' # "write"
    BY <1>2 DEF SendWrites, Return, childVars
  <2>2. down' \in {down, Append(down, call)}
    BY <1>2 DEF SendWrites
  <2>3. call \in Commands /\ lastCommand = call.cmd
    BY <1>2, CallsAreCommands DEF SendWrites, Noted
  <2>4. down \in Seq(Commands)
    BY DEF TypeOK
  <2>5. lastCommand \in {"none", "setup"} /\ NoRunIn(down) => NoRunIn(down')
    BY <2>2, <2>3, <2>4, NoRunMoves
  <2>6. lastCommand \in {"none", "setup"} /\ NotRunning => NotRunning'
    BY <2>1, <2>5 DEF NotRunning
  <2>. QED  BY <2>1, <2>6 DEF Noted
<1>3. CASE TakeReply \/ ReplyTimesOut \/ ReplyDisconnected \/ CloseBridge
           \/ DrainWindows \/ DrainHandles
  <2>1. UNCHANGED <<down, queue, work, pc, lastCommand>> /\ at' # "write"
    BY <1>3 DEF TakeReply, ReplyTimesOut, ReplyDisconnected, CloseBridge,
                DrainWindows, DrainHandles, Return, childVars, bridgeVars
  <2>2. NotRunning => NotRunning'
    BY <2>1 DEF NotRunning
  <2>. QED  BY <2>1, <2>2 DEF Noted
<1>4. CASE Reap
  <2>1. ChildEnds /\ UNCHANGED lastCommand /\ at' # "write"
    BY <1>4 DEF Reap, bridgeVars
  <2>. QED  BY <2>1, EndedIsNotRunning DEF Noted
<1>. QED  BY <1>1, <1>2, <1>3, <1>4 DEF CallStep

\* The reader thread sees a note at least as late as the child saw a command.
LEMMA NotedStep ==
  ASSUME TypeOK, Stage, Noted, Next
  PROVE  Noted'
<1>1. CASE HostStep
  <2>1. /\ UNCHANGED <<down, up, queue, work, pc, lastCommand, midProcess>>
        /\ at' # "write" /\ (thread' = "setup" => thread = "setup")
    BY <1>1 DEF HostStep, HostSetup, HostStart, HostPauseOrResume, HostSeesFailure,
                HostStop, HostTeardown, HostUpdatesConfig, HostDrop, HostWires,
                HostUnwires, Exchange, Begin, childVars, bridgeVars, readerVars
  <2>2. NotRunning => NotRunning'
    BY <2>1 DEF NotRunning
  <2>. QED  BY <2>1, <2>2 DEF Noted
<1>2. CASE CallStep
  BY <1>2, NotedCallStep
<1>3. CASE ReaderStep
  <2>. UNCHANGED <<hostVars, lastCommand, down, queue, work, pc>>
    BY <1>3 DEF ReaderStep, ReaderForwards,
        ReaderServes, ServesAcquire, ServesWindow,
        ReaderMints, ReaderLocksWriter, ReaderAnswers, ReaderEnds,
                bridgeVars, childVars
  <2>1. up' = up \/ (up # <<>> /\ up' = Tail(up))
    BY <1>3 DEF ReaderStep, ReaderForwards,
        ReaderServes, ServesAcquire, ServesWindow,
        ReaderMints, ReaderLocksWriter, ReaderAnswers, ReaderEnds
  <2>2. up \in Seq(Replies \cup Requests)
    BY DEF TypeOK
  <2>3. NoMidIn(up) => NoMidIn(up')
    BY <2>1, <2>2, NoMidMoves
  <2>4. NotRunning => NotRunning'
    BY <2>3 DEF NotRunning
  <2>5. ~midProcess'
    <3>1. lastCommand = "setup" /\ up # <<>> => ~(Head(up).rpc = "window" /\ Head(up).flag)
      BY <2>2, NoMidMoves DEF Noted, NotRunning
    <3>. QED  BY <1>3, <3>1 DEF ReaderStep, ReaderForwards,
        ReaderServes, ServesAcquire, ServesWindow, ReaderMints, ReaderLocksWriter,
                                ReaderAnswers, ReaderEnds, Noted
  <2>. QED  BY <2>4, <2>5 DEF Noted, hostVars
<1>4. CASE ChildStep
  <2>1. UNCHANGED <<hostVars, lastCommand>>
    BY <1>4, CallsLeftAlone
  <2>2. UNCHANGED midProcess
    BY <1>4 DEF ChildStep, ChildMain, ChildBoots, ChildTakes, ChildFinishes,
                ChildLeaves, ChildReads, ChildLeavesLoop, ChildWedges, ChildDies,
                ChildAsks, readerVars
  <2>3. NotRunning => NotRunning'
    BY <1>4, NotRunningKept
  <2>. QED  BY <2>1, <2>2, <2>3 DEF Noted, hostVars
<1>. QED  BY <1>1, <1>2, <1>3, <1>4 DEF Next

(***************************************************************************)
(* Replies.                                                                *)
(***************************************************************************)

\* The numbers on a sequence, when its first item goes or one is added.
LEMMA OnlyMoves ==
  ASSUME NEW S, NEW s \in Seq(S), NEW k \in Nat, Only(s, k)
  PROVE  /\ s # <<>> => Only(Tail(s), k) /\ Head(s).n \in {0, k}
         /\ \A x \in S : x.n \in {0, k} => Only(Append(s, x), k)
BY SMTT(30) DEF Only

\* Whether a sequence still holds a numbered item.
LEMMA DueMoves ==
  ASSUME NEW S, NEW s \in Seq(S)
  PROVE  /\ s # <<>> => /\ Due(Tail(s)) => Due(s)
                        /\ Head(s).n # 0 => Due(s)
         /\ \A x \in S : Due(Append(s, x)) => Due(s) \/ x.n # 0
BY SMTT(30) DEF Due

\* One numbered item stays one.
LEMMA SingleMoves ==
  ASSUME NEW S, NEW s \in Seq(S), Single(s)
  PROVE  /\ s # <<>> => /\ Single(Tail(s))
                        /\ Head(s).n # 0 => ~Due(Tail(s))
         /\ \A x \in S : (x.n # 0 => ~Due(s)) => Single(Append(s, x))
<1>1. ASSUME s # <<>>
      PROVE  Single(Tail(s))
  BY SMTT(30), <1>1 DEF Single
<1>2. ASSUME s # <<>>, Head(s).n # 0
      PROVE  ~Due(Tail(s))
  BY SMTT(30), <1>2 DEF Single, Due
<1>3. ASSUME NEW x \in S, x.n # 0 => ~Due(s)
      PROVE  Single(Append(s, x))
  BY SMTT(30), <1>3 DEF Single, Due
<1>. QED  BY <1>1, <1>2, <1>3

\* Nothing due, and so nothing doubled.
LEMMA NothingDue ==
  /\ \A s : Only(s, 0) => ~Due(s) /\ Single(s)
  /\ \A s : ~Due(s) => \A k : Only(s, k)
  /\ ~Due(<<>>) /\ Single(<<>>) /\ \A k : Only(<<>>, k)
BY SMTT(30) DEF Only, Due, Single

\* A child that has ended owes no reply it has not written.
LEMMA EndedKeepsOneDue ==
  ASSUME NEW k \in Nat, OneDue, DueOnly(k), ChildEnds, UNCHANGED <<up, replies>>
  PROVE  OneDue' /\ DueOnly(k)'
<1>1. down' = <<>> /\ queue' = <<>> /\ work'.n = 0
  BY CommandFields DEF ChildEnds
<1>. QED  BY <1>1, NothingDue DEF OneDue, DueOnly

\* A reply moves along, or is lost; none is doubled and none made up.
LEMMA ReaderKeepsOneDue ==
  ASSUME TypeOK, NEW k \in Nat, OneDue, DueOnly(k), ReaderStep
  PROVE  OneDue' /\ DueOnly(k)'
<1>. UNCHANGED <<down, queue, work>>
  BY DEF ReaderStep, ReaderForwards,
      ReaderServes, ServesAcquire, ServesWindow,
      ReaderMints, ReaderLocksWriter, ReaderAnswers, ReaderEnds, childVars
<1>. up \in Seq(Replies \cup Requests) /\ replies \in Seq(Replies)
  BY DEF TypeOK
<1>. Single(up) /\ Single(replies) /\ Only(up, k) /\ Only(replies, k)
  BY DEF OneDue, DueOnly
<1>1. CASE up' = up /\ replies' = replies
  BY <1>1 DEF OneDue, DueOnly
<1>2. CASE up # <<>> /\ up' = Tail(up)
  <2>1. /\ Single(up') /\ Only(up', k) /\ Head(up).n \in {0, k}
        /\ Due(up') => Due(up)
        /\ Head(up).n # 0 => Due(up) /\ ~Due(up')
    BY <1>2, OnlyMoves, SingleMoves, DueMoves
  <2>2. CASE replies' = replies
    BY <2>1, <2>2 DEF OneDue, DueOnly
  <2>3. CASE Head(up).rpc = "reply" /\ replies' = Append(replies, Head(up))
    <3>1. Head(up) \in Replies
      BY <1>2, <2>3, FirstAndRest, FrameFields
    <3>2. Head(up).n # 0 => ~Due(replies)
      BY <2>1 DEF OneDue
    <3>3. Single(replies') /\ Only(replies', k) /\ (Due(replies') => Due(replies) \/ Head(up).n # 0)
      BY <2>1, <2>3, <3>1, <3>2, OnlyMoves, SingleMoves, DueMoves
    <3>. QED  BY <2>1, <3>3 DEF OneDue, DueOnly
  <2>. QED
    BY <2>2, <2>3 DEF ReaderStep, ReaderForwards,
        ReaderServes, ServesAcquire, ServesWindow,
        ReaderMints, ReaderLocksWriter, ReaderAnswers,
                      ReaderEnds, bridgeVars
<1>. QED
  BY <1>1, <1>2 DEF ReaderStep, ReaderForwards,
      ReaderServes, ServesAcquire, ServesWindow,
      ReaderMints, ReaderLocksWriter, ReaderAnswers,
                    ReaderEnds, bridgeVars

\* The helper process answers a command once, or never.
LEMMA ChildKeepsOneDue ==
  ASSUME TypeOK, NEW k \in Nat, OneDue, DueOnly(k), ChildStep
  PROVE  OneDue' /\ DueOnly(k)'
<1>. UNCHANGED replies
  BY DEF ChildStep, ChildMain, ChildBoots, ChildTakes, ChildFinishes, ChildLeaves,
         ChildReads, ChildLeavesLoop, ChildWedges, ChildDies, ChildAsks, bridgeVars
<1>. /\ queue \in Seq(Commands \cup {Closed}) /\ down \in Seq(Commands)
     /\ up \in Seq(Replies \cup Requests)
  BY DEF TypeOK
<1>. /\ Single(down) /\ Single(queue) /\ Single(up)
     /\ Only(down, k) /\ Only(queue, k) /\ Only(up, k)
  BY DEF OneDue, DueOnly
<1>1. CASE ChildBoots \/ ChildLeavesLoop \/ ChildWedges
  <2>1. UNCHANGED <<down, queue, work, up>>
    BY <1>1 DEF ChildBoots, ChildLeavesLoop, ChildWedges
  <2>. QED  BY <2>1 DEF OneDue, DueOnly
<1>2. CASE ChildTakes
  <2>1. /\ queue # <<>> /\ queue' = Tail(queue) /\ UNCHANGED <<down, up>>
        /\ work = Idle /\ work' \in {work, Head(queue)}
    BY <1>2 DEF ChildTakes, ChildSeesClosed, ChildRuns, ChildDispatches
  <2>2. /\ Single(queue') /\ Only(queue', k) /\ Head(queue).n \in {0, k}
        /\ Due(queue') => Due(queue)
        /\ Head(queue).n # 0 => Due(queue) /\ ~Due(queue')
    BY <2>1, OnlyMoves, SingleMoves, DueMoves
  <2>3. work.n = 0
    BY <2>1, CommandFields
  <2>. QED  BY <2>1, <2>2, <2>3 DEF OneDue, DueOnly
<1>3. CASE ChildFinishes
  <2>1. UNCHANGED <<down, queue>> /\ work'.n = 0
    BY <1>3, CommandFields DEF ChildFinishes
  <2>2. CASE up' = up
    BY <2>1, <2>2 DEF OneDue, DueOnly
  <2>3. ASSUME NEW b \in BOOLEAN, up' = Append(up, Reply(work.n, b)),
               work.cmd \in Answered
        PROVE  OneDue' /\ DueOnly(k)'
    <3>1. Reply(work.n, b) \in Replies \cup Requests /\ Reply(work.n, b).n = work.n
      BY <2>3, WorkFields, FrameFields DEF Reply
    <3>2. work.n \in {0, k} /\ (work.n # 0 => ~Due(up))
      BY DEF OneDue, DueOnly
    <3>3. Single(up') /\ Only(up', k) /\ (Due(up') => Due(up) \/ work.n # 0)
      BY SMTT(30), <2>3, <3>1, <3>2, OnlyMoves, SingleMoves, DueMoves
    <3>. QED  BY <2>1, <3>3 DEF OneDue, DueOnly
  <2>4. up' = up \/ \E b \in BOOLEAN : /\ up' = Append(up, Reply(work.n, b))
                                       /\ work.cmd \in Answered
    BY <1>3 DEF ChildFinishes, FinishSetup, FinishWiring, FinishUpdate, FinishHook,
                Writes, Answered
  <2>. QED  BY <2>2, <2>3, <2>4
<1>4. CASE ChildLeaves \/ ChildDies
  BY <1>4, EndedKeepsOneDue DEF ChildLeaves, ChildDies
<1>5. CASE ChildReads
  <2>1. UNCHANGED <<up, work>>
    BY <1>5 DEF ChildReads
  <2>2. CASE down # <<>>
    <3>1. queue' = Append(queue, Head(down)) /\ down' = Tail(down)
      BY <1>5, <2>2 DEF ChildReads
    <3>2. Head(down) \in Commands \cup {Closed}
      BY <2>2, FirstAndRest
    <3>3. /\ Single(down') /\ Only(down', k) /\ Head(down).n \in {0, k}
          /\ Due(down') => Due(down)
          /\ Head(down).n # 0 => Due(down) /\ ~Due(down')
      BY <2>2, <3>1, OnlyMoves, SingleMoves, DueMoves
    <3>4. Head(down).n # 0 => ~Due(queue)
      BY <3>3 DEF OneDue
    <3>5. /\ Single(queue') /\ Only(queue', k)
          /\ Due(queue') => Due(queue) \/ Head(down).n # 0
      BY <3>1, <3>2, <3>3, <3>4, OnlyMoves, SingleMoves, DueMoves
    <3>. QED  BY <2>1, <3>3, <3>5 DEF OneDue, DueOnly
  <2>3. CASE down = <<>>
    <3>1. queue' = Append(queue, Closed) /\ down' = down
      BY <1>5, <2>3 DEF ChildReads
    <3>2. Closed.n = 0 /\ Closed \in Commands \cup {Closed}
      BY CommandFields
    <3>3. Single(queue') /\ Only(queue', k) /\ (Due(queue') => Due(queue))
      BY <3>1, <3>2, OnlyMoves, SingleMoves, DueMoves
    <3>. QED  BY <2>1, <3>1, <3>3 DEF OneDue, DueOnly
  <2>. QED  BY <2>2, <2>3
<1>6. ASSUME NEW o \in {"acquire", "window"}, ChildAsks(o)
      PROVE  OneDue' /\ DueOnly(k)'
  <2>1. UNCHANGED <<down, queue, work>>
    BY <1>6 DEF ChildAsks
  <2>2. PICK m \in BOOLEAN : up' \in {up, Append(up, Request(o, m))}
    BY <1>6 DEF ChildAsks, Writes
  <2>3. Request(o, m) \in Replies \cup Requests /\ Request(o, m).n = 0
    BY FrameFields DEF Request
  <2>4. Single(up') /\ Only(up', k) /\ (Due(up') => Due(up))
    <3>1. CASE up' = up
      BY <3>1
    <3>2. CASE up' = Append(up, Request(o, m))
      BY <3>2, <2>3, OnlyMoves, SingleMoves, DueMoves
    <3>. QED  BY <2>2, <3>1, <3>2
  <2>. QED  BY <2>1, <2>4 DEF OneDue, DueOnly
<1>. QED
  BY <1>1, <1>2, <1>3, <1>4, <1>5, <1>6 DEF ChildStep, ChildMain

\* Nothing due is the case of one due at most.
LEMMA QuietIsOneDue ==
  ASSUME DueOnly(0)
  PROVE  OneDue
BY NothingDue DEF DueOnly, OneDue

\* A call leaves nothing due, or gives up on the child.
LEMMA FlowCallStep ==
  ASSUME TypeOK, Stage, Flow, CallStep
  PROVE  Flow'
<1>. down \in Seq(Commands) /\ replies \in Seq(Replies)
  BY DEF TypeOK
<1>. call.n \in Nat
  BY CallFields, SerialsFit
<1>. UNCHANGED up
  BY DEF CallStep, SendNotes, SendWrites, TakeReply, ReplyTimesOut,
         ReplyDisconnected, CloseBridge, DrainWindows, DrainHandles, Reap, Return
<1>1. CASE SendNotes
  <2>1. UNCHANGED <<down, queue, work, replies>> /\ at' # "wait" /\ DueOnly(0)
    BY <1>1 DEF SendNotes, Return, childVars, Flow
  <2>. QED  BY <2>1 DEF Flow, DueOnly
<1>2. CASE SendWrites
  <2>1. UNCHANGED <<queue, work, replies>> /\ DueOnly(0) /\ OneDue
    BY <1>2, QuietIsOneDue DEF SendWrites, childVars, Flow
  <2>2. call \in Commands
    BY <1>2, CallsAreCommands DEF SendWrites
  <2>3. CASE down' = down /\ at' # "wait"
    BY <2>1, <2>3 DEF Flow, DueOnly
  <2>4. CASE down' = Append(down, call) /\ at' # "wait" /\ call.cmd \notin Answered
    <3>1. call.n = 0
      BY <2>2, <2>4, CommandFields
    <3>2. Only(down', 0)
      BY <2>1, <2>2, <2>4, <3>1, OnlyMoves DEF DueOnly
    <3>. QED  BY <2>1, <2>4, <3>2 DEF Flow, DueOnly
  <2>5. CASE down' = Append(down, call) /\ at' = "wait" /\ UNCHANGED call
    <3>1. /\ ~Due(down) /\ ~Due(queue) /\ ~Due(up) /\ ~Due(replies) /\ work.n = 0
          /\ Single(down) /\ Only(down, call.n)
      BY <2>1, NothingDue DEF DueOnly
    <3>2. Single(down') /\ Only(down', call.n)
      BY <2>2, <2>5, <3>1, OnlyMoves, SingleMoves
    <3>3. OneDue'
      BY <2>1, <3>1, <3>2 DEF OneDue
    <3>4. DueOnly(call.n)'
      BY <2>1, <2>5, <3>1, <3>2, NothingDue DEF DueOnly
    <3>. QED  BY <2>5, <3>3, <3>4 DEF Flow
  <2>. QED
    BY <1>2, <2>3, <2>4, <2>5 DEF SendWrites, Return
<1>3. CASE TakeReply
  <2>1. /\ UNCHANGED <<down, queue, work>> /\ at' \in {"free", "close"}
        /\ replies # <<>> /\ replies' = Tail(replies) /\ at = "wait"
    BY <1>3 DEF TakeReply, Return, childVars
  <2>2. OneDue /\ DueOnly(call.n)
    BY <2>1 DEF Flow
  <2>3. Head(replies).n # 0
    BY <2>1, FirstAndRest, FrameFields
  <2>4. Single(replies)
    BY <2>2 DEF OneDue
  <2>5. Due(replies) /\ ~Due(replies')
    BY <2>1, <2>3, <2>4, DueMoves, SingleMoves
  <2>6. ~Due(down) /\ ~Due(queue) /\ ~Due(up) /\ work.n = 0
    BY <2>2, <2>5 DEF OneDue
  <2>7. DueOnly(0)'
    BY <2>1, <2>5, <2>6, NothingDue DEF DueOnly
  <2>. QED  BY <2>1, <2>7 DEF Flow
<1>4. CASE ReplyTimesOut \/ ReplyDisconnected
  <2>1. /\ gone' /\ at' \in {"free", "close"}
        /\ at' = "free" => thread' # "setup"
    BY <1>4 DEF ReplyTimesOut, ReplyDisconnected, Return, NextAfter, Stage
  <2>. QED  BY <2>1 DEF Flow
<1>5. CASE CloseBridge \/ DrainWindows \/ DrainHandles
  <2>1. /\ UNCHANGED <<down, queue, work, gone>> /\ at # "wait"
        /\ at' \in {"windows", "handles", "reap"} /\ replies' \in {replies, <<>>}
    BY <1>5 DEF CloseBridge, DrainWindows, DrainHandles, childVars, bridgeVars
  <2>2. DueOnly(0) => DueOnly(0)'
    BY <2>1, NothingDue DEF DueOnly
  <2>. QED  BY <2>1, <2>2 DEF Flow
<1>6. CASE Reap
  <2>1. /\ ChildEnds /\ UNCHANGED <<replies, gone>> /\ at # "wait"
        /\ at' = "free" /\ thread' = "ended"
    BY <1>6 DEF Reap, bridgeVars
  <2>2. DueOnly(0) => DueOnly(0)'
    BY <2>1, QuietIsOneDue, EndedKeepsOneDue
  <2>. QED  BY <2>1, <2>2 DEF Flow
<1>. QED  BY <1>1, <1>2, <1>3, <1>4, <1>5, <1>6 DEF CallStep

\* No step makes a second reply due.
LEMMA FlowStep ==
  ASSUME TypeOK, Stage, Flow, Next
  PROVE  Flow'
<1>1. CASE HostStep
  <2>1. UNCHANGED <<down, queue, work, up, replies>> /\ at = "free"
    BY <1>1 DEF HostStep, HostSetup, HostStart, HostPauseOrResume, HostSeesFailure,
                HostStop, HostTeardown, HostUpdatesConfig, HostDrop, HostWires,
                HostUnwires, childVars, bridgeVars
  <2>2. /\ at' \notin {"write", "wait"}
        /\ thread' = "setup" => thread = "setup"
    BY <1>1, <2>1 DEF HostStep, HostSetup, HostStart, HostPauseOrResume,
       HostSeesFailure,
                HostStop, HostTeardown, HostUpdatesConfig, HostDrop, HostWires,
                HostUnwires, Exchange, Begin
  <2>3. at' = "send" => ~gone \/ thread = "setup"
    BY <1>1, <2>1 DEF HostStep, HostSetup, HostStart, HostPauseOrResume,
       HostSeesFailure,
                HostStop, HostTeardown, HostUpdatesConfig, HostDrop, HostWires,
                HostUnwires, Exchange, Begin, HasFailed
  <2>4. gone' = gone \/ gone' = TRUE
    BY <1>1 DEF HostStep, HostSetup, HostStart, HostPauseOrResume, HostSeesFailure,
                HostStop, HostTeardown, HostUpdatesConfig, HostDrop, HostWires,
                HostUnwires
  <2>5. DueOnly(0) => DueOnly(0)'
    BY <2>1 DEF DueOnly
  <2>. QED  BY <2>1, <2>2, <2>3, <2>4, <2>5 DEF Flow
<1>2. CASE CallStep
  BY <1>2, FlowCallStep
<1>3. CASE ReaderStep \/ ChildStep
  <2>1. UNCHANGED <<at, gone, thread, call>>
    BY <1>3, CallsLeftAlone DEF hostVars
  <2>2. call.n \in Nat /\ 0 \in Nat
    BY CallFields, SerialsFit
  <2>3. ASSUME NEW k \in Nat, OneDue, DueOnly(k)
        PROVE  OneDue' /\ DueOnly(k)'
    BY <1>3, <2>3, ReaderKeepsOneDue, ChildKeepsOneDue
  <2>4. DueOnly(0) => DueOnly(0)'
    BY <2>2, <2>3, QuietIsOneDue
  <2>5. OneDue /\ DueOnly(call.n) => OneDue' /\ DueOnly(call.n)'
    <3>1. PICK k \in Nat : k = call.n
      BY <2>2
    <3>2. OneDue /\ DueOnly(k) => OneDue' /\ DueOnly(k)'
      BY <2>3
    <3>. QED  BY <2>1, <3>1, <3>2 DEF DueOnly
  <2>. QED  BY <2>1, <2>4, <2>5 DEF Flow
<1>. QED  BY <1>1, <1>2, <1>3 DEF Next

(***************************************************************************)
(* The theorems.                                                           *)
(***************************************************************************)

\* The invariant holds before setup.
LEMMA InitEstablishes ==
  ASSUME Init
  PROVE  IInv
<1>1. TypeOK
  <2>0. 0 \in 0..MaxCalls /\ 0 \in 0..MaxRequests /\ 0 \in Serials
    BY SMTT(30), SerialsFit, HelperAssumption
  <2>9. /\ call \in Commands \cup {Idle, Command("teardown", 0, {}), Command("drop", 0, {})}
        /\ envelope \subseteq Links
    BY DEF Init
  <2>1. HostTypes
    BY <2>0, <2>9 DEF Init, HostTypes
  <2>2. BridgeTypes
    BY EmptySequences DEF Init, BridgeTypes
  <2>3. ReaderTypes
    BY DEF Init, ReaderTypes
  <2>4. work \in Commands \cup {Idle} /\ queue \in Seq(Commands \cup {Closed})
    BY EmptySequences DEF Init
  <2>5. ChildTypes
    BY <2>0, <2>4 DEF Init, ChildTypes
  <2>6. WireTypes
    BY EmptySequences DEF Init, WireTypes
  <2>. QED
    BY <2>1, <2>2, <2>3, <2>5, <2>6
       DEF TypeOK, HostTypes, BridgeTypes, ReaderTypes, ChildTypes, WireTypes
<1>2. Stage /\ Budget
  BY SMTT(30), CommandFields DEF Init, Stage, Budget, Spent, Answered, Silent
<1>3. Flow
  BY NothingDue, CommandFields DEF Init, Flow, DueOnly
<1>4. Noted
  <2>1. NoRunIn(down) /\ NoRunIn(queue) /\ NoMidIn(up)
    BY SMTT(30) DEF Init, NoRunIn, NoMidIn
  <2>2. work.cmd # "run"
    BY CommandFields DEF Init
  <2>. QED  BY <2>1, <2>2 DEF Init, Noted, NotRunning
<1>5. Draining /\ Owned
  BY SMTT(30) DEF Init, Draining, Owned, Pending
<1>. QED  BY <1>1, <1>2, <1>3, <1>4, <1>5 DEF IInv

\* It does not depend on anything but the variables.
LEMMA StutterPreserves ==
  ASSUME IInv, UNCHANGED vars
  PROVE  IInv'
<1>. UNCHANGED <<hostVars, bridgeVars, readerVars, down, up, childVars>>
  BY DEF vars
<1>1. TypeOK'
  BY TypesByPart, TypesKept DEF IInv
<1>2. Stage' /\ Budget'
  BY ControlKept DEF IInv, bridgeVars
<1>3. Flow'
  BY DEF IInv, Flow, OneDue, DueOnly, hostVars, bridgeVars, childVars
<1>4. Noted'
  BY DEF IInv, Noted, NotRunning, hostVars, bridgeVars, readerVars, childVars
<1>5. Draining' /\ Owned'
  BY DEF IInv, Draining, Pending, Owned, hostVars, bridgeVars, readerVars, childVars
<1>. QED  BY <1>1, <1>2, <1>3, <1>4, <1>5 DEF IInv

\* Every step keeps it.
LEMMA StepPreserves ==
  ASSUME IInv, Next
  PROVE  IInv'
<1>. TypeOK /\ Stage /\ Budget /\ Flow /\ Noted /\ Draining /\ Owned
  BY DEF IInv
<1>1. TypeOK'
  BY TypeHostStep, TypeCallStep, TypeReaderStep, TypeChildStep DEF Next
<1>2. Stage' /\ Budget'
  <2>1. CASE HostStep \/ CallStep
    BY <2>1, StageStep, BudgetStep
  <2>2. CASE ReaderStep \/ ChildStep
    BY <2>2, CallsLeftAlone, ControlKept
  <2>. QED  BY <2>1, <2>2 DEF Next
<1>. QED
  BY <1>1, <1>2, FlowStep, NotedStep, DrainingStep, OwnedStep DEF IInv

\* The inductive invariant holds of every reachable state: no call of the host
\* (python_helper_process_spawn_host.rs), no step of the bridge's reader_loop
\* and none of the helper process breaks it.
THEOREM HelperInvariant == Spec => []IInv
<1>1. Init => IInv
  BY InitEstablishes
<1>2. IInv /\ [Next]_vars => IInv'
  BY StepPreserves, StutterPreserves
<1>. QED  BY <1>1, <1>2, PTL DEF Spec

\* Type correctness, which for the bridge says that reader_loop hands nothing
\* but lifecycle replies to the host's calls.
THEOREM HelperTypes == Spec => []TypeOK
<1>1. IInv => TypeOK
  BY DEF IInv
<1>. QED  BY <1>1, HelperInvariant, PTL

\* exchange_with_child never takes the reply of an earlier command, whatever
\* timed out before and however late a reply arrives.
THEOREM RepliesMatch == Spec => []EveryReplyAnswersItsCommand
<1>1. IInv => EveryReplyAnswersItsCommand
  <2>. SUFFICES ASSUME IInv, at = "wait", replies # <<>>
                PROVE  Head(replies).n = call.n
    BY DEF EveryReplyAnswersItsCommand
  <2>1. replies \in Seq(Replies)
    BY DEF IInv, TypeOK
  <2>2. Head(replies).n # 0
    BY <2>1, FirstAndRest, FrameFields
  <2>3. call.n \in Nat
    BY CallFields, SerialsFit DEF IInv
  <2>4. Only(replies, call.n)
    BY DEF IInv, Flow, DueOnly
  <2>5. Head(replies).n \in {0, call.n}
    BY <2>1, <2>3, <2>4, OnlyMoves
  <2>. QED  BY <2>2, <2>5
<1>. QED  BY <1>1, HelperInvariant, PTL

\* handle_create_processor_owned_window mints no window the processor asked
\* for from process(): SubprocessBridge::send notes run before it writes it.
THEOREM NoWindowOnceRunning == Spec => []NoWindowForAProcessRequest
<1>1. IInv => NoWindowForAProcessRequest
  BY DEF IInv, Noted, NoWindowForAProcessRequest
<1>. QED  BY <1>1, HelperInvariant, PTL

\* Whatever the drop of the bridge interrupts, the escalate registry is left
\* with one handle or window at most.
THEOREM OneRequestOutlives == Spec => []OneRequestOutlivesTheBridge
<1>1. IInv => OneRequestOutlivesTheBridge
  <2>. SUFFICES ASSUME IInv, ~bridge
                PROVE  handles + windows <= 1
    BY DEF OneRequestOutlivesTheBridge
  <2>1. handles \in Nat /\ windows \in Nat /\ handles + windows + Pending <= 1
    BY DEF IInv, TypeOK, Draining
  <2>. QED  BY SMTT(30), <2>1 DEF Pending
<1>. QED  BY <1>1, HelperInvariant, PTL

\* Once reap_child, kill_child or Drop has let go of the handle, the helper
\* process is no more.
THEOREM ChildrenAreReaped == Spec => []NoSurvivors
<1>1. IInv => NoSurvivors
  BY DEF IInv, Owned, NoSurvivors
<1>. QED  BY <1>1, HelperInvariant, PTL

(***************************************************************************)
(* The ports of the child follow the compiler's envelope.                  *)
(***************************************************************************)

\* The links a child with ports P has one for once it has carried out c.
Carry(c, P) == {l \in Links : Opens(c, l) \/ (l \in P /\ ~Settles(c, l))}

\* The same, for the commands the child has been handed, for those it has yet
\* to read, and for those the host has begun to send.
Handed == PortsAfter(queue, Carry(work, ports))
Written == PortsAfter(down, Handed)
Begun == IF at \in {"send", "write"} THEN Carry(call, Written) ELSE Written

SetupIn(s) == \E i \in 1..Len(s) : s[i].cmd = "setup"

\* A setup the child has yet to finish.
SetupAhead ==
    \/ work.cmd = "setup" \/ SetupIn(queue) \/ SetupIn(down)
    \/ at \in {"send", "write"} /\ call.cmd = "setup"

\* The host and its child are in touch.
InTouch ==
    /\ bridge /\ ~gone /\ ~dead /\ child = "alive"
    /\ at \notin {"close", "windows", "handles", "reap"}

\* A setup that is ahead counts even when an earlier one failed.
Followed ==
    InTouch /\ (hosted = "failed" => SetupAhead)
        => \A l \in Links \ refused : l \in Begun <=> l \in envelope

\* The socket is shut by the drop of the bridge, or when none was made.
Sockets ==
    /\ bridge /\ shut => dead
    /\ thread = "setup" /\ at = "free" => ~shut

PortInv == Sockets /\ Followed

\* Nothing to carry out, and one command.
LEMMA CarryNoneOrOne ==
  ASSUME NEW P \in SUBSET Links
  PROVE  /\ PortsAfter(<<>>, P) = P
         /\ \A c : PortsAfter(<<c>>, P) = Carry(c, P)
<1>1. PortsAfter(<<>>, P) = P
  BY SMTT(30) DEF PortsAfter
<1>2. ASSUME NEW c, NEW l \in Links
      PROVE  l \in PortsAfter(<<c>>, P) <=> l \in Carry(c, P)
  <2>1. Len(<<c>>) = 1 /\ <<c>>[1] = c /\ 1..1 = {1}
    BY SMTT(30)
  <2>. QED  BY SMTT(30), <2>1 DEF PortsAfter, Carry, Opens, Settles
<1>. QED  BY <1>1, <1>2 DEF PortsAfter, Carry

\* Carrying out one list after the other.
LEMMA CarryJoined ==
  ASSUME NEW S, NEW s \in Seq(S), NEW t \in Seq(S), NEW P \in SUBSET Links
  PROVE  PortsAfter(s \o t, P) = PortsAfter(t, PortsAfter(s, P))
<1>. DEFINE u == s \o t
            n == Len(s)
            m == Len(t)
<1>1. /\ n \in Nat /\ m \in Nat /\ Len(u) = n + m
      /\ \A i \in 1..n : u[i] = s[i]
      /\ \A i \in 1..m : u[n + i] = t[i]
  BY SMTT(30)
<1>2. /\ \A i \in 1..Len(u) : i \in 1..n \/ (i - n \in 1..m /\ i = n + (i - n))
      /\ \A i \in 1..n : i \in 1..Len(u)
      /\ \A i \in 1..m : n + i \in 1..Len(u) /\ ~(n + i \in 1..n)
      /\ \A i, j \in 1..m : j > i <=> n + j > n + i
      /\ \A i \in 1..n, j \in 1..m : n + j > i /\ ~(i > n + j)
  BY SMTT(30), <1>1
<1>. HIDE DEF u, n, m
<1>3. ASSUME NEW l \in Links
      PROVE  l \in PortsAfter(u, P) <=> l \in PortsAfter(t, PortsAfter(s, P))
  <2>. DEFINE Q(c) == Settles(c, l)
              O(c) == Opens(c, l)
              None == \A i \in 1..m : ~Q(t[i])
              Last == \E i \in 1..m : O(t[i]) /\ \A j \in 1..m : j > i => ~Q(t[j])
              NoneS == \A i \in 1..n : ~Q(s[i])
              LastS == \E i \in 1..n : O(s[i]) /\ \A j \in 1..n : j > i => ~Q(s[j])
              NoneU == \A i \in 1..Len(u) : ~Q(u[i])
              LastU == \E i \in 1..Len(u) : O(u[i]) /\ \A j \in 1..Len(u) : j > i => ~Q(u[j])
  <2>1. NoneU <=> NoneS /\ None
    BY SMTT(30), <1>1, <1>2
  <2>2. ASSUME LastU PROVE Last \/ (None /\ LastS)
    <3>1. PICK i \in 1..Len(u) : O(u[i]) /\ \A j \in 1..Len(u) : j > i => ~Q(u[j])
      BY <2>2
    <3>2. CASE i \in 1..n
      <4>1. None
        BY <3>1, <3>2, <1>1, <1>2
      <4>2. O(s[i]) /\ \A j \in 1..n : j > i => ~Q(s[j])
        BY <3>1, <3>2, <1>1, <1>2
      <4>. QED  BY <3>2, <4>1, <4>2
    <3>3. CASE i - n \in 1..m /\ i = n + (i - n)
      <4>. DEFINE k == i - n
      <4>0. k \in 1..m /\ i = n + k
        BY <3>3
      <4>. HIDE DEF k
      <4>1. O(t[k]) /\ \A j \in 1..m : j > k => ~Q(t[j])
        BY <3>1, <4>0, <1>1, <1>2
      <4>. QED  BY <4>0, <4>1
    <3>. QED  BY <3>2, <3>3, <1>2
  <2>3. ASSUME Last PROVE LastU
    <3>1. PICK i \in 1..m : O(t[i]) /\ \A j \in 1..m : j > i => ~Q(t[j])
      BY <2>3
    <3>2. ASSUME NEW j \in 1..Len(u), j > n + i PROVE ~Q(u[j])
      <4>1. j - n \in 1..m /\ j = n + (j - n) /\ j - n > i
        BY SMTT(30), <3>2, <1>1
      <4>. QED  BY <4>1, <3>1, <1>1
    <3>. QED  BY <3>1, <3>2, <1>1, <1>2
  <2>4. ASSUME None, LastS PROVE LastU
    <3>1. PICK i \in 1..n : O(s[i]) /\ \A j \in 1..n : j > i => ~Q(s[j])
      BY <2>4
    <3>2. ASSUME NEW j \in 1..Len(u), j > i PROVE ~Q(u[j])
      <4>1. CASE j \in 1..n
        BY <4>1, <3>1, <3>2, <1>1
      <4>2. CASE j - n \in 1..m /\ j = n + (j - n)
        BY <4>2, <2>4, <1>1
      <4>. QED  BY <4>1, <4>2, <1>2
    <3>. QED  BY <3>1, <3>2, <1>1, <1>2
  <2>5. l \in PortsAfter(u, P) <=> (l \in P /\ NoneU) \/ LastU
    BY DEF PortsAfter
  <2>6. l \in PortsAfter(s, P) <=> (l \in P /\ NoneS) \/ LastS
    BY DEF PortsAfter, n
  <2>7. l \in PortsAfter(t, PortsAfter(s, P))
          <=> (l \in PortsAfter(s, P) /\ None) \/ Last
    BY DEF PortsAfter, m
  <2>. HIDE DEF None, Last, NoneS, LastS, NoneU, LastU
  <2>. QED  BY <2>1, <2>2, <2>3, <2>4, <2>5, <2>6, <2>7
<1>. QED  BY <1>3 DEF PortsAfter, u

\* A list that grows at its end, and one that loses its first command.
LEMMA CarryMoves ==
  ASSUME NEW S, NEW s \in Seq(S), NEW P \in SUBSET Links
  PROVE  /\ \A c \in S : PortsAfter(Append(s, c), P) = Carry(c, PortsAfter(s, P))
         /\ s # <<>> => PortsAfter(s, P) = PortsAfter(Tail(s), Carry(Head(s), P))
<1>0. PortsAfter(s, P) \in SUBSET Links
  BY DEF PortsAfter
<1>1. ASSUME NEW c \in S
      PROVE  PortsAfter(Append(s, c), P) = Carry(c, PortsAfter(s, P))
  <2>1. Append(s, c) = s \o <<c>> /\ <<c>> \in Seq(S)
    BY SMTT(30)
  <2>2. PortsAfter(s \o <<c>>, P) = PortsAfter(<<c>>, PortsAfter(s, P))
    BY <2>1, CarryJoined
  <2>3. PortsAfter(<<c>>, PortsAfter(s, P)) = Carry(c, PortsAfter(s, P))
    BY <1>0, CarryNoneOrOne
  <2>. QED  BY <2>1, <2>2, <2>3
<1>2. ASSUME s # <<>>
      PROVE  PortsAfter(s, P) = PortsAfter(Tail(s), Carry(Head(s), P))
  <2>1. s = <<Head(s)>> \o Tail(s) /\ Tail(s) \in Seq(S) /\ <<Head(s)>> \in Seq(S)
    BY SMTT(30), <1>2
  <2>2. PortsAfter(<<Head(s)>> \o Tail(s), P)
          = PortsAfter(Tail(s), PortsAfter(<<Head(s)>>, P))
    BY <2>1, CarryJoined
  <2>3. PortsAfter(<<Head(s)>>, P) = Carry(Head(s), P)
    BY CarryNoneOrOne
  <2>. QED  BY <2>1, <2>2, <2>3
<1>. QED  BY <1>1, <1>2

\* A command that is not about any link leaves the ports alone.
LEMMA CarryNothing ==
  ASSUME NEW c, c.cmd # "setup", c.links = {}, NEW P \in SUBSET Links
  PROVE  Carry(c, P) = P
BY DEF Carry, Opens, Settles

\* Part by part or all at once, the commands under way come to the same.
LEMMA BegunIsUnderWay ==
  ASSUME TypeOK
  PROVE  Begun = PortsAfter(UnderWay, ports)
<1>. DEFINE S == Commands \cup {Idle, Closed, call}
            sent == IF at \in {"send", "write"} THEN <<call>> ELSE <<>>
<1>1. queue \in Seq(S) /\ down \in Seq(S)
  <2>1. queue \in Seq(Commands \cup {Closed}) /\ down \in Seq(Commands)
    BY DEF TypeOK
  <2>2. ASSUME NEW A, NEW B, A \subseteq B, NEW s \in Seq(A) PROVE s \in Seq(B)
    BY SMTT(30), <2>2
  <2>. QED  BY <2>1, <2>2
<1>2. <<work>> \in Seq(S) /\ sent \in Seq(S) /\ <<work>> \o queue \in Seq(S)
      /\ (<<work>> \o queue) \o down \in Seq(S)
  <2>1. work \in S /\ call \in S
    BY DEF TypeOK
  <2>0. ASSUME NEW x \in S PROVE <<x>> \in Seq(S) /\ <<>> \in Seq(S)
    BY SMTT(30)
  <2>2. <<work>> \in Seq(S) /\ sent \in Seq(S)
    BY <2>0, <2>1
  <2>3. ASSUME NEW a \in Seq(S), NEW b \in Seq(S) PROVE a \o b \in Seq(S)
    BY SMTT(30)
  <2>. QED  BY <1>1, <2>2, <2>3
<1>. HIDE DEF S
<1>3. ports \in SUBSET Links /\ \A s, P : PortsAfter(s, P) \in SUBSET Links
  BY DEF TypeOK, PortsAfter
<1>4. PortsAfter(<<work>>, ports) = Carry(work, ports)
  BY <1>3, CarryNoneOrOne
<1>5. PortsAfter(<<work>> \o queue, ports) = Handed
  <2>1. PortsAfter(<<work>> \o queue, ports)
          = PortsAfter(queue, PortsAfter(<<work>>, ports))
    BY <1>1, <1>2, <1>3, CarryJoined
  <2>. QED  BY <1>4, <2>1 DEF Handed
<1>6. PortsAfter((<<work>> \o queue) \o down, ports) = Written
  BY <1>1, <1>2, <1>3, <1>5, CarryJoined DEF Written
<1>7. PortsAfter(((<<work>> \o queue) \o down) \o sent, ports)
        = PortsAfter(sent, Written)
  BY <1>2, <1>3, <1>6, CarryJoined
<1>8. PortsAfter(sent, Written) = Begun
  BY <1>3, CarryNoneOrOne DEF Begun, Written
<1>. QED  BY <1>7, <1>8 DEF UnderWay

\* A step that leaves the outcome alone.
LEMMA FollowedKept ==
  ASSUME Followed, InTouch' => InTouch,
         (hosted' = "failed" => SetupAhead') => (hosted = "failed" => SetupAhead),
         refused' = refused, envelope' = envelope, Begun' = Begun
  PROVE  Followed'
BY DEF Followed

\* A step that does not touch the commands under way, nor the ports.
LEMMA OutcomeAlone ==
  ASSUME UNCHANGED <<at, call, down, work, queue, ports, hosted, refused>>
  PROVE  /\ Begun' = Begun /\ SetupAhead' = SetupAhead
         /\ hosted' = hosted /\ refused' = refused
<1>1. Handed' = Handed
  BY DEF Handed
<1>2. Written' = Written
  BY <1>1 DEF Written
<1>. QED  BY <1>2 DEF Begun, SetupAhead

\* A call that begins to send a command that is about no link.
LEMMA QuietBegin ==
  ASSUME Followed, at = "free", NEW c, c # "setup", Begin(c, {}),
         UNCHANGED <<envelope, gone, bridgeVars, down, childVars>>
  PROVE  Followed'
<1>1. call'.cmd = c /\ call'.links = {} /\ at' = "send"
  BY SMTT(30), CommandFields DEF Begin
<1>2. Handed' = Handed
  BY DEF Handed, childVars
<1>3. Written' = Written /\ Written \in SUBSET Links
  BY <1>2 DEF Written, PortsAfter
<1>4. Begun' = Begun
  BY <1>1, <1>3, CarryNothing DEF Begun
<1>5. (hosted' = "failed" => SetupAhead') => (hosted = "failed" => SetupAhead)
  BY <1>1 DEF SetupAhead, childVars
<1>6. InTouch' => InTouch
  BY DEF InTouch, bridgeVars, childVars
<1>. QED  BY <1>4, <1>5, <1>6, FollowedKept DEF childVars

\* A step of the host after which the two are not in touch, or which leaves
\* the call as it is.
LEMMA FollowedAlone ==
  ASSUME Followed, UNCHANGED <<at, call, envelope, down, childVars>>,
         InTouch' => InTouch
  PROVE  Followed'
BY OutcomeAlone, FollowedKept DEF childVars

\* The envelope goes out with setup, and every later change of it with a
\* command of its own.
LEMMA FollowedHostStep ==
  ASSUME TypeOK, Stage, Followed, HostStep
  PROVE  Followed'
<1>1. CASE HostSetup
  <2>1. CASE bridge' = bridge
    BY <1>1, <2>1 DEF HostSetup, Stage, Followed, InTouch
  <2>2. CASE Begin("setup", envelope)
    <3>1. call'.cmd = "setup" /\ call'.links = envelope /\ at' = "send"
      BY SMTT(30), <2>2, CommandFields DEF Begin
    <3>2. Begun' = envelope
      <4>1. envelope \subseteq Links
        BY DEF TypeOK
      <4>. QED  BY <3>1, <4>1 DEF Begun, Carry, Opens, Settles
    <3>. QED  BY <1>1, <3>2 DEF HostSetup, Followed
  <2>. QED  BY <1>1, <2>1, <2>2 DEF HostSetup
<1>2. CASE HostStart
  BY <1>2, QuietBegin, FollowedAlone DEF HostStart, InTouch, bridgeVars, childVars
<1>3. CASE HostPauseOrResume
  BY <1>3, QuietBegin, FollowedAlone
     DEF HostPauseOrResume, Exchange, InTouch, bridgeVars, childVars
<1>4. CASE HostSeesFailure
  BY <1>4, FollowedAlone DEF HostSeesFailure, InTouch, bridgeVars, childVars
<1>5. CASE HostStop
  BY <1>5, QuietBegin, FollowedAlone
     DEF HostStop, Exchange, InTouch, bridgeVars, childVars
<1>6. CASE HostTeardown
  <2>1. CASE gone
    BY <1>6, <2>1 DEF HostTeardown, Followed, InTouch
  <2>2. CASE Exchange("teardown")
    BY <1>6, <2>2, QuietBegin DEF HostTeardown, Exchange
  <2>. QED  BY <1>6, <2>1, <2>2 DEF HostTeardown
<1>7. CASE HostUpdatesConfig
  <2>1. CASE gone'
    BY <2>1 DEF Followed, InTouch
  <2>2. CASE Exchange("update_config") /\ UNCHANGED gone
    BY <1>7, <2>2, QuietBegin DEF HostUpdatesConfig, Exchange
  <2>. QED  BY <1>7, <2>1, <2>2 DEF HostUpdatesConfig
<1>8. CASE HostDrop
  BY <1>8, FollowedAlone DEF HostDrop, Followed, InTouch, bridgeVars, childVars
<1>9. ASSUME NEW l \in Links, HostWires(l) PROVE  Followed'
  <2>1. CASE HasFailed \/ ~bridge
    BY <1>9, <2>1 DEF HostWires, HasFailed, Followed, InTouch, bridgeVars
  <2>2. CASE Begin("wire_link", {l})
    <3>1. call'.cmd = "wire_link" /\ call'.links = {l} /\ at' = "send" /\ at = "free"
      BY SMTT(30), <1>9, <2>2, CommandFields DEF Begin, HostWires
    <3>2. Handed' = Handed
      BY <1>9 DEF HostWires, Handed, childVars
    <3>3. Written' = Written /\ Written \in SUBSET Links
      BY <1>9, <3>2 DEF HostWires, Written, PortsAfter
    <3>4. Begun' = Begun \cup {l}
      BY <3>1, <3>3 DEF Begun, Carry, Opens, Settles
    <3>5. (hosted' = "failed" => SetupAhead') => (hosted = "failed" => SetupAhead)
      BY <1>9, <3>1 DEF HostWires, SetupAhead, childVars
    <3>6. InTouch' => InTouch
      BY <1>9, <3>1 DEF HostWires, InTouch, bridgeVars, childVars
    <3>7. envelope' = envelope \cup {l} /\ refused' = refused
      BY <1>9 DEF HostWires, childVars
    <3>. QED  BY <3>4, <3>5, <3>6, <3>7 DEF Followed
  <2>. QED  BY <1>9, <2>1, <2>2 DEF HostWires
<1>10. ASSUME NEW l \in Links, HostUnwires(l) PROVE  Followed'
  <2>1. CASE HasFailed \/ ~bridge
    BY <1>10, <2>1 DEF HostUnwires, HasFailed, Followed, InTouch, bridgeVars
  <2>2. CASE Begin("unwire_link", {l})
    <3>1. call'.cmd = "unwire_link" /\ call'.links = {l} /\ at' = "send" /\ at = "free"
      BY SMTT(30), <1>10, <2>2, CommandFields DEF Begin, HostUnwires
    <3>2. Handed' = Handed
      BY <1>10 DEF HostUnwires, Handed, childVars
    <3>3. Written' = Written /\ Written \in SUBSET Links
      BY <1>10, <3>2 DEF HostUnwires, Written, PortsAfter
    <3>4. Begun' = Begun \ {l}
      BY <3>1, <3>3 DEF Begun, Carry, Opens, Settles
    <3>5. (hosted' = "failed" => SetupAhead') => (hosted = "failed" => SetupAhead)
      BY <1>10, <3>1 DEF HostUnwires, SetupAhead, childVars
    <3>6. InTouch' => InTouch
      BY <1>10, <3>1 DEF HostUnwires, InTouch, bridgeVars, childVars
    <3>7. envelope' = envelope \ {l} /\ refused' = refused
      BY <1>10 DEF HostUnwires, childVars
    <3>. QED  BY <3>4, <3>5, <3>6, <3>7 DEF Followed
  <2>. QED  BY <1>10, <2>1, <2>2 DEF HostUnwires
<1>. QED
  BY <1>1, <1>2, <1>3, <1>4, <1>5, <1>6, <1>7, <1>8, <1>9, <1>10 DEF HostStep

\* A setup in a list that grows, or that loses its first command.
LEMMA SetupMoves ==
  ASSUME NEW S, NEW s \in Seq(S)
  PROVE  /\ \A c \in S : SetupIn(Append(s, c)) => SetupIn(s) \/ c.cmd = "setup"
         /\ s # <<>> /\ SetupIn(Tail(s)) => SetupIn(s)
         /\ s # <<>> /\ Head(s).cmd = "setup" => SetupIn(s)
<1>1. ASSUME NEW c \in S, SetupIn(Append(s, c)) PROVE  SetupIn(s) \/ c.cmd = "setup"
  BY SMTT(30), <1>1 DEF SetupIn
<1>2. ASSUME s # <<>>, SetupIn(Tail(s)) PROVE  SetupIn(s)
  <2>1. PICK i \in 1..Len(Tail(s)) : Tail(s)[i].cmd = "setup"
    BY <1>2 DEF SetupIn
  <2>2. i + 1 \in 1..Len(s) /\ Tail(s)[i] = s[i + 1]
    BY SMTT(30), <1>2
  <2>. QED  BY <2>1, <2>2 DEF SetupIn
<1>3. ASSUME s # <<>>, Head(s).cmd = "setup" PROVE  SetupIn(s)
  <2>1. 1 \in 1..Len(s) /\ Head(s) = s[1]
    BY SMTT(30), <1>3
  <2>. QED  BY <1>3, <2>1 DEF SetupIn
<1>. QED  BY <1>1, <1>2, <1>3

\* The call hands its command to the socket, or is given up on.
LEMMA FollowedCallStep ==
  ASSUME TypeOK, Stage, Followed, CallStep
  PROVE  Followed'
<1>1. CASE SendNotes
  <2>1. CASE gone'
    BY <2>1 DEF Followed, InTouch
  <2>2. CASE at' = "write" /\ UNCHANGED <<gone, call>>
    <3>1. Handed' = Handed
      BY <1>1 DEF SendNotes, Handed, childVars
    <3>2. Written' = Written
      BY <1>1, <3>1 DEF SendNotes, Written
    <3>3. Begun' = Begun /\ SetupAhead' = SetupAhead
      BY <1>1, <2>2, <3>2 DEF SendNotes, Begun, SetupAhead, childVars
    <3>4. InTouch' => InTouch
      BY <1>1, <2>2 DEF SendNotes, InTouch, childVars
    <3>. QED  BY <1>1, <3>3, <3>4, FollowedKept DEF SendNotes, childVars
  <2>. QED  BY <1>1, <2>1, <2>2 DEF SendNotes
<1>2. CASE SendWrites
  <2>1. CASE gone'
    BY <2>1 DEF Followed, InTouch
  <2>2. CASE ~gone' /\ at' = "close"
    BY <2>2 DEF Followed, InTouch
  <2>3. CASE ~gone' /\ at' # "close"
    <3>0. call \in Commands /\ down \in Seq(Commands) /\ at = "write"
      BY <1>2, CallsAreCommands DEF SendWrites, TypeOK
    <3>1. down' = Append(down, call) /\ at' \in {"free", "wait"} /\ UNCHANGED gone
      BY <1>2, <2>3 DEF SendWrites, Return
    <3>2. Handed' = Handed /\ Handed \in SUBSET Links
      BY <1>2 DEF SendWrites, Handed, childVars, PortsAfter
    <3>3. Written' = Carry(call, Written)
      BY <3>0, <3>1, <3>2, CarryMoves DEF Written
    <3>4. Begun' = Begun
      BY <3>0, <3>1, <3>3 DEF Begun
    <3>5. SetupIn(down') => SetupIn(down) \/ call.cmd = "setup"
      BY <3>0, <3>1, SetupMoves
    <3>6. SetupAhead' => SetupAhead
      BY <1>2, <3>0, <3>1, <3>5 DEF SendWrites, SetupAhead, childVars
    <3>7. InTouch' => InTouch
      BY <1>2, <3>0 DEF SendWrites, InTouch, childVars
    <3>. QED
      BY <1>2, <3>4, <3>6, <3>7, FollowedKept DEF SendWrites, childVars
  <2>. QED  BY <2>1, <2>2, <2>3
<1>3. CASE TakeReply
  <2>1. CASE at' = "close"
    BY <2>1 DEF Followed, InTouch
  <2>2. CASE at' = "free"
    <3>1. Handed' = Handed
      BY <1>3 DEF TakeReply, Handed, childVars
    <3>2. Written' = Written
      BY <1>3, <3>1 DEF TakeReply, Written
    <3>3. Begun' = Begun /\ (SetupAhead' => SetupAhead)
      BY <1>3, <2>2, <3>2 DEF TakeReply, Begun, SetupAhead, childVars
    <3>4. InTouch' => InTouch
      BY <1>3, <2>2 DEF TakeReply, InTouch, childVars
    <3>. QED  BY <1>3, <3>3, <3>4, FollowedKept DEF TakeReply, childVars
  <2>. QED  BY <1>3, <2>1, <2>2 DEF TakeReply, Return
<1>4. CASE ReplyTimesOut \/ ReplyDisconnected
  BY <1>4 DEF ReplyTimesOut, ReplyDisconnected, Followed, InTouch
<1>5. CASE CloseBridge \/ DrainWindows \/ DrainHandles
  BY <1>5 DEF CloseBridge, DrainWindows, DrainHandles, Followed, InTouch
<1>6. CASE Reap
  BY <1>6 DEF Reap, ChildEnds, Followed, InTouch
<1>. QED  BY <1>1, <1>2, <1>3, <1>4, <1>5, <1>6 DEF CallStep

\* The reader thread carries replies and requests, and no command.
LEMMA FollowedReaderStep ==
  ASSUME TypeOK, Followed, ReaderStep
  PROVE  Followed'
<1>1. UNCHANGED <<at, call, envelope, down, childVars>>
  BY DEF ReaderStep, ReaderForwards, ReaderServes, ServesAcquire, ServesWindow,
     ReaderMints, ReaderLocksWriter, ReaderAnswers, ReaderEnds, hostVars
<1>2. InTouch' => InTouch
  BY DEF ReaderStep, ReaderForwards, ReaderServes, ServesAcquire, ServesWindow,
     ReaderMints, ReaderLocksWriter, ReaderAnswers, ReaderEnds,
         InTouch, hostVars, bridgeVars, childVars
<1>. QED  BY <1>1, <1>2, FollowedAlone

\* While the child carries out a setup the host waits for, no other is ahead.
LEMMA OneSetup ==
  ASSUME TypeOK, Flow, ~gone, work.cmd = "setup"
  PROVE  at = "wait" /\ ~SetupIn(queue) /\ ~SetupIn(down)
<1>1. work.n # 0
  BY WorkFields DEF Answered
<1>2. at = "wait"
  BY <1>1 DEF Flow, DueOnly
<1>3. ~Due(queue) /\ ~Due(down)
  BY <1>1, <1>2 DEF Flow, OneDue
<1>4. /\ \A j \in 1..Len(queue) : queue[j] \in Commands \cup {Closed}
      /\ \A j \in 1..Len(down) : down[j] \in Commands
  BY SMTT(30) DEF TypeOK
<1>5. \A c \in Commands \cup {Closed} : c.cmd = "setup" => c.n # 0
  BY CommandFields DEF Answered
<1>. QED  BY <1>2, <1>3, <1>4, <1>5 DEF SetupIn, Due

\* A command the child has done with leaves the ports as promised, except for
\* the links it could not open or release.
LEMMA FollowedFinish ==
  ASSUME TypeOK, Flow, Followed, ChildFinishes
  PROVE  Followed'
<1>0. /\ UNCHANGED <<at, call, gone, envelope, bridge, dead, child, queue, down>>
      /\ work'.cmd = "none" /\ work'.links = {}
  BY CommandFields DEF ChildFinishes, hostVars, bridgeVars
<1>1. InTouch' => InTouch /\ ~gone
  BY <1>0 DEF InTouch
<1>2. SetupAhead' => SetupAhead
  BY <1>0 DEF SetupAhead
<1>3. /\ ports \in SUBSET Links /\ work.links \in SUBSET Links
      /\ work \in Commands \cup {Idle}
  BY WorkFields DEF TypeOK
<1>4. \A P \in SUBSET Links : Carry(work', P) = P
  BY <1>0, CarryNothing
\* What the later commands leave depends on the ports link by link.
<1>5. ASSUME NEW l \in Links, l \in ports' <=> l \in Carry(work, ports),
             ports' \in SUBSET Links
      PROVE  l \in Begun' <=> l \in Begun
  <2>1. l \in Carry(work', ports') <=> l \in Carry(work, ports)
    BY <1>4, <1>5
  <2>2. l \in Handed' <=> l \in Handed
    BY <1>0, <2>1 DEF Handed, PortsAfter
  <2>3. l \in Written' <=> l \in Written
    BY <1>0, <2>2 DEF Written, PortsAfter
  <2>. QED  BY <1>0, <2>3 DEF Begun, Carry
<1>6. CASE FinishSetup
  <2>1. CASE hosted' = "up" /\ ports' = work.links
    <3>1. \A l \in Links : l \in ports' <=> l \in Carry(work, ports)
      BY <1>6, <2>1 DEF FinishSetup, Carry, Opens, Settles
    <3>2. SetupAhead /\ refused' = refused
      BY <1>6 DEF FinishSetup, SetupAhead
    <3>. QED  BY <1>0, <1>1, <1>3, <1>5, <2>1, <3>1, <3>2 DEF Followed
  <2>2. CASE hosted' = "failed"
    <3>1. InTouch' => ~SetupAhead'
      BY <1>0, <1>1, <1>6, OneSetup DEF FinishSetup, SetupAhead
    <3>. QED  BY <2>2, <3>1 DEF Followed
  <2>. QED  BY <1>6, <2>1, <2>2 DEF FinishSetup
<1>7. CASE FinishWiring
  <2>1. ports' \in SUBSET Links /\ hosted' = hosted
    BY <1>3, <1>7 DEF FinishWiring
  <2>2. ASSUME NEW l \in Links \ refused'
        PROVE  l \notin refused /\ (l \in ports' <=> l \in Carry(work, ports))
    <3>1. CASE UNCHANGED refused
      BY <1>7, <2>2, <3>1 DEF FinishWiring, Carry, Opens, Settles
    <3>2. CASE refused' = refused \cup work.links /\ UNCHANGED ports
      BY <1>7, <2>2, <3>2 DEF FinishWiring, Carry, Opens, Settles
    <3>. QED  BY <1>7, <3>1, <3>2 DEF FinishWiring
  <2>. QED  BY <1>0, <1>1, <1>2, <1>5, <2>1, <2>2 DEF Followed
<1>8. CASE FinishUpdate \/ FinishHook
  <2>1. UNCHANGED <<ports, refused, hosted>> /\ work.cmd \notin Wiring
    BY <1>8 DEF FinishUpdate, FinishHook, Wiring
  <2>2. work.cmd # "setup" /\ work.links = {}
    BY <1>3, <2>1, CommandFields DEF Wiring
  <2>3. Carry(work, ports) = ports
    BY <1>3, <2>2, CarryNothing
  <2>. QED  BY <1>0, <1>1, <1>2, <1>3, <1>5, <2>1, <2>3 DEF Followed
<1>. QED  BY <1>6, <1>7, <1>8 DEF ChildFinishes

\* The child's threads move commands along, in order.
LEMMA FollowedMove ==
  ASSUME TypeOK, Sockets, Followed, ChildReads \/ ChildTakes
  PROVE  Followed'
<1>0. /\ UNCHANGED <<at, call, gone, envelope, bridge, dead, shut, child>>
      /\ UNCHANGED <<ports, hosted, refused>>
  BY DEF ChildReads, ChildTakes, hostVars, bridgeVars
<1>1. InTouch' => InTouch
  BY <1>0 DEF InTouch
<1>2. /\ queue \in Seq(Commands \cup {Closed}) /\ down \in Seq(Commands)
      /\ ports \in SUBSET Links /\ Carry(work, ports) \in SUBSET Links
  BY DEF TypeOK, Carry
<1>3. CASE ChildReads
  <2>1. CASE shut
    BY <1>0, <2>1 DEF Sockets, Followed, InTouch
  <2>2. CASE ~shut
    <3>1. /\ down # <<>> /\ queue' = Append(queue, Head(down))
          /\ down' = Tail(down) /\ work' = work
      BY <1>3, <2>2 DEF ChildReads
    <3>2. Head(down) \in Commands \cup {Closed}
      BY <1>2, <3>1, FirstAndRest
    <3>3. Handed' = Carry(Head(down), Handed)
      BY <1>0, <1>2, <3>1, <3>2, CarryMoves DEF Handed
    <3>4. Handed \in SUBSET Links
      BY DEF Handed, PortsAfter
    <3>5. Written' = Written
      BY <1>2, <3>1, <3>3, <3>4, CarryMoves DEF Written
    <3>6. Begun' = Begun
      BY <1>0, <3>5 DEF Begun
    <3>7. SetupIn(queue') => SetupIn(queue) \/ SetupIn(down)
      BY <1>2, <3>1, <3>2, SetupMoves
    <3>8. SetupIn(down') => SetupIn(down)
      BY <1>2, <3>1, SetupMoves
    <3>9. SetupAhead' => SetupAhead
      BY <1>0, <3>1, <3>7, <3>8 DEF SetupAhead
    <3>. QED  BY <1>0, <1>1, <3>6, <3>9, FollowedKept
  <2>. QED  BY <2>1, <2>2
<1>4. CASE ChildTakes
  <2>1. work = Idle /\ queue # <<>> /\ queue' = Tail(queue) /\ down' = down
    BY <1>4 DEF ChildTakes
  <2>2. /\ Head(queue) \in Commands \cup {Closed}
        /\ Carry(work, ports) = ports
    BY <1>2, <2>1, FirstAndRest, CommandFields, CarryNothing
  <2>3. Handed = PortsAfter(Tail(queue), Carry(Head(queue), ports))
    BY <1>2, <2>1, <2>2, CarryMoves DEF Handed
  <2>4. Carry(work', ports) = Carry(Head(queue), ports) /\ work' \in {Idle, Head(queue)}
    <3>1. CASE work' = Head(queue)
      BY <3>1
    <3>2. CASE work' = work /\ (Head(queue) = Closed \/ Head(queue).cmd = "run")
      <4>1. Head(queue).cmd # "setup" /\ Head(queue).links = {}
        BY <2>2, <3>2, CommandFields DEF Wiring
      <4>. QED  BY <1>2, <2>1, <2>2, <3>2, <4>1, CarryNothing
    <3>. QED
      BY <1>4, <3>1, <3>2 DEF ChildTakes, ChildSeesClosed, ChildRuns, ChildDispatches
  <2>5. Handed' = Handed
    BY <1>0, <2>1, <2>3, <2>4 DEF Handed
  <2>6. Written' = Written
    BY <2>1, <2>5 DEF Written
  <2>7. Begun' = Begun
    BY <1>0, <2>6 DEF Begun
  <2>8. work'.cmd = "setup" \/ SetupIn(queue') => SetupIn(queue)
    BY <1>2, <2>1, <2>4, SetupMoves, CommandFields
  <2>9. SetupAhead' => SetupAhead
    BY <1>0, <2>1, <2>8 DEF SetupAhead
  <2>. QED  BY <1>0, <1>1, <2>7, <2>9, FollowedKept
<1>. QED  BY <1>3, <1>4

\* Every step of the helper process.
LEMMA FollowedChildStep ==
  ASSUME TypeOK, Flow, Sockets, Followed, ChildStep
  PROVE  Followed'
<1>1. CASE ChildReads \/ ChildTakes
  BY <1>1, FollowedMove
<1>2. CASE ChildFinishes
  BY <1>2, FollowedFinish
<1>3. CASE ChildLeaves \/ ChildDies
  BY <1>3 DEF ChildLeaves, ChildDies, ChildEnds, Followed, InTouch
<1>4. CASE ChildBoots \/ ChildLeavesLoop \/ ChildWedges
           \/ \E o \in {"acquire", "window"} : ChildAsks(o)
  <2>1. /\ UNCHANGED <<at, call, down, work, queue, ports, hosted, refused>>
        /\ UNCHANGED <<envelope, gone, bridge, dead, child>>
    BY <1>4 DEF ChildBoots, ChildLeavesLoop, ChildWedges, ChildAsks, hostVars, bridgeVars
  <2>2. InTouch' => InTouch
    BY <2>1 DEF InTouch
  <2>. QED  BY <2>1, <2>2, OutcomeAlone, FollowedKept
<1>. QED  BY <1>1, <1>2, <1>3, <1>4 DEF ChildStep, ChildMain

\* The socket of a bridge that is in use is open.
LEMMA SocketsStep ==
  ASSUME Stage, Sockets, Next
  PROVE  Sockets'
<1>. USE DEF Sockets
<1>1. CASE HostSetup
  BY <1>1 DEF HostSetup, Begin, Stage
<1>2. CASE HostStart \/ HostPauseOrResume \/ HostSeesFailure \/ HostStop \/ HostTeardown
  BY <1>2 DEF HostStart, HostPauseOrResume, HostSeesFailure, HostStop, HostTeardown,
              Exchange, Begin, bridgeVars
<1>6. CASE HostUpdatesConfig \/ HostDrop
  BY <1>6 DEF HostUpdatesConfig, HostDrop, Exchange, Begin, bridgeVars
<1>7. ASSUME NEW l \in Links, HostWires(l) \/ HostUnwires(l) PROVE  Sockets'
  BY <1>7 DEF HostWires, HostUnwires, Begin, bridgeVars
<1>3. CASE SendNotes \/ SendWrites \/ TakeReply \/ ReplyTimesOut \/ ReplyDisconnected
  <2>1. /\ UNCHANGED <<bridge, shut>> /\ (dead => dead')
        /\ at \in {"send", "write", "wait"}
        /\ thread' = "setup" /\ at' = "free" => thread = "setup" /\ call.cmd # "setup"
    BY <1>3 DEF SendNotes, SendWrites, TakeReply, ReplyTimesOut, ReplyDisconnected,
                Return, NextAfter, bridgeVars
  <2>. QED  BY <2>1 DEF Stage
<1>4. CASE CloseBridge \/ DrainWindows \/ DrainHandles \/ Reap
  BY SMTT(30), <1>4 DEF CloseBridge, DrainWindows, DrainHandles, Reap, Stage, bridgeVars
<1>5. CASE ReaderStep \/ ChildStep
  <2>1. UNCHANGED <<thread, at, bridge, shut>>
    BY <1>5, CallsLeftAlone DEF hostVars
  <2>2. dead => dead'
    BY <1>5 DEF ReaderStep, ReaderForwards, ReaderServes, ServesAcquire, ServesWindow,
     ReaderMints, ReaderLocksWriter, ReaderAnswers, ReaderEnds,
                ChildStep, ChildMain, ChildBoots, ChildTakes, ChildFinishes, ChildLeaves,
                ChildReads, ChildLeavesLoop, ChildWedges, ChildDies, ChildAsks, bridgeVars
  <2>. QED  BY <2>1, <2>2
<1>. QED
  BY <1>1, <1>2, <1>3, <1>4, <1>5, <1>6, <1>7 DEF Next, HostStep, CallStep

\* A link wired before setup reaches the child in the envelope setup carries,
\* one wired or unwired later in a wire_link or unwire_link of its own, and no
\* order of the compiler's calls, the socket and the child's two threads loses
\* or doubles one.
THEOREM PortsFollow == Spec => []PortsFollowTheEnvelope
<1>1. Init => PortInv
  BY DEF Init, PortInv, Sockets, Followed, InTouch
<1>2. IInv /\ PortInv /\ [Next]_vars => PortInv'
  <2>. SUFFICES ASSUME IInv, PortInv, [Next]_vars PROVE PortInv'
    OBVIOUS
  <2>0. TypeOK /\ Stage /\ Flow /\ Sockets /\ Followed
    BY DEF IInv, PortInv
  <2>1. CASE Next
    <3>1. Sockets'
      BY <2>0, <2>1, SocketsStep
    <3>2. Followed'
      BY <2>0, <2>1, FollowedHostStep, FollowedCallStep, FollowedReaderStep,
         FollowedChildStep DEF Next
    <3>. QED  BY <3>1, <3>2 DEF PortInv
  <2>2. CASE UNCHANGED vars
    <3>1. UNCHANGED <<hostVars, bridgeVars, down, childVars>>
      BY <2>2 DEF vars
    <3>2. Sockets'
      BY <2>0, <3>1 DEF Sockets, hostVars, bridgeVars
    <3>3. InTouch' => InTouch
      BY <3>1 DEF InTouch, hostVars, bridgeVars, childVars
    <3>4. Followed'
      BY <2>0, <3>1, <3>3, FollowedAlone DEF hostVars
    <3>. QED  BY <3>2, <3>4 DEF PortInv
  <2>. QED  BY <2>1, <2>2
<1>3. IInv /\ PortInv => PortsFollowTheEnvelope
  BY BegunIsUnderWay DEF IInv, PortInv, Followed, InTouch, PortsFollowTheEnvelope, HasFailed
<1>. QED  BY <1>1, <1>2, <1>3, HelperInvariant, PTL DEF Spec

=============================================================================
