--------------------------- MODULE CgiHandlerProofs ---------------------------
(***************************************************************************)
(* CgiHandler::execute cleans up after itself and returns whole answers,   *)
(* for any body sizes, pipe capacity, timeout, descriptor limit and number *)
(* of calls, whatever the script does and whenever it does it.             *)
(***************************************************************************)
EXTENDS CgiHandler, FiniteSetTheorems, TLAPS

\* The ends the server has open at each point of execute; before fork there
\* is room to lose all four of them.
ServerEnds ==
  /\ pc \in {"idle", "reap", "reap504", "killed"} => fds = {}
  /\ pc = "fork" => fds = Ends /\ leaked + Cardinality(Ends) <= FdLimit
  /\ pc \in {"write", "eof"} => fds = ParentEnds
  /\ pc \in {"check", "read"} => fds = {"out0"}

\* The ends the script has open, and that it exists inside a call only.
ScriptEnds ==
  /\ pc \in {"idle", "fork"} => script = "none"
  /\ script \in {"none", "zombie"} => sfds = {}
  /\ script = "setup" => "out1" \in sfds
  /\ script = "write" => "out1" \in sfds

\* What is in the pipes: the first byte of the answer is the script's name,
\* and after the end of the output no more comes.
Pipes ==
  /\ pc = "fork" \/ script = "setup" => out = 0
  /\ pc = "write" => left > 0
  /\ pc = "reap" => out = 0 /\ "out1" \notin sfds

\* A call has no result before it returns.
Results ==
  /\ pc \notin {"idle", "killed"} => result = "none"
  /\ AnswerIsWhole

\* The inductive invariant.
IInv == TypeOK /\ ServerEnds /\ ScriptEnds /\ Pipes /\ Results
-----------------------------------------------------------------------------
(* Helpers. *)

\* execute makes two pipes: four ends.
LEMMA FourEnds == Cardinality(Ends) = 4
<1>1. IsFiniteSet({}) /\ Cardinality({}) = 0
  BY FS_EmptySet
<1>2. IsFiniteSet({"in0"}) /\ Cardinality({"in0"}) = 1
  BY FS_Singleton
<1>3. IsFiniteSet({"in0", "in1"}) /\ Cardinality({"in0", "in1"}) = 2
  <2>1. {"in0", "in1"} = {"in0"} \cup {"in1"} /\ "in1" \notin {"in0"}
    OBVIOUS
  <2> QED  BY <1>2, <2>1, FS_AddElement
<1>4. IsFiniteSet({"in0", "in1", "out0"}) /\ Cardinality({"in0", "in1", "out0"}) = 3
  <2>1. /\ {"in0", "in1", "out0"} = {"in0", "in1"} \cup {"out0"}
        /\ "out0" \notin {"in0", "in1"}
    OBVIOUS
  <2> QED  BY <1>3, <2>1, FS_AddElement
<1>5. /\ Ends = {"in0", "in1", "out0"} \cup {"out1"}
      /\ "out1" \notin {"in0", "in1", "out0"}
  BY DEF Ends
<1> QED  BY <1>4, <1>5, FS_AddElement

\* Whatever ends the script, by itself or killed, leaves none of its ends
\* open, and takes nothing away from the server.
LEMMA ScriptEndsLemma ==
  ASSUME IInv, script' \in {"none", "zombie"}, sfds' = {},
         pc \notin {"idle", "fork"},
         UNCHANGED <<serverVars, sawEof, in>>, out' \in 0..PipeCap,
         pc = "reap" => out' = 0
  PROVE  IInv'
<1> USE DEF IInv, serverVars
<1>1. TypeOK'
  BY DEF TypeOK
<1>2. ServerEnds'
  BY DEF ServerEnds
<1>3. ScriptEnds'
  BY DEF ScriptEnds
<1>4. Pipes'
  BY DEF Pipes
<1>5. Results'
  BY DEF Results, AnswerIsWhole
<1> QED  BY <1>1, <1>2, <1>3, <1>4, <1>5
-----------------------------------------------------------------------------
(* The inductive invariant. *)

\* The invariant holds before the first request.
LEMMA InitInvariant == Init => IInv
<1> SUFFICES ASSUME Init  PROVE IInv
  OBVIOUS
<1> USE DEF Init
<1>1. TypeOK
  <2>1. sawEof \in BOOLEAN
    BY Zenon
  <2>2. 0 \in 0..MaxCalls /\ 0 \in 0..FdLimit /\ 0 \in 0..(Timeout + 1) /\ 0 \in 0..PipeCap
    BY CgiAssumption
  <2> QED  BY <2>1, <2>2 DEF TypeOK
<1>2. ServerEnds /\ ScriptEnds
  BY DEF ServerEnds, ScriptEnds
<1>3. Pipes /\ Results
  BY DEF Pipes, Results, AnswerIsWhole
<1> QED  BY <1>1, <1>2, <1>3 DEF IInv

\* Every step of execute preserves the invariant.
LEMMA ServerInvariant ==
  ASSUME IInv, execute
  PROVE  IInv'
<1> USE CgiAssumption
    DEF IInv, ServerEnds, ScriptEnds, Pipes, Results, AnswerIsWhole, scriptVars
<1>1. CASE Call
  <2>1. CASE PipeFails
    <3>1. /\ pc' = "idle" /\ result' = "error" /\ fds' = fds /\ left' \in Nat
          /\ calls' \in 0..MaxCalls /\ in' = 0 /\ out' = 0
          /\ UNCHANGED <<leaked, elapsed, script, sfds, sawEof>>
      BY <1>1, <2>1 DEF Call, Return, TypeOK
    <3>2. TypeOK'
      BY <3>1 DEF TypeOK, Returned
    <3> QED  BY <1>1, <3>1, <3>2 DEF Call
  <2>2. CASE ~PipeFails
    <3>1. /\ pc' = "fork" /\ result' = "none" /\ fds' = Ends /\ left' \in Nat
          /\ calls' \in 0..MaxCalls /\ in' = 0 /\ out' = 0
          /\ UNCHANGED <<leaked, elapsed, script, sfds, sawEof>>
      BY <1>1, <2>2 DEF Call, TypeOK
    <3>2. TypeOK'
      BY <3>1 DEF TypeOK
    <3>3. leaked' + Cardinality(Ends) <= FdLimit
      BY <2>2, <3>1, FourEnds DEF PipeFails, TypeOK
    <3> QED  BY <1>1, <3>1, <3>2, <3>3 DEF Call
  <2> QED  BY <2>1, <2>2
<1>2. CASE ForkFails
  <2> USE <1>2 DEF ForkFails, Return
  <2>1. leaked' \in 0..FdLimit
    BY FourEnds DEF TypeOK
  <2>2. TypeOK'
    BY <2>1 DEF TypeOK, Returned
  <2> QED  BY <2>2
<1>3. CASE Fork
  <2> USE <1>3 DEF Fork
  <2>1. TypeOK'
    BY DEF TypeOK, Ends, ParentEnds
  <2>2. pc' = "write" => left' > 0
    BY DEF TypeOK
  <2> QED  BY <2>1, <2>2 DEF Ends
<1>4. CASE WriteBody
  <2>1. CASE "in0" \notin sfds
    <3>1. /\ pc = "write" /\ pc' = "killed" /\ fds' = {}
          /\ UNCHANGED <<in, left, calls, leaked, elapsed, result, script,
                         sfds, sawEof, out>>
      BY <1>4, <2>1 DEF WriteBody
    <3>2. TypeOK'
      BY <3>1 DEF TypeOK
    <3> QED  BY <3>1, <3>2
  <2>2. CASE "in0" \in sfds
    <3>1. /\ pc = "write" /\ in < PipeCap /\ in' = in + 1 /\ left' = left - 1
          /\ pc' = IF left = 1 THEN "eof" ELSE "write"
          /\ UNCHANGED <<fds, calls, leaked, elapsed, result, script, sfds,
                         sawEof, out>>
      BY <1>4, <2>2 DEF WriteBody
    <3>2. in' \in 0..PipeCap /\ left' \in Nat /\ (pc' = "write" => left' > 0)
      BY <3>1 DEF TypeOK
    <3>3. TypeOK'
      BY <3>1, <3>2 DEF TypeOK
    <3> QED  BY <3>1, <3>2, <3>3
  <2> QED  BY <2>1, <2>2
<1>5. CASE EndOfBody
  <2>1. TypeOK'
    BY <1>5 DEF EndOfBody, TypeOK
  <2> QED  BY <1>5, <2>1 DEF EndOfBody, ParentEnds
<1>6. CASE InTime
  <2>1. TypeOK'
    BY <1>6 DEF InTime, TypeOK
  <2> QED  BY <1>6, <2>1 DEF InTime
<1>7. CASE TooLate
  <2>1. TypeOK'
    BY <1>7 DEF TooLate, TypeOK, KillScript, closeOutput
  <2> QED  BY <1>7, <2>1 DEF TooLate, KillScript, closeOutput
<1>8. CASE ReadOutput
  <2>1. CASE EndOfOutput
    <3>1. /\ pc = "read" /\ pc' = "reap" /\ fds' = closeOutput /\ out' = 0 /\ out = 0
          /\ "out1" \notin sfds
          /\ UNCHANGED <<calls, left, leaked, elapsed, result, script, sfds,
                         sawEof, in>>
      BY <1>8, <2>1 DEF ReadOutput, EndOfOutput
    <3>2. TypeOK'
      BY <3>1 DEF TypeOK, closeOutput
    <3> QED  BY <3>1, <3>2 DEF closeOutput
  <2>2. CASE ~EndOfOutput
    <3>1. /\ pc = "read" /\ pc' = "check" /\ out > 0
          /\ \E n \in 1..out : out' = out - n
          /\ UNCHANGED <<fds, calls, left, leaked, elapsed, result, script,
                         sfds, sawEof, in>>
      BY <1>8, <2>2 DEF ReadOutput
    <3>2. out' \in 0..PipeCap
      BY <3>1 DEF TypeOK
    <3>3. TypeOK'
      BY <3>1, <3>2 DEF TypeOK
    <3> QED  BY <3>1, <3>3
  <2> QED  BY <2>1, <2>2
<1>9. CASE Reap
  <2>1. TypeOK'
    BY <1>9 DEF Reap, Return, TypeOK, Returned
  <2> QED  BY <1>9, <2>1 DEF Reap, Return
<1> QED  BY <1>1, <1>2, <1>3, <1>4, <1>5, <1>6, <1>7, <1>8, <1>9 DEF execute

\* Every step of the script preserves the invariant, wherever the server is.
LEMMA ScriptInvariant ==
  ASSUME IInv, Script
  PROVE  IInv'
<1>1. pc \notin {"idle", "fork"}
  BY DEF IInv, ScriptEnds, Script, SetUp, Choose, ReadInput, WriteOutput
<1> USE CgiAssumption
    DEF IInv, ServerEnds, ScriptEnds, Pipes, Results, AnswerIsWhole, serverVars
<1>2. CASE SetUp
  <2>1. out = 0 /\ out + 1 \in 0..PipeCap /\ 0 \in 0..PipeCap
    BY <1>2 DEF SetUp
  <2>2. pc # "reap"
    BY <1>2 DEF SetUp
  <2>3. CASE Exit
    <3>1. out' \in 0..PipeCap
      BY <1>2, <2>1 DEF SetUp
    <3> QED  BY <1>1, <1>2, <2>2, <2>3, <3>1, ScriptEndsLemma DEF SetUp, Exit
  <2>4. CASE ~Exit
    <3>1. script' = "run" /\ sfds' = {"in0", "out1"} /\ out' = out + 1
      BY <1>2, <2>4 DEF SetUp
    <3>2. TypeOK'
      BY <1>2, <2>1, <3>1 DEF SetUp, TypeOK, Ends
    <3> QED  BY <1>1, <1>2, <2>2, <3>1, <3>2 DEF SetUp
  <2> QED  BY <2>3, <2>4
<1>3. CASE Choose
  <2>1. CASE Exit
    <3>1. out' \in 0..PipeCap
      BY <1>3 DEF Choose, TypeOK
    <3> QED  BY <1>1, <1>3, <2>1, <3>1, ScriptEndsLemma DEF Choose, Exit
  <2>2. CASE ~Exit
    <3>1. /\ script = "run" /\ UNCHANGED <<serverVars, sawEof, in, out>>
          /\ script' \in {"read", "write", "run"} /\ sfds' \subseteq sfds
          /\ script' = "write" => "out1" \in sfds'
      BY <1>3, <2>2 DEF Choose
    <3>2. TypeOK'
      BY <3>1 DEF TypeOK
    <3> QED  BY <1>1, <3>1, <3>2
  <2> QED  BY <2>1, <2>2
<1>4. CASE ReadInput
  <2>1. in' \in 0..PipeCap /\ sawEof' \in BOOLEAN
    <3>1. \/ in > 0 /\ in' = in - 1 /\ sawEof' = sawEof
          \/ in' = in /\ sawEof' = TRUE
      BY <1>4 DEF ReadInput
    <3>2. in' \in 0..PipeCap
      BY <3>1 DEF TypeOK
    <3>3. sawEof' \in BOOLEAN
      BY <3>1, Zenon DEF TypeOK
    <3> QED  BY <3>2, <3>3
  <2>2. TypeOK'
    BY <1>4, <2>1 DEF ReadInput, TypeOK
  <2> QED  BY <1>1, <1>4, <2>2 DEF ReadInput
<1>5. CASE WriteOutput
  <2>1. pc # "reap"
    BY <1>5 DEF WriteOutput
  <2>2. out' \in 0..PipeCap
    BY <1>5 DEF WriteOutput, TypeOK
  <2>3. TypeOK'
    BY <1>5, <2>2 DEF WriteOutput, TypeOK
  <2> QED  BY <1>1, <1>5, <2>1, <2>3 DEF WriteOutput
<1> QED  BY <1>2, <1>3, <1>4, <1>5 DEF Script

\* ... and so does the clock.
LEMMA NextInvariant == IInv /\ [Next]_vars => IInv'
<1> SUFFICES ASSUME IInv, [Next]_vars  PROVE IInv'
  OBVIOUS
<1>1. CASE Tick
  <2>1. elapsed' \in 0..(Timeout + 1)
    BY <1>1, CgiAssumption DEF IInv, TypeOK, Tick
  <2>2. TypeOK'
    BY <1>1, <2>1 DEF IInv, TypeOK, Tick, scriptVars
  <2> QED
    BY <1>1, <2>2 DEF IInv, ServerEnds, ScriptEnds, Pipes, Results,
                      AnswerIsWhole, Tick, scriptVars
<1>2. CASE UNCHANGED vars
  BY <1>2 DEF IInv, TypeOK, ServerEnds, ScriptEnds, Pipes, Results,
              AnswerIsWhole, vars
<1> QED  BY <1>1, <1>2, ServerInvariant, ScriptInvariant DEF Next
-----------------------------------------------------------------------------
(* The theorems. *)

\* IInv holds in every state of every behaviour of execute and its script.
THEOREM Invariance == Spec => []IInv
BY InitInvariant, NextInvariant, PTL DEF Spec

\* The state of execute and of the script is well typed: no pipe holds more
\* than its capacity, and no more descriptors are lost than there are.
THEOREM TypeCorrectness == Spec => []TypeOK
<1>1. IInv => TypeOK
  BY DEF IInv
<1> QED  BY <1>1, Invariance, PTL

\* Whatever path execute takes, and wherever the script is when it ends or is
\* killed, no pipe end stays open and no process stays behind.
THEOREM Cleanup == Spec => []CleansUp
<1>1. IInv => CleansUp
  BY DEF IInv, ServerEnds, ScriptEnds, CleansUp
<1> QED  BY <1>1, Invariance, PTL

\* A 200 carries all the script wrote: execute leaves its read loop for good
\* only when nobody is left who could write to the pipe.
THEOREM WholeAnswers == Spec => []AnswerIsWhole
<1>1. IInv => AnswerIsWhole
  BY DEF IInv, Results
<1> QED  BY <1>1, Invariance, PTL
===============================================================================
