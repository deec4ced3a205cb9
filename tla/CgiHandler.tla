----------------------------- MODULE CgiHandler -----------------------------
(***************************************************************************)
(* CgiHandler::execute: the server forks a script, writes the request's    *)
(* body into one pipe and reads the answer from another, and waits for the *)
(* script's end.  The server has one thread: while execute runs no other   *)
(* connection is served.  The environment is the script and the clock.     *)
(***************************************************************************)
EXTENDS Integers, FiniteSets

CONSTANTS
  BodySizes,   \* units a request's body may have; 0: none, or not a POST
  PipeCap,     \* units a pipe holds (64 KiB on Linux)
  Timeout,     \* TIMEOUT_SECONDS, in ticks of the clock
  FdLimit,     \* descriptors left for pipes
  MaxCalls     \* BOUND: CGI requests in a behaviour

ASSUME CgiAssumption ==
  /\ BodySizes \subseteq Nat
  /\ PipeCap \in Nat \ {0}
  /\ Timeout \in Nat /\ FdLimit \in Nat /\ MaxCalls \in Nat

VARIABLES
  pc,        \* where execute is; "idle" outside, "killed" after SIGPIPE
  calls,     \* how often execute was called
  left,      \* units of the body that are not written yet
  fds,       \* the pipe ends the server has open
  leaked,    \* descriptors it has lost track of
  elapsed,   \* ticks since start_time, at most Timeout + 1
  result,    \* of the last call: the response's kind
  script,    \* none, setup, run, read, write (inside that call), zombie
  sfds,      \* the pipe ends the script has open
  sawEof,    \* read() has returned 0 to the script
  in, out    \* units in the two pipes

vars == <<pc, calls, left, fds, leaked, elapsed, result,
          script, sfds, sawEof, in, out>>
serverVars == <<pc, calls, left, fds, leaked, elapsed, result>>
scriptVars == <<script, sfds, sawEof>>

Ends == {"in0", "in1", "out0", "out1"}   \* in_pipe[0], in_pipe[1], ...
Returned == {"ok", "timeout", "error"}
Alive == script \in {"setup", "run", "read", "write"}

Init ==
  /\ pc = "idle" /\ calls = 0 /\ left = 0 /\ fds = {} /\ leaked = 0
  /\ elapsed = 0 /\ result = "none"
  /\ script = "none" /\ sfds = {} /\ sawEof = FALSE
  /\ in = 0 /\ out = 0
-----------------------------------------------------------------------------
(* The server. *)

Return(r) == pc' = "idle" /\ result' = r

\* Slip: the second pipe() is not looked at.
OnePipeFails == FdLimit - leaked < 2

\* One of the two pipe() fails for want of descriptors.
PipeFails == FdLimit - leaked < Cardinality(Ends)

\* The first failure has opened nothing, the second closes the first pipe.
Call ==
  /\ pc = "idle" /\ calls < MaxCalls
  /\ calls' = calls + 1
  /\ left' \in BodySizes
  /\ IF PipeFails
     THEN Return("error") /\ UNCHANGED fds
     ELSE pc' = "fork" /\ fds' = Ends /\ result' = "none"
  /\ in' = 0 /\ out' = 0
  /\ UNCHANGED <<leaked, elapsed, scriptVars>>

\* No process: execute returns without closing the four ends.
ForkFails ==
  /\ pc = "fork"
  /\ leaked' = leaked + Cardinality(fds)
  /\ fds' = {}
  /\ Return("error")
  /\ UNCHANGED <<calls, left, elapsed, scriptVars, in, out>>

\* Slip: the parent keeps its copy of the script's output end.
KeepOutputEnd == {"in1", "out0", "out1"}

\* What the parent keeps: it closes in_pipe[0] and out_pipe[1].
ParentEnds == {"in1", "out0"}

Fork ==
  /\ pc = "fork"
  /\ script' = "setup" /\ sfds' = Ends /\ sawEof' = FALSE
  /\ fds' = ParentEnds
  /\ pc' = IF left > 0 THEN "write" ELSE "eof"
  /\ UNCHANGED <<calls, left, leaked, elapsed, result, in, out>>

\* One blocking write of the whole body: the kernel takes what fits and
\* waits for room.  Without a reader SIGPIPE ends the server.
WriteBody ==
  /\ pc = "write"
  /\ IF "in0" \notin sfds
     THEN pc' = "killed" /\ fds' = {} /\ UNCHANGED <<in, left>>
     ELSE /\ in < PipeCap
          /\ in' = in + 1 /\ left' = left - 1
          /\ pc' = IF left = 1 THEN "eof" ELSE "write"
          /\ UNCHANGED fds
  /\ UNCHANGED <<calls, leaked, elapsed, result, scriptVars, out>>

\* close(in_pipe[1]), "EOF for CGI", and the clock starts.
EndOfBody ==
  /\ pc = "eof"
  /\ fds' = fds \ {"in1"}
  /\ elapsed' = 0
  /\ pc' = "check"
  /\ UNCHANGED <<calls, left, leaked, result, scriptVars, in, out>>

\* The deadline is looked at between two reads only.
InTime ==
  /\ pc = "check" /\ elapsed <= Timeout
  /\ pc' = "read"
  /\ UNCHANGED <<calls, left, fds, leaked, elapsed, result, scriptVars, in, out>>

\* Slip: the output end stays open.
KeepOutputOpen == fds

closeOutput == fds \ {"out0"}

KillScript ==
  IF Alive THEN script' = "zombie" /\ sfds' = {} ELSE UNCHANGED <<script, sfds>>

TooLate ==
  /\ pc = "check" /\ elapsed > Timeout
  /\ KillScript
  /\ fds' = closeOutput
  /\ pc' = "reap504"
  /\ UNCHANGED <<calls, left, leaked, elapsed, result, sawEof, in, out>>

\* Slip: the script's end counts as the end of its output.
EndedOrDead == script = "zombie"

\* read() returns 0: the pipe is empty and nobody can write to it.
EndOfOutput == out = 0 /\ "out1" \notin fds \cup sfds

\* Otherwise read() waits, without limit, for output.
ReadOutput ==
  /\ pc = "read"
  /\ IF EndOfOutput
     THEN /\ pc' = "reap" /\ fds' = closeOutput
          /\ UNCHANGED out
     ELSE /\ out > 0 /\ \E n \in 1..out : out' = out - n
          /\ pc' = "check" /\ UNCHANGED fds
  /\ UNCHANGED <<calls, left, leaked, elapsed, result, scriptVars, in>>

\* waitpid, without limit; the exit status is not looked at.
Reap ==
  /\ pc \in {"reap", "reap504"} /\ script = "zombie"
  /\ script' = "none"
  /\ Return(IF pc = "reap" THEN "ok" ELSE "timeout")
  /\ UNCHANGED <<calls, left, fds, leaked, elapsed, sfds, sawEof, in, out>>

execute ==
  \/ Call \/ ForkFails \/ Fork \/ WriteBody \/ EndOfBody \/ InTime \/ TooLate
  \/ ReadOutput \/ Reap
-----------------------------------------------------------------------------
(* The script. *)

Exit == script' = "zombie" /\ sfds' = {}

\* dup2, close of the parent's ends (in_pipe[0] and out_pipe[1] stay open
\* next to their copies; the script's end stands for both), chdir, the name printed and execve: the
\* name is output even when execve then fails.
SetUp ==
  /\ script = "setup"
  /\ \/ Exit /\ UNCHANGED out                            \* chdir failed
     \/ /\ out' = out + 1
        /\ \/ script' = "run" /\ sfds' = {"in0", "out1"}
           \/ Exit                                       \* execve failed
  /\ UNCHANGED <<serverVars, sawEof, in>>

Choose ==
  /\ script = "run"
  /\ \/ script' = "read" /\ ~sawEof /\ UNCHANGED sfds
     \/ script' = "write" /\ "out1" \in sfds /\ UNCHANGED sfds
     \/ sfds' = sfds \ {"out1"} /\ "out1" \in sfds /\ UNCHANGED script
     \/ Exit
  /\ UNCHANGED <<serverVars, sawEof, in, out>>

ReadInput ==
  /\ script = "read"
  /\ \/ in > 0 /\ in' = in - 1 /\ UNCHANGED sawEof
     \/ in = 0 /\ "in1" \notin fds \cup sfds /\ sawEof' = TRUE /\ UNCHANGED in
  /\ script' = "run"
  /\ UNCHANGED <<serverVars, sfds, out>>

WriteOutput ==
  /\ script = "write" /\ out < PipeCap
  /\ out' = out + 1
  /\ script' = "run"
  /\ UNCHANGED <<serverVars, sfds, sawEof, in>>

Script == SetUp \/ Choose \/ ReadInput \/ WriteOutput

Tick ==
  /\ pc \in {"check", "read", "reap"} /\ elapsed <= Timeout
  /\ elapsed' = elapsed + 1
  /\ UNCHANGED <<pc, calls, left, fds, leaked, result, scriptVars, in, out>>

Next == execute \/ Script \/ Tick

Spec == Init /\ [][Next]_vars

\* The server is scheduled and time passes.
ServerFairness == WF_vars(execute) /\ WF_vars(Tick)
FairSpec == Spec /\ ServerFairness

\* ... and the script goes on: it writes, or it ends.
LivelySpec == FairSpec /\ WF_vars(Script)
-----------------------------------------------------------------------------
(* Properties. *)

TypeOK ==
  /\ pc \in {"idle", "fork", "write", "eof", "check", "read", "reap",
             "reap504", "killed"}
  /\ calls \in 0..MaxCalls /\ left \in Nat
  /\ fds \subseteq Ends /\ sfds \subseteq Ends
  /\ leaked \in 0..FdLimit
  /\ elapsed \in 0..(Timeout + 1)
  /\ result \in {"none"} \cup Returned
  /\ script \in {"none", "setup", "run", "read", "write", "zombie"}
  /\ sawEof \in BOOLEAN
  /\ in \in 0..PipeCap /\ out \in 0..PipeCap

\* execute cleans up after itself on every path but a failed fork: no end of
\* this call's pipes is open, and no script runs or waits to be reaped.
CleansUp == pc = "idle" => fds = {} /\ sfds = {} /\ script = "none"

\* A 200 carries all the script wrote: when execute returns, nothing is left
\* in the pipe and nobody is left who could write to it.
AnswerIsWhole == pc = "idle" /\ result = "ok" => out = 0

\* The server waits for room to write the body, the script for room to write
\* its answer: neither reads, and no clock runs yet.
MutualWait ==
  pc = "write" /\ in = PipeCap /\ script = "write" /\ out = PipeCap

\* While the script goes on, even if it writes for ever, only one thing keeps
\* execute from returning: a body and an answer that both exceed their pipes.
ExecuteReturns ==
  pc # "idle" ~> \/ pc \in {"idle", "killed"}
                 \/ MutualWait /\ left + in > PipeCap

\* TIMEOUT_SECONDS, "CGI Script Timeout": a script that takes longer is ended.
TimeoutIsEnforced ==
  elapsed > Timeout /\ pc \in {"check", "read"} ~> ~Alive
=============================================================================
