---------------------------- MODULE ProcessRunner ----------------------------
(***************************************************************************)
(* One command as the runner of src/src/runtime/process.rs sees it: a      *)
(* child, perhaps a grandchild that inherits its pipes, one thread per     *)
(* pipe that collects the output, a cancel token, and deadlines.  Bytes    *)
(* are counted: a pipe and a sink keep their order.                        *)
(***************************************************************************)
EXTENDS Naturals, Sequences, FiniteSetsExt, SequencesExt

CONSTANTS MaxCaptured,   \* MAX_CAPTURED_BYTES
          PipeRoom,      \* bound: what a pipe holds before a writer blocks
          MaxWritten     \* bound: what the command writes to a pipe, by pipe

VARIABLES job,       \* whether the group is a job object (Windows), or a process group (Unix)
          phase,     \* where run_system is
          outcome,
          cancelled, \* the cancel token
          due,       \* the deadline of the command has passed
          overdue,      \* readers_by has passed
          group,     \* the group was attached
          members,   \* the processes of the group
          tree,      \* the child and its grandchild: "none", "running" or "ended"
          killed,    \* processes that were told to end
          wrote, piped,
          sink,      \* what a reader has collected, and how much it dropped
          done,      \* readers that have come to the end of their pipe
          taken      \* the pipes whose output was taken, with what was taken

runnerVars == <<job, phase, outcome, cancelled, due, overdue, group, members, tree, killed, wrote, piped, sink, done, taken>>
runVars == <<job, phase, outcome, group, members, killed, taken>>
pipeVars == <<wrote, piped, sink, done>>

Streams == DOMAIN MaxWritten
Running == {p \in DOMAIN tree : tree[p] = "running"}

RunnerInit ==
  /\ job \in BOOLEAN
  /\ phase = "called" /\ outcome = "none" /\ group = FALSE /\ members = {}
  /\ tree = [child |-> "none", grandchild |-> "none"] /\ killed = {}
  /\ cancelled = FALSE /\ due = FALSE /\ overdue = FALSE
  /\ wrote = [s \in Streams |-> 0] /\ piped = wrote
  /\ sink = [s \in Streams |-> [bytes |-> 0, dropped |-> 0]] /\ done = {}
  /\ taken = <<>>

-----------------------------------------------------------------------------
\* The command.

Write(p, s) ==
  /\ p \in Running \ killed /\ wrote[s] < MaxWritten[s] /\ piped[s] < PipeRoom
  /\ wrote' = [wrote EXCEPT ![s] = @ + 1] /\ piped' = [piped EXCEPT ![s] = @ + 1]
  /\ UNCHANGED <<runVars, cancelled, due, overdue, tree, sink, done>>

\* A grandchild is of its parent's group; a job that is not attached yet has no members.
StartsAnother ==
  /\ "child" \in Running \ killed /\ tree["grandchild"] = "none"
  /\ tree' = [tree EXCEPT !["grandchild"] = "running"]
  /\ members' = IF "child" \in members THEN members \cup {"grandchild"} ELSE members
  /\ UNCHANGED <<job, phase, outcome, group, killed, taken, cancelled, due, overdue, pipeVars>>

Ends(p) ==
  /\ p \in Running
  /\ tree' = [tree EXCEPT ![p] = "ended"]
  /\ UNCHANGED <<runVars, cancelled, due, overdue, pipeVars>>

-----------------------------------------------------------------------------
\* The thread that reads a pipe.

\* What a sink keeps of a chunk, and what it drops.
Push(s, chunk) ==
  LET kept == Min({MaxCaptured - sink[s].bytes, chunk}) IN
  [bytes |-> sink[s].bytes + kept, dropped |-> sink[s].dropped + (chunk - kept)]

Reads(s) ==
  /\ s \notin done
  /\ \E chunk \in 1..piped[s] :
       /\ piped' = [piped EXCEPT ![s] = @ - chunk]
       /\ sink' = [sink EXCEPT ![s] = Push(s, chunk)]
  /\ UNCHANGED <<runVars, cancelled, due, overdue, tree, wrote, done>>

\* The end of file comes when the pipe is empty and nobody has its other end.
SeesTheEnd(s) ==
  /\ phase # "called" /\ s \notin done /\ piped[s] = 0 /\ Running = {}
  /\ done' = done \cup {s}
  /\ UNCHANGED <<runVars, cancelled, due, overdue, tree, wrote, piped, sink>>

-----------------------------------------------------------------------------
\* The run.

\* On Unix the child is spawned into a group of its own; it may not be there to spawn.
Spawn ==
  /\ phase = "called"
  /\ \/ outcome' = "failed" /\ phase' = "returned" /\ UNCHANGED <<tree, members>>
     \/ /\ tree' = [tree EXCEPT !["child"] = "running"] /\ phase' = "spawned" /\ UNCHANGED outcome
        /\ members' = IF job THEN {} ELSE {"child"}
  /\ UNCHANGED <<job, group, killed, taken, cancelled, due, overdue, pipeVars>>

\* A job takes the child that is already running, and nothing it started before.
Attach ==
  /\ phase = "spawned" /\ phase' = "polling"
  /\ group' \in IF job THEN BOOLEAN ELSE {TRUE}
  /\ members' = IF job /\ group' THEN {"child"} \ {p \in DOMAIN tree : tree[p] = "ended"} ELSE members
  /\ UNCHANGED <<job, outcome, tree, killed, taken, cancelled, due, overdue, pipeVars>>

\* try_wait: the child ended, or it runs, or its status cannot be read.
TryWait ==
  /\ phase = "polling"
  /\ \/ tree["child"] = "ended" /\ outcome' = "exited" /\ phase' = "collecting"
     \/ tree["child"] = "running" /\ phase' = "watching" /\ UNCHANGED outcome
     \/ outcome' = "failed" /\ phase' = "stopping"
  /\ UNCHANGED <<job, group, members, killed, taken, cancelled, due, overdue, tree, pipeVars>>

Watch ==
  /\ phase = "watching"
  /\ \/ cancelled /\ outcome' = "cancelled" /\ phase' = "stopping"
     \/ ~cancelled /\ due /\ outcome' = "timed_out" /\ phase' = "stopping"
     \/ ~cancelled /\ ~due /\ phase' = "polling" /\ UNCHANGED outcome
  /\ UNCHANGED <<job, group, members, killed, taken, cancelled, due, overdue, tree, pipeVars>>

\* Faulty: the child is stopped alone.
StopChild ==
  /\ phase = "stopping" /\ phase' = "reaping"
  /\ killed' = {"child"}
  /\ UNCHANGED <<job, outcome, group, members, taken, cancelled, due, overdue, tree, pipeVars>>

\* The tree is stopped, or the child alone where there is no group.
Terminate ==
  /\ phase = "stopping" /\ phase' = "reaping"
  /\ killed' = IF group THEN members ELSE {"child"}
  /\ UNCHANGED <<job, outcome, group, members, taken, cancelled, due, overdue, tree, pipeVars>>

\* The child has ended, or REAP_GRACE is over.
Reap ==
  /\ phase = "reaping" /\ phase' = "collecting"
  /\ UNCHANGED <<job, outcome, group, members, killed, taken, cancelled, due, overdue, tree, pipeVars>>

\* Standard output, then the error stream, each until its end or the one deadline of both.
TakeOutput ==
  /\ phase = "collecting"
  /\ LET s == <<"out", "err">>[Len(taken) + 1] IN
     /\ s \in done \/ overdue
     /\ taken' = Append(taken, [stream |-> s, bytes |-> sink[s].bytes, cut |-> sink[s].dropped > 0, whole |-> s \in done])
  /\ phase' = IF Len(taken') = 2 THEN "returned" ELSE phase
  /\ UNCHANGED <<job, outcome, group, members, killed, cancelled, due, overdue, tree, pipeVars>>

Runner == Attach \/ TryWait \/ Watch \/ Terminate \/ Reap \/ TakeOutput

-----------------------------------------------------------------------------
\* The world: a cancel request, and time.

Cancel ==
  /\ ~cancelled /\ phase # "returned" /\ cancelled' = TRUE
  /\ UNCHANGED <<runVars, due, overdue, tree, pipeVars>>

Deadline ==
  /\ ~due /\ phase \in {"polling", "watching"} /\ due' = TRUE
  /\ UNCHANGED <<runVars, cancelled, overdue, tree, pipeVars>>

ReadersDeadline ==
  /\ ~overdue /\ phase = "collecting" /\ overdue' = TRUE
  /\ UNCHANGED <<runVars, cancelled, due, tree, pipeVars>>

Command ==
  \/ \E p \in DOMAIN tree : Ends(p) \/ \E s \in Streams : Write(p, s)
  \/ StartsAnother
  \/ \E s \in Streams : Reads(s) \/ SeesTheEnd(s)

RunnerNext == phase # "returned" /\ (Spawn \/ Runner \/ Command \/ Cancel \/ Deadline \/ ReadersDeadline)

\* The runner, once it is called, goes on and time passes; neither the command nor a reader owes anything.
RunnerFairness == WF_runnerVars(Runner) /\ WF_runnerVars(Deadline) /\ WF_runnerVars(ReadersDeadline)

-----------------------------------------------------------------------------
(* A run ends, whatever its command does: it may never exit, ignore a      *)
(* kill, or leave a grandchild that holds the pipes for ever               *)
(* (src/src/runtime/process.rs:43).                                        *)
RunEnds == phase \notin {"called", "returned"} ~> phase = "returned"

(* What is taken of a pipe is the beginning of what was written to it, and *)
(* all of it when its end was seen and nothing was cut; a run that is cut  *)
(* kept as much as it may.                                                 *)
OutputIsTrue ==
  \A i \in DOMAIN taken :
    LET it == taken[i] IN
    /\ it.bytes <= MaxCaptured /\ it.bytes <= wrote[it.stream]
    /\ it.cut => it.bytes = MaxCaptured /\ wrote[it.stream] > MaxCaptured
    /\ it.whole /\ ~it.cut => it.bytes = wrote[it.stream]

(* No writer waits on a full pipe that nobody reads: the command is not    *)
(* stopped by how little of its output is kept                             *)
(* (src/src/runtime/process.rs:39).                                        *)
PipesDrain ==
  \A s \in Streams : /\ s \in done => piped[s] = 0 /\ Running = {}
                     /\ wrote[s] = piped[s] + sink[s].bytes + sink[s].dropped

(* A run that was given up leaves nothing of its command that was not told *)
(* to end, but for what started before a job was attached, or where there  *)
(* is none (src/src/runtime/process.rs:265).                               *)
TreeIsStopped ==
  phase \in {"reaping", "collecting", "returned"} /\ outcome # "exited" /\ group /\ (job => Running \subseteq members)
    => Running \subseteq killed

-----------------------------------------------------------------------------
\* What is shown of a stream that was cut: bytes are the width of a character at its
\* first byte, and 0 at the others.

\* The bytes of a text, given by the widths of its characters.
Bytes(text) == FlattenSeq([i \in DOMAIN text |-> <<text[i]>> \o [j \in 1..text[i] - 1 |-> 0]])

WithoutIncompleteTail(bytes) ==
  LET trailing == Min({3} \cup {n \in 0..Len(bytes) : n = Len(bytes) \/ bytes[Len(bytes) - n] # 0})
      lead == Len(bytes) - trailing
  IN IF lead > 0 /\ trailing < 3 /\ trailing + 1 < bytes[lead] THEN SubSeq(bytes, 1, lead - 1) ELSE bytes

(* Wherever the bound cuts a text, what is left is its whole characters,   *)
(* all of them (src/src/runtime/process.rs:417).                           *)
TailIsWhole(text, at) ==
  \E n \in 0..Len(text) :
    /\ WithoutIncompleteTail(SubSeq(Bytes(text), 1, at)) = Bytes(SubSeq(text, 1, n))
    /\ n < Len(text) => Len(Bytes(SubSeq(text, 1, n + 1))) > at

=============================================================================
