--------------------------- MODULE HelperSession ---------------------------
(***************************************************************************)
(* The session transport of src/src/wcd/transport.py, the REPL behind it   *)
(* (src/tools/session_repl.ps1) and the in-guest helper behind that.       *)
(*                                                                         *)
(* Between client and REPL every line carries its request's id.  Between   *)
(* REPL and helper there are two files and a scheduled task, and no id:    *)
(* the REPL removes the response file, writes the request file, starts the *)
(* task (ignored while an instance is alive), waits for a response file,   *)
(* and reads the task's exit code.  A helper that outlives the wait leaves *)
(* its answer to whoever comes next.  Nothing at any level retries.        *)
(*                                                                         *)
(* An answer's content is the number of the request it answers.            *)
(***************************************************************************)
EXTENDS Naturals, Sequences

CONSTANTS MaxRequests,   \* bound on the requests made
          MaxStaleDrain  \* _MAX_STALE_DRAIN

ASSUME HelperSessionAssumption == MaxRequests \in Nat /\ MaxStaleDrain \in Nat

VARIABLES
    kind,        \* kind[n] of the nth request: "script" or "helper"
    outcome,     \* outcome[n]: waiting, failed, or the answer it got
    drained,     \* stale lines the current request has discarded
    pipe,        \* request ids written to the REPL's standard input
    lines,       \* response lines written and not yet read by the client
    repl,        \* what the REPL is doing, for which request
    requestFile, responseFile,   \* which request each is about, or Empty
    helper,      \* the task's instance: where it is, what it read or will answer
    performed,   \* requests carried out, in the order they were
    ignored      \* ghost: requests whose start of the task was ignored

clientVars == <<kind, outcome, drained>>
wireVars   == <<pipe, lines>>
guestVars  == <<requestFile, responseFile, helper, ignored>>
sessionVars == <<clientVars, wireVars, repl, guestVars, performed>>

Ids   == 1..MaxRequests
Empty == 0
Error == MaxRequests + 1   \* an error payload, which names no request
Idle  == [at |-> "idle", id |-> 0]

Alive == helper.at \notin {"exited", "killed"}

InProgress == [status |-> "waiting",  answer |-> Empty]
Failed     == [status |-> "failed",   answer |-> Empty]
Desynced   == [status |-> "desynced", answer |-> Empty]
Answer(m)  == [status |-> "answered", answer |-> m]

Waiting == Len(outcome) > 0 /\ outcome[Len(outcome)] = InProgress

SessionInit ==
    /\ kind = <<>> /\ outcome = <<>> /\ drained = 0
    /\ pipe = <<>> /\ lines = <<>>
    /\ repl = Idle
    /\ requestFile = Empty /\ responseFile = Empty
    /\ helper = [at |-> "exited", read |-> Empty]
    /\ performed = <<>> /\ ignored = {}

---------------------------------------------------------------------------
\* The client: SessionTransport.request, one call at a time.

\* Mutant: the count of drained lines is not reset by a new request.
RequestKeepsDrained(k) ==
    /\ ~Waiting /\ Len(outcome) < MaxRequests
    /\ kind' = Append(kind, k)
    /\ outcome' = Append(outcome, InProgress)
    /\ pipe' = Append(pipe, Len(outcome'))
    /\ UNCHANGED <<drained, lines, repl, guestVars, performed>>

\* A new id, and its line.  Once the REPL is gone the write may fail.
Request(k) ==
    /\ ~Waiting /\ Len(outcome) < MaxRequests
    /\ kind' = Append(kind, k)
    /\ drained' = 0
    /\ \/ /\ outcome' = Append(outcome, InProgress)
          /\ pipe' = Append(pipe, Len(outcome'))
       \/ /\ repl.at = "dead"
          /\ outcome' = Append(outcome, Failed)
          /\ UNCHANGED pipe
    /\ UNCHANGED <<lines, repl, guestVars, performed>>

Settle(result) == outcome' = [outcome EXCEPT ![Len(outcome)] = result]

\* Mutant: stale lines are discarded without a bound.
ReceiveDrainsOn ==
    /\ Waiting /\ lines # <<>>
    /\ LET line == Head(lines) IN
       \/ /\ line.id = Len(outcome)
          /\ Settle(IF line.from = Empty THEN Failed ELSE Answer(line.from))
          /\ UNCHANGED drained
       \/ line.id # Len(outcome) /\ drained' = drained + 1 /\ UNCHANGED outcome
    /\ lines' = Tail(lines)
    /\ UNCHANGED <<kind, pipe, repl, guestVars, performed>>

\* A line with the request's id is its answer; any other one is discarded,
\* and one too many of those ends the call.
Receive ==
    /\ Waiting /\ lines # <<>>
    /\ LET line == Head(lines) IN
       \/ /\ line.id = Len(outcome) /\ line.from # Empty
          /\ Settle(Answer(line.from))
          /\ UNCHANGED drained
       \/ /\ line.id = Len(outcome) /\ line.from = Empty
          /\ Settle(Failed)
          /\ UNCHANGED drained
       \/ /\ line.id # Len(outcome)
          /\ drained' = drained + 1
          /\ IF drained' > MaxStaleDrain THEN Settle(Desynced)
                                         ELSE UNCHANGED outcome
    /\ lines' = Tail(lines)
    /\ UNCHANGED <<kind, pipe, repl, guestVars, performed>>

\* Mutant: the line is sent again when the wait is over.
TimeOutResends ==
    /\ Waiting
    /\ \/ Settle(Failed) /\ UNCHANGED pipe
       \/ /\ Len(pipe) < 2
          /\ pipe' = Append(pipe, Len(outcome)) /\ UNCHANGED outcome
    /\ UNCHANGED <<kind, drained, lines, repl, guestVars, performed>>

\* The wait for the line is over, or the REPL's output has ended.  What was
\* asked for goes on.
TimeOut ==
    /\ Waiting
    /\ Settle(Failed)
    /\ UNCHANGED <<kind, drained, wireVars, repl, guestVars, performed>>

---------------------------------------------------------------------------
\* The REPL: serial, one line out for each line in.

ReplIs(at) == repl.at = at

ReplGoes(at) == repl' = [repl EXCEPT !.at = at]

\* Write-ResponseLine, and back to reading standard input.
Respond(from) ==
    /\ lines' = Append(lines, [id |-> repl.id, from |-> from])
    /\ repl' = Idle

ReadLine ==
    /\ ReplIs("idle") /\ pipe # <<>>
    /\ repl' = [at |-> IF kind[Head(pipe)] = "helper" THEN "remove" ELSE "run",
                id |-> Head(pipe)]
    /\ pipe' = Tail(pipe)
    /\ UNCHANGED <<clientVars, lines, guestVars, performed>>

\* ping, host, guest: the script runs, and may throw before or after that.
RunScript ==
    /\ ReplIs("run")
    /\ \/ /\ performed' = Append(performed, repl.id)
          /\ Respond(repl.id) \/ Respond(Empty)
       \/ Respond(Empty) /\ UNCHANGED performed
    /\ UNCHANGED <<clientVars, pipe, guestVars>>

RemoveResponse ==
    /\ ReplIs("remove")
    /\ responseFile' = Empty
    /\ ReplGoes("write")
    /\ UNCHANGED <<clientVars, wireVars, requestFile, helper, performed, ignored>>

WriteRequest ==
    /\ ReplIs("write")
    /\ requestFile' = repl.id
    /\ ReplGoes("start")
    /\ UNCHANGED <<clientVars, wireVars, responseFile, helper, performed, ignored>>

\* Start-ScheduledTask, registered with MultipleInstances IgnoreNew.
StartTask ==
    /\ ReplIs("start")
    /\ \/ /\ ~Alive
          /\ helper' = [at |-> "started", read |-> Empty]
          /\ UNCHANGED ignored
       \/ /\ Alive
          /\ ignored' = ignored \cup {repl.id}
          /\ UNCHANGED helper
    /\ ReplGoes("poll")
    /\ UNCHANGED <<clientVars, wireVars, requestFile, responseFile, performed>>

\* The poll ends with a response file there, or with the time used up and
\* still none.
Poll ==
    /\ ReplIs("poll")
    /\ \/ responseFile # Empty /\ ReplGoes("settle") /\ UNCHANGED lines
       \/ responseFile = Empty /\ Respond(Empty)
    /\ UNCHANGED <<clientVars, pipe, guestVars, performed>>

\* Mutant: the exit code is not looked at.
ReadAnswerUnchecked ==
    /\ ReplIs("settle")
    /\ Respond(responseFile)
    /\ UNCHANGED <<clientVars, pipe, guestVars, performed>>

\* The task's last result and the response file.  While an instance is alive
\* the result says so, and also when the last one was killed; parse_response
\* takes that for an error and the text for an answer only with a code the
\* helper itself exits with and a payload that is not an error.
ReadAnswer ==
    /\ ReplIs("settle")
    /\ \/ helper.at = "exited" /\ responseFile # Error /\ Respond(responseFile)
       \/ Respond(Empty)
    /\ UNCHANGED <<clientVars, pipe, guestVars, performed>>

\* The session breaks at any point of the exchange of files.
HelperOpThrows ==
    /\ repl.at \in {"remove", "write", "start", "poll", "settle"}
    /\ Respond(Empty)
    /\ UNCHANGED <<clientVars, pipe, guestVars, performed>>

ReplDies ==
    /\ repl.at # "dead"
    /\ repl' = [at |-> "dead", id |-> 0]
    /\ UNCHANGED <<clientVars, wireVars, guestVars, performed>>

---------------------------------------------------------------------------
\* The helper's instance: read the request, perform it, respond, exit.  The
\* task's time limit may end it anywhere.

HelperGoes(from, to) ==
    helper.at = from /\ helper' = [helper EXCEPT !.at = to]

HelperReads ==
    /\ helper.at = "started"
    /\ helper' = [at |-> "read", read |-> requestFile]
    /\ UNCHANGED <<clientVars, wireVars, repl, requestFile, responseFile,
                   performed, ignored>>

\* Dispatch carries the request out, or throws before or after that.
HelperPerforms ==
    /\ helper.at = "read"
    /\ \E text \in {helper.read, Error} :
          helper' = [at |-> "performed", read |-> text]
    /\ \/ performed' = Append(performed, helper.read)
       \/ helper'.read = Error /\ UNCHANGED performed
    /\ UNCHANGED <<clientVars, wireVars, repl, requestFile, responseFile, ignored>>

HelperResponds ==
    /\ HelperGoes("performed", "responded")
    /\ responseFile' = helper.read
    /\ UNCHANGED <<clientVars, wireVars, repl, requestFile, performed, ignored>>

HelperExits ==
    /\ \/ HelperGoes("responded", "exited")
       \/ Alive /\ helper' = [helper EXCEPT !.at = "killed"]
    /\ UNCHANGED <<clientVars, wireVars, repl, requestFile, responseFile,
                   performed, ignored>>

Client == (\E k \in {"script", "helper"} : Request(k)) \/ Receive \/ TimeOut

Repl == \/ ReadLine \/ RunScript \/ RemoveResponse \/ WriteRequest \/ StartTask
        \/ Poll \/ ReadAnswer \/ HelperOpThrows \/ ReplDies

Helper == HelperReads \/ HelperPerforms \/ HelperResponds \/ HelperExits

SessionNext == Client \/ Repl \/ Helper

SessionSpec == SessionInit /\ [][SessionNext]_sessionVars

---------------------------------------------------------------------------
\* Type invariant.
SessionTypeOK ==
    /\ kind \in Seq({"script", "helper"}) /\ Len(kind) = Len(outcome)
    /\ outcome \in Seq({InProgress, Failed, Desynced}
                          \cup {Answer(m) : m \in Ids})
    /\ Len(outcome) <= MaxRequests
    /\ drained \in 0..(MaxStaleDrain + 1)
    /\ pipe \in Seq(Ids)
    /\ lines \in Seq([id : Ids, from : Ids \cup {Empty}])
    /\ repl \in [at : {"idle", "run", "remove", "write", "start", "poll",
                       "settle", "dead"}, id : Ids \cup {0}]
    /\ requestFile \in Ids \cup {Empty}
    /\ responseFile \in Ids \cup {Empty, Error}
    /\ helper \in [at : {"started", "read", "performed", "responded",
                          "exited", "killed"},
                   read : Ids \cup {Empty, Error}]
    /\ performed \in Seq(Ids)
    /\ ignored \subseteq Ids

HasRun(n) == \E i \in 1..Len(performed) : performed[i] = n

\* Nothing in the pipe retries an injection (transport.py 22-24).  The one way
\* for a gesture to be carried out twice is in the place of an earlier one that
\* never is: an instance that had not read its request when it was given up
\* reads the next call's, just before that call starts its own.  Whoever asked
\* for the earlier one was told that it failed.
RepeatsOnlyForLost ==
    \A i, j \in 1..Len(performed) :
        (i < j /\ performed[i] = performed[j])
            => /\ kind[performed[i]] = "helper"
               /\ \E m \in 1..(performed[i] - 1) :
                     /\ kind[m] = "helper" /\ ~HasRun(m)
                     /\ outcome[m] \in {Failed, Desynced}

\* One timeout never leaves the channel offset (transport.py 24-31), whatever
\* lines are still in it, and the helper's file protocol without ids does not
\* either.  An answer is the call's own and means that it was carried out; the
\* one exception is a helper call that gets the answer of an earlier request
\* which itself had been reported as failed: the call's own start was ignored
\* then, so its gesture never runs, and it has no answer to pass on.
OffsetDiesOut ==
    \A n \in 1..Len(outcome), m \in Ids :
        outcome[n] = Answer(m) =>
            \/ m = n /\ HasRun(n)
            \/ /\ m < n /\ kind[m] = "helper" /\ HasRun(m)
               /\ outcome[m] \in {Failed, Desynced}
               /\ n \in ignored /\ ~HasRun(n)

\* A call that drains whatever is stale and sees its own line leaves a clean
\* channel: an answer is only ever refused as desynced when more calls than the
\* drain bound, all those directly before it, had been given up (transport.py
\* 225).
DesyncOnlyAfterTimeouts ==
    \A n \in 1..Len(outcome) :
        outcome[n] = Desynced =>
            /\ n > MaxStaleDrain + 1
            /\ \A m \in (n - MaxStaleDrain - 1)..(n - 1) :
                  outcome[m] \in {Failed, Desynced}

=============================================================================
