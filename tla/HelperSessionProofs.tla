------------------------ MODULE HelperSessionProofs ------------------------
(***************************************************************************)
(* The properties of module HelperSession for any number of requests and   *)
(* any bound on stale lines.                                               *)
(*                                                                         *)
(* Every part of the invariant says of a request how far it has got.       *)
(* Requests are taken in order, so one that the REPL is through with       *)
(* (Over) stays so, and with it that it has no answer (NoAnswer) and that  *)
(* nobody will carry it out any more (Dead).  FilesOK says what the two    *)
(* files and the helper's instance refer to; StaleOK that what is left of  *)
(* a call that is over was never its answer; IgnoredOK and StartedOK whose *)
(* answer a call can find that starts no instance, or its own.  AnswersOK  *)
(* and RepeatsOK are the two properties with the lost request named.       *)
(*                                                                         *)
(* DesyncOnlyAfterTimeouts follows from the count of the lines read so far *)
(* (WireOrder, DrainOK).                                                   *)
(***************************************************************************)
EXTENDS HelperSession, TLAPS

USE HelperSessionAssumption DEF HelperSessionAssumption

OfHelper == {"remove", "write", "start", "poll", "settle"}
Busy     == repl.at \in OfHelper \cup {"run"}

Sent(l)   == \E i \in 1..Len(lines) : lines[i] = l
Queued(m) == \E i \in 1..Len(pipe) : pipe[i] = m

\* The REPL has taken request m, and is through with it.
Reached(m) == /\ m \in 1..Len(outcome)
              /\ \A q : Queued(q) => m < q
              /\ Busy => m <= repl.id
Over(m) == Reached(m) /\ (Busy => m # repl.id)

GivenUp(m)  == outcome[m] \in {Failed, Desynced}
Answered(m) == outcome[m] \in {Answer(k) : k \in Ids}

\* Request m is over without an answer, and none is on its way.
NoAnswer(m) == /\ Over(m) /\ ~Answered(m)
               /\ \A l : Sent(l) /\ l.id = m => l.from = Empty

\* Request m was not carried out and no instance will read it any more.
Dead(m) == /\ Over(m) /\ ~HasRun(m)
           /\ ~(helper.at = "started" /\ requestFile = m)
           /\ ~(helper.at = "read" /\ helper.read = m)

Lost(k) == \E m \in 1..(k - 1) : kind[m] = "helper" /\ GivenUp(m) /\ Dead(m)

Sound(n, m) == \/ m = n /\ HasRun(n)
               \/ /\ m < n /\ kind[m] = "helper" /\ HasRun(m) /\ NoAnswer(m)
                  /\ n \in ignored /\ Dead(n)

Outcomes == {InProgress, Failed, Desynced} \cup {Answer(m) : m \in Ids}
Lines    == [id : Ids, from : Ids \cup {Empty}]

\* Requests are taken in order, each once, and each has at most one line.
QueueOK ==
    /\ Busy => Reached(repl.id)
    /\ Busy => (repl.at \in OfHelper <=> kind[repl.id] = "helper")
    /\ \A q : Queued(q) => q \in 1..Len(outcome)
    /\ \A i, j \in 1..Len(pipe) : i < j => pipe[i] < pipe[j]
    /\ \A l : Sent(l) => Over(l.id)
    /\ \A m \in 1..Len(outcome) :
          /\ outcome[m] = InProgress => m = Len(outcome)
          /\ Answered(m) => Over(m)
    /\ Waiting => drained <= MaxStaleDrain

\* What a step may do to what the rest of the invariant speaks of.
OutcomesMove ==
    /\ Len(outcome) \in Nat /\ Len(outcome') \in {Len(outcome), Len(outcome) + 1}
    /\ Len(outcome') # Len(outcome) => outcome'[Len(outcome')] \in {InProgress, Failed}
    /\ \A m \in 1..Len(outcome) :
          /\ kind'[m] = kind[m]
          /\ \/ outcome'[m] = outcome[m]
             \/ /\ outcome[m] = InProgress
                /\ \/ outcome'[m] \in {Failed, Desynced}
                   \/ \E l : /\ Sent(l) /\ l.id = m /\ l.from # Empty
                             /\ outcome'[m] = Answer(l.from)

WireMoves ==
    /\ \A q : Queued(q)' => Queued(q) \/ (q = Len(outcome) + 1 /\ Len(outcome') = q)
    /\ \A l : Sent(l)' => Sent(l) \/ (Busy /\ ~Busy' /\ l.id = repl.id)
    /\ Busy' => \/ Busy /\ repl'.id = repl.id
                \/ ~Busy /\ Queued(repl'.id) /\ \A q : Queued(q)' => repl'.id < q

GuestMoves ==
    /\ \A m : HasRun(m) => HasRun(m)'
    /\ \A m : HasRun(m)' => \/ HasRun(m)
                            \/ Busy /\ m = repl.id
                            \/ helper.at = "read" /\ helper.read = m
    /\ helper'.at = "started" => \/ helper.at = "started" /\ requestFile' = requestFile
                                 \/ Busy /\ requestFile' = repl.id
    /\ helper'.at = "read" => \/ helper' = helper
                              \/ helper.at = "started" /\ helper'.read = requestFile
    /\ ignored \subseteq ignored'

Moves == OutcomesMove /\ WireMoves /\ GuestMoves

\* The four kinds of outcome are different, and so are two answers.
LEMMA OutcomesDiffer ==
    /\ InProgress \notin {Failed, Desynced} /\ Failed # Desynced
    /\ \A m : Answer(m) \notin {InProgress, Failed, Desynced}
    /\ \A m, k : Answer(m) = Answer(k) => m = k
<1>1. /\ InProgress.status = "waiting" /\ Failed.status = "failed"
      /\ Desynced.status = "desynced"
      /\ \A m : Answer(m).status = "answered" /\ Answer(m).answer = m
  BY DEF InProgress, Failed, Desynced, Answer
<1>2. QED
  BY <1>1

\* A line written is the last one and the request is done.
LEMMA LineOut ==
    ASSUME lines \in Seq(Lines), repl.id \in Ids,
           NEW from \in Ids \cup {Empty}, Respond(from)
    PROVE  /\ lines' \in Seq(Lines) /\ Len(lines') = Len(lines) + 1
           /\ \A l : Sent(l)' <=> Sent(l) \/ l = [id |-> repl.id, from |-> from]
           /\ repl' = Idle
<1> DEFINE line == [id |-> repl.id, from |-> from]
<1>1. line \in Lines /\ lines' = Append(lines, line) /\ repl' = Idle
  BY DEF Lines, Respond
<1> HIDE DEF line
<1>2. PICK n \in Nat : n = Len(lines)
  OBVIOUS
<1>3. /\ lines' \in Seq(Lines) /\ Len(lines') = n + 1 /\ lines'[n + 1] = line
      /\ \A i \in 1..n : lines'[i] = lines[i]
  BY <1>1, <1>2
<1>4. \A l : Sent(l)' <=> Sent(l) \/ l = line
  BY <1>2, <1>3 DEF Sent
<1>5. QED
  BY <1>1, <1>2, <1>3, <1>4 DEF line

\* Request m was carried out more than once.
Twice(m) == \E i, j \in 1..Len(performed) : i < j /\ performed[i] = m /\ performed[j] = m

\* A request carried out once more.
LEMMA OneMorePerformed ==
    ASSUME performed \in Seq(Ids), NEW m \in Ids, performed' = Append(performed, m)
    PROVE  /\ performed' \in Seq(Ids)
           /\ \A k : HasRun(k)' <=> HasRun(k) \/ k = m
           /\ \A k : Twice(k)' => Twice(k) \/ (k = m /\ HasRun(m))
<1>1. PICK n \in Nat : n = Len(performed)
  OBVIOUS
<1>2. /\ performed' \in Seq(Ids) /\ Len(performed') = n + 1 /\ performed'[n + 1] = m
      /\ \A i \in 1..n : performed'[i] = performed[i]
  BY <1>1
<1>3. \A k : HasRun(k)' <=> HasRun(k) \/ k = m
  BY <1>1, <1>2 DEF HasRun
<1>4. \A k : Twice(k)' => Twice(k) \/ (k = m /\ HasRun(m))
  BY <1>1, <1>2 DEF HasRun, Twice
<1>5. QED
  BY <1>2, <1>3, <1>4

\* The request taken is the smallest one queued.
LEMMA LineIn ==
    ASSUME pipe \in Seq(Ids), pipe # <<>>, pipe' = Tail(pipe),
           \A i, j \in 1..Len(pipe) : i < j => pipe[i] < pipe[j]
    PROVE  /\ pipe' \in Seq(Ids)
           /\ Head(pipe) \in Ids /\ Queued(Head(pipe))
           /\ \A q : Queued(q)' => Queued(q) /\ Head(pipe) < q
           /\ \A q : Queued(q) => q = Head(pipe) \/ Head(pipe) < q
           /\ \A i, j \in 1..Len(pipe') : i < j => pipe'[i] < pipe'[j]
<1>1. PICK n \in Nat : n = Len(pipe) /\ n > 0 /\ Head(pipe) = pipe[1]
  OBVIOUS
<1>2. /\ pipe' \in Seq(Ids) /\ Len(pipe') = n - 1
      /\ \A i \in 1..(n - 1) : i + 1 \in 1..n /\ pipe'[i] = pipe[i + 1]
  BY <1>1
<1>3. QED
  BY <1>1, <1>2 DEF Queued

\* A line read is one that was sent.
LEMMA LineRead ==
    ASSUME lines \in Seq(Lines), lines # <<>>, lines' = Tail(lines)
    PROVE  /\ lines' \in Seq(Lines) /\ Head(lines) \in Lines /\ Sent(Head(lines))
           /\ \A l : Sent(l)' => Sent(l)
<1>1. PICK n \in Nat : n = Len(lines) /\ n > 0 /\ Head(lines) = lines[1]
  OBVIOUS
<1>2. /\ lines' \in Seq(Lines) /\ Len(lines') = n - 1 /\ lines[1] \in Lines
      /\ \A i \in 1..(n - 1) : i + 1 \in 1..n /\ lines'[i] = lines[i + 1]
  BY <1>1
<1>3. QED
  BY <1>1, <1>2 DEF Sent

Sorted == \A i, j \in 1..Len(pipe) : i < j => pipe[i] < pipe[j]

\* What each action owes QueueOK.
QueueSteps ==
    /\ Busy' => (repl'.at \in OfHelper <=> kind'[repl'.id] = "helper")
    /\ Sorted'
    /\ \A m \in 1..Len(outcome') : outcome'[m] = InProgress => m = Len(outcome')
    /\ Waiting' => drained' <= MaxStaleDrain

ClientAlone == UNCHANGED <<repl, requestFile, responseFile, helper, ignored, performed>>

\* A step of the client leaves REPL and guest alone.
LEMMA ClientGuest ==
    ASSUME ClientAlone
    PROVE  /\ GuestMoves /\ (Busy' <=> Busy) /\ repl' = repl
           /\ \A m : HasRun(m)' <=> HasRun(m)
  BY DEF ClientAlone, GuestMoves, Busy, HasRun

\* A new request is the last one, in the outcomes and in the pipe.
LEMMA RequestStep ==
    ASSUME SessionTypeOK, QueueOK, NEW k \in {"script", "helper"}, Request(k)
    PROVE  SessionTypeOK' /\ Moves /\ QueueSteps /\ ClientAlone
<1>1. PICK n \in Nat : n = Len(outcome)
  BY DEF SessionTypeOK
<1>2. /\ outcome \in Seq(Outcomes) /\ n < MaxRequests /\ ~Waiting
      /\ \/ outcome' = Append(outcome, InProgress) /\ pipe' = Append(pipe, Len(outcome'))
         \/ outcome' = Append(outcome, Failed) /\ pipe' = pipe
      /\ kind' = Append(kind, k) /\ kind \in Seq({"script", "helper"}) /\ Len(kind) = n
      /\ lines' = lines /\ ClientAlone /\ drained' = 0
  BY <1>1 DEF SessionTypeOK, Request, Outcomes, guestVars, ClientAlone
<1>3. /\ kind' \in Seq({"script", "helper"}) /\ Len(kind') = n + 1
      /\ \A m \in 1..n : kind'[m] = kind[m]
  BY <1>1, <1>2
<1>4. /\ outcome' \in Seq(Outcomes) /\ Len(outcome') = n + 1
      /\ outcome'[n + 1] \in {InProgress, Failed}
      /\ \A m \in 1..n : outcome'[m] = outcome[m]
  <2>1. PICK last \in {InProgress, Failed} : outcome' = Append(outcome, last)
    BY <1>2
  <2>2. last \in Outcomes
    BY DEF Outcomes
  <2>3. QED
    BY <1>1, <1>2, <2>1, <2>2
<1>5. \A m \in 1..n : outcome[m] # InProgress
  BY <1>1, <1>2 DEF QueueOK, Waiting
<1>6. pipe' \in Seq(Ids) /\ Sorted' /\ \A q : Queued(q)' => Queued(q) \/ q = n + 1
  <2>1. PICK p \in Nat : p = Len(pipe) /\ pipe \in Seq(Ids)
    BY DEF SessionTypeOK
  <2>2. CASE pipe' = pipe
    BY <2>1, <2>2 DEF Queued, QueueOK, Sorted
  <2>3. CASE pipe' = Append(pipe, n + 1)
    <3>1. pipe' \in Seq(Ids) /\ Len(pipe') = p + 1 /\ pipe'[p + 1] = n + 1
          /\ \A i \in 1..p : pipe'[i] = pipe[i]
      BY <1>1, <1>2, <2>1, <2>3 DEF Ids
    <3>2. \A i \in 1..p : pipe[i] \in 1..n
      BY <1>1, <2>1 DEF QueueOK, Queued
    <3>3. \A i, j \in 1..p : i < j => pipe[i] < pipe[j]
      BY <2>1 DEF QueueOK
    <3>4. \A i \in 1..p : pipe[i] < n + 1
      BY <1>1, <3>2
    <3>5. \A i, j \in 1..(p + 1) : i < j => pipe'[i] < pipe'[j]
      <4>1. TAKE i, j \in 1..(p + 1)
      <4>2. CASE j = p + 1
        BY <3>1, <3>4, <4>2
      <4>3. CASE j # p + 1
        BY <3>1, <3>3, <4>3
      <4>4. QED
        BY <4>2, <4>3
    <3>6. Sorted'
      BY <3>1, <3>5 DEF Sorted
    <3>7. QED
      BY <2>1, <3>1, <3>6 DEF Queued
  <2>4. QED
    BY <1>2, <1>4, <2>2, <2>3
<1>7. SessionTypeOK'
  BY <1>1, <1>2, <1>3, <1>4, <1>6 DEF SessionTypeOK, Outcomes, ClientAlone
<1>8. GuestMoves /\ (Busy' <=> Busy) /\ repl' = repl
  BY <1>2, ClientGuest
<1>9. OutcomesMove
  BY <1>1, <1>3, <1>4 DEF OutcomesMove
<1>10. WireMoves
  <2>1. \A l : Sent(l)' => Sent(l)
    BY <1>2 DEF Sent
  <2>2. QED
    BY <1>1, <1>4, <1>6, <1>8, <2>1 DEF WireMoves
<1>11. QueueSteps
  <2>1. Busy => kind'[repl.id] = kind[repl.id]
    BY <1>1, <1>3 DEF QueueOK, Reached
  <2>2. \A m \in 1..Len(outcome') : outcome'[m] = InProgress => m = Len(outcome')
    BY <1>1, <1>4, <1>5
  <2>3. Busy' => (repl'.at \in OfHelper <=> kind'[repl'.id] = "helper")
    BY <1>8, <2>1 DEF QueueOK
  <2>4. drained' <= MaxStaleDrain
    BY <1>2
  <2>5. QED
    BY <1>6, <2>2, <2>3, <2>4 DEF QueueSteps
<1>12. QED
  BY <1>2, <1>7, <1>8, <1>9, <1>10, <1>11 DEF Moves

\* The current call gets its result, and a line may go.
LEMMA SettleStep ==
    ASSUME SessionTypeOK, QueueOK, Waiting,
           NEW result \in Outcomes \ {InProgress}, Settle(result),
           kind' = kind, pipe' = pipe, ClientAlone,
           lines' \in Seq(Lines), \A l : Sent(l)' => Sent(l),
           drained' \in {drained, drained + 1},
           \/ result \in {Failed, Desynced}
           \/ \E l : /\ Sent(l) /\ l.id = Len(outcome) /\ l.from # Empty
                     /\ result = Answer(l.from)
    PROVE  SessionTypeOK' /\ Moves /\ QueueSteps /\ ClientAlone
<1>1. PICK n \in Nat : n = Len(outcome) /\ n > 0 /\ outcome[n] = InProgress
  BY DEF SessionTypeOK, Waiting
<1>2. /\ outcome' \in Seq(Outcomes) /\ Len(outcome') = n /\ outcome'[n] = result
      /\ \A m \in 1..n : m # n => outcome'[m] = outcome[m]
  BY <1>1 DEF SessionTypeOK, Settle, Outcomes
<1>3. ~Waiting'
  BY <1>2 DEF Waiting
<1>4. drained' \in 0..(MaxStaleDrain + 1)
  BY DEF SessionTypeOK, QueueOK
<1>5. SessionTypeOK'
  BY <1>1, <1>2, <1>4 DEF SessionTypeOK, Outcomes, Lines, ClientAlone
<1>6. GuestMoves /\ (Busy' <=> Busy) /\ repl' = repl
  BY ClientGuest
<1>7. OutcomesMove
  BY <1>1, <1>2 DEF OutcomesMove
<1>8. WireMoves
  BY <1>6 DEF WireMoves, Queued
<1>9. QueueSteps
  BY <1>1, <1>2, <1>3, <1>6 DEF QueueSteps, QueueOK, Sorted
<1>10. QED
  BY <1>5, <1>6, <1>7, <1>8, <1>9 DEF Moves

\* Every step of the client is one of these.
LEMMA ClientStep ==
    ASSUME SessionTypeOK, QueueOK, Client
    PROVE  SessionTypeOK' /\ Moves /\ QueueSteps /\ ClientAlone
<1>1. Failed \in Outcomes \ {InProgress} /\ Desynced \in Outcomes \ {InProgress}
      /\ \A m \in Ids : Answer(m) \in Outcomes \ {InProgress}
  BY OutcomesDiffer DEF Outcomes
<1>2. lines \in Seq(Lines)
  BY DEF SessionTypeOK, Lines
<1>3. CASE \E k \in {"script", "helper"} : Request(k)
  BY <1>3, RequestStep
<1>4. CASE TimeOut
  <2>1. Settle(Failed) /\ kind' = kind /\ pipe' = pipe /\ lines' = lines
        /\ drained' = drained /\ ClientAlone /\ Waiting
    BY <1>4 DEF TimeOut, wireVars, guestVars, ClientAlone
  <2>2. \A l : Sent(l)' => Sent(l)
    BY <2>1 DEF Sent
  <2>3. QED
    BY <1>1, <1>2, <2>1, <2>2, SettleStep
<1>5. CASE Receive
  <2>1. /\ Waiting /\ lines # <<>> /\ lines' = Tail(lines)
        /\ kind' = kind /\ pipe' = pipe /\ ClientAlone
    BY <1>5 DEF Receive, guestVars, ClientAlone
  <2>2. /\ lines' \in Seq(Lines) /\ Head(lines) \in Lines /\ Sent(Head(lines))
        /\ \A l : Sent(l)' => Sent(l)
    BY <1>2, <2>1, LineRead
  <2>3. CASE Head(lines).id = Len(outcome) /\ Head(lines).from # Empty
    <3>1. Settle(Answer(Head(lines).from)) /\ drained' = drained
      BY <1>5, <2>3 DEF Receive
    <3>2. Head(lines).from \in Ids
      BY <2>2, <2>3 DEF Lines
    <3>3. QED
      BY <1>1, <2>1, <2>2, <2>3, <3>1, <3>2, SettleStep
  <2>4. CASE Head(lines).id = Len(outcome) /\ Head(lines).from = Empty
    <3>1. Settle(Failed) /\ drained' = drained
      BY <1>5, <2>4 DEF Receive
    <3>2. QED
      BY <1>1, <2>1, <2>2, <3>1, SettleStep
  <2>5. CASE Head(lines).id # Len(outcome)
    <3>1. /\ drained' = drained + 1
          /\ IF drained' > MaxStaleDrain THEN Settle(Desynced) ELSE outcome' = outcome
      BY <1>5, <2>5 DEF Receive
    <3>2. CASE drained' > MaxStaleDrain
      BY <1>1, <2>1, <2>2, <3>1, <3>2, SettleStep
    <3>3. CASE ~(drained' > MaxStaleDrain)
      <4>1. outcome' = outcome /\ drained' \in 0..MaxStaleDrain
        BY <3>1, <3>3 DEF SessionTypeOK
      <4>2. SessionTypeOK'
        BY <2>1, <2>2, <4>1 DEF SessionTypeOK, Lines, ClientAlone
      <4>3. GuestMoves /\ (Busy' <=> Busy) /\ repl' = repl
        BY <2>1, ClientGuest
      <4>4. OutcomesMove
        BY <2>1, <4>1 DEF OutcomesMove, SessionTypeOK
      <4>5. WireMoves
        BY <2>1, <2>2, <4>3 DEF WireMoves, Queued
      <4>6. QueueSteps
        BY <2>1, <4>1, <4>3 DEF QueueSteps, QueueOK, Sorted
      <4>7. QED
        BY <2>1, <4>2, <4>3, <4>4, <4>5, <4>6 DEF Moves
    <3>4. QED
      BY <3>2, <3>3
  <2>6. QED
    BY <2>3, <2>4, <2>5
<1>6. QED
  BY <1>3, <1>4, <1>5 DEF Client

\* The request the helper's instance has in hand.
Held(m) == /\ helper.at \in {"read", "performed", "responded"}
           /\ helper.read = m /\ m # Error

\* What the two files and the helper's instance refer to.
FilesOK ==
    /\ \A m :
          /\ HasRun(m) => Reached(m)
          /\ m \in ignored => Reached(m)
          /\ requestFile = m /\ m # Empty => Reached(m) /\ kind[m] = "helper"
          /\ responseFile = m /\ m \in Ids => HasRun(m) /\ kind[m] = "helper"
          /\ Held(m) => /\ Reached(m) /\ kind[m] = "helper"
                        /\ repl.at \in {"remove", "write"} => m # repl.id
                        /\ helper.at # "read" => HasRun(m)
    /\ repl.at \in {"start", "poll", "settle"} => requestFile = repl.id
    /\ repl.at \in {"remove", "write"} => requestFile # repl.id
    /\ repl.at \in {"remove", "write", "start"} => repl.id \notin ignored
    /\ Alive => requestFile # Empty
    /\ helper.at = "read" => helper.read # Error

ReplAlone == UNCHANGED clientVars

\* A request the REPL has taken is one that was made.
LEMMA ReachedIsId ==
    ASSUME SessionTypeOK, NEW m, Reached(m)
    PROVE  m \in Ids
  BY DEF SessionTypeOK, Reached, Ids

\* A step of REPL or helper leaves the outcomes alone.
LEMMA ReplClient ==
    ASSUME SessionTypeOK, ReplAlone
    PROVE  OutcomesMove /\ outcome' = outcome /\ kind' = kind /\ drained' = drained
           /\ (Waiting' <=> Waiting)
  BY DEF SessionTypeOK, ReplAlone, clientVars, OutcomesMove, Waiting

\* A step from one of the exchange's points to the next.
LEMMA GoesStep ==
    ASSUME SessionTypeOK, QueueOK, ReplAlone, UNCHANGED wireVars,
           repl.at \in OfHelper, NEW at \in OfHelper, ReplGoes(at)
    PROVE  /\ WireMoves /\ QueueSteps /\ Busy /\ Busy'
           /\ repl'.at = at /\ repl'.id = repl.id
           /\ repl' \in [at : OfHelper, id : Ids \cup {0}]
<1>1. repl' \in [at : OfHelper, id : Ids \cup {0}] /\ repl'.at = at /\ repl'.id = repl.id
  BY DEF SessionTypeOK, ReplGoes
<1>2. Busy /\ Busy' /\ pipe' = pipe /\ lines' = lines
  BY <1>1 DEF Busy, wireVars
<1>3. WireMoves
  BY <1>1, <1>2 DEF WireMoves, Queued, Sent
<1>4. QueueSteps
  BY <1>1, <1>2, ReplClient DEF QueueSteps, QueueOK, Sorted
<1>5. QED
  BY <1>1, <1>2, <1>3, <1>4

\* The request is over, with or without a line for it.
LEMMA OverStep ==
    ASSUME SessionTypeOK, QueueOK, ReplAlone, pipe' = pipe,
           \/ Busy /\ \E from \in Ids \cup {Empty} : Respond(from)
           \/ lines' = lines /\ repl' = [at |-> "dead", id |-> 0]
    PROVE  /\ WireMoves /\ QueueSteps /\ ~Busy' /\ repl'.at \in {"idle", "dead"}
           /\ lines' \in Seq(Lines)
           /\ repl' \in [at : {"idle", "dead"}, id : Ids \cup {0}]
<1>0. lines \in Seq(Lines) /\ (Busy => repl.id \in Ids)
  BY ReachedIsId DEF SessionTypeOK, Lines, QueueOK
<1>1. /\ repl' \in [at : {"idle", "dead"}, id : Ids \cup {0}]
      /\ repl'.at \in {"idle", "dead"}
  <2>1. repl' = [at |-> "idle", id |-> 0] \/ repl' = [at |-> "dead", id |-> 0]
    BY DEF Respond, Idle
  <2>2. QED
    BY <2>1
<1>2. ~Busy'
  BY <1>1 DEF Busy, OfHelper
<1>3. lines' \in Seq(Lines) /\ \A l : Sent(l)' => Sent(l) \/ (Busy /\ l.id = repl.id)
  <2>1. CASE Busy /\ \E from \in Ids \cup {Empty} : Respond(from)
    <3>1. PICK from \in Ids \cup {Empty} : Respond(from)
      BY <2>1
    <3>2. QED
      BY <1>0, <2>1, <3>1, LineOut
  <2>2. CASE lines' = lines
    BY <1>0, <2>2 DEF Sent
  <2>3. QED
    BY <2>1, <2>2
<1>4. WireMoves
  BY <1>2, <1>3 DEF WireMoves, Queued
<1>5. QueueSteps
  BY <1>2, ReplClient DEF QueueSteps, QueueOK, Sorted
<1>6. QED
  BY <1>1, <1>2, <1>3, <1>4, <1>5

\* The REPL takes the next request.
LEMMA ReadLineStep ==
    ASSUME SessionTypeOK, QueueOK, ReadLine
    PROVE  /\ SessionTypeOK' /\ Moves /\ QueueSteps /\ ~Busy /\ Busy'
           /\ repl'.at \in {"remove", "run"} /\ ReplAlone
           /\ repl'.id \in Ids /\ Queued(repl'.id)
           /\ UNCHANGED <<lines, guestVars, performed>>
<1>1. /\ pipe # <<>> /\ pipe' = Tail(pipe) /\ lines' = lines /\ repl.at = "idle"
      /\ ReplAlone /\ UNCHANGED <<lines, guestVars, performed>>
      /\ repl' = [at |-> IF kind[Head(pipe)] = "helper" THEN "remove" ELSE "run",
                  id |-> Head(pipe)]
  BY DEF ReadLine, ReplIs, ReplAlone
<1>2. /\ pipe' \in Seq(Ids) /\ Sorted' /\ Head(pipe) \in Ids
      /\ Queued(Head(pipe)) /\ \A q : Queued(q)' => Queued(q) /\ Head(pipe) < q
  <2>1. pipe \in Seq(Ids) /\ Sorted
    BY DEF SessionTypeOK, QueueOK, Sorted
  <2>2. QED
    BY <1>1, <2>1, LineIn DEF Sorted
<1>3. /\ repl'.id = Head(pipe) /\ repl'.at \in {"remove", "run"}
      /\ repl'.at \in OfHelper <=> kind[Head(pipe)] = "helper"
  BY <1>1 DEF OfHelper
<1>4. ~Busy /\ Busy'
  BY <1>1, <1>3 DEF Busy, OfHelper
<1>5. SessionTypeOK'
  BY <1>1, <1>2, <1>3 DEF SessionTypeOK, ReplAlone, clientVars, guestVars
<1>6. WireMoves
  BY <1>1, <1>2, <1>3, <1>4 DEF WireMoves, Sent
<1>7. QueueSteps
  BY <1>1, <1>2, <1>3, ReplClient DEF QueueSteps, QueueOK
<1>8. GuestMoves
  BY <1>1 DEF GuestMoves, guestVars, HasRun
<1>9. QED
  BY <1>1, <1>2, <1>3, <1>4, <1>5, <1>6, <1>7, <1>8, ReplClient DEF Moves

RepliesAre == {"idle", "run", "remove", "write", "start", "poll", "settle", "dead"}

\* Types and moves of every step of the REPL.
LEMMA ReplStep ==
    ASSUME SessionTypeOK, QueueOK, FilesOK, Repl
    PROVE  SessionTypeOK' /\ Moves /\ QueueSteps /\ ReplAlone
<1>0. /\ lines \in Seq(Lines) /\ (Busy => repl.id \in Ids)
      /\ outcome \in Seq(Outcomes)
  BY ReachedIsId DEF SessionTypeOK, Lines, QueueOK, Outcomes
<1>1. CASE ReadLine
  BY <1>1, ReadLineStep
<1>2. CASE RunScript
  <2>1. /\ repl.at = "run" /\ ReplAlone /\ pipe' = pipe /\ UNCHANGED guestVars
        /\ \E from \in Ids \cup {Empty} : Respond(from)
        /\ performed' = Append(performed, repl.id) \/ performed' = performed
    BY <1>0, <1>2 DEF RunScript, ReplIs, ReplAlone, clientVars, Busy
  <2>2. Busy /\ repl.id \in Ids
    BY <1>0, <2>1 DEF Busy
  <2>3. /\ performed' \in Seq(Ids)
        /\ \A k : HasRun(k)' => HasRun(k) \/ k = repl.id
        /\ \A k : HasRun(k) => HasRun(k)'
    <3>1. performed \in Seq(Ids)
      BY DEF SessionTypeOK
    <3>2. CASE performed' = performed
      BY <3>1, <3>2 DEF HasRun
    <3>3. CASE performed' = Append(performed, repl.id)
      BY <2>2, <3>1, <3>3, OneMorePerformed
    <3>4. QED
      BY <2>1, <3>2, <3>3
  <2>4. WireMoves /\ QueueSteps /\ lines' \in Seq(Lines)
        /\ repl' \in [at : {"idle", "dead"}, id : Ids \cup {0}]
    BY <2>1, <2>2, OverStep
  <2>5. GuestMoves
    BY <2>1, <2>2, <2>3 DEF GuestMoves, guestVars
  <2>6. SessionTypeOK'
    BY <2>1, <2>3, <2>4 DEF SessionTypeOK, ReplAlone, clientVars, guestVars, Lines
  <2>7. QED
    BY <2>1, <2>4, <2>5, <2>6, ReplClient DEF Moves
<1>3. ASSUME ReplAlone, pipe' = pipe, performed' = performed, UNCHANGED guestVars,
             \/ Busy /\ \E from \in Ids \cup {Empty} : Respond(from)
             \/ lines' = lines /\ repl' = [at |-> "dead", id |-> 0]
      PROVE  SessionTypeOK' /\ Moves /\ QueueSteps /\ ReplAlone
  <2>1. WireMoves /\ QueueSteps /\ lines' \in Seq(Lines)
        /\ repl' \in [at : {"idle", "dead"}, id : Ids \cup {0}]
    BY <1>3, OverStep
  <2>2. GuestMoves
    BY <1>3 DEF GuestMoves, guestVars, HasRun
  <2>3. SessionTypeOK'
    BY <1>3, <2>1 DEF SessionTypeOK, ReplAlone, clientVars, guestVars, Lines
  <2>4. QED
    BY <1>3, <2>1, <2>2, <2>3, ReplClient DEF Moves
<1>4. ASSUME ReplAlone, UNCHANGED wireVars, performed' = performed,
             repl.at \in OfHelper, NEW at \in OfHelper, ReplGoes(at),
             requestFile' \in {requestFile, repl.id},
             responseFile' \in {responseFile, Empty},
             \/ helper' = helper
             \/ helper' = [at |-> "started", read |-> Empty] /\ requestFile' = repl.id,
             ignored' \in {ignored, ignored \cup {repl.id}}
      PROVE  SessionTypeOK' /\ Moves /\ QueueSteps /\ ReplAlone
  <2>1. WireMoves /\ QueueSteps /\ Busy /\ repl' \in [at : OfHelper, id : Ids \cup {0}]
    BY <1>4, GoesStep
  <2>2. GuestMoves
    BY <1>4, <2>1 DEF GuestMoves, HasRun
  <2>3. /\ helper' \in [at : {"started", "read", "performed", "responded",
                             "exited", "killed"}, read : Ids \cup {Empty, Error}]
        /\ repl.id \in Ids
    BY <1>0, <1>4, <2>1 DEF SessionTypeOK
  <2>4. repl' \in [at : RepliesAre, id : Ids \cup {0}]
    BY <2>1 DEF OfHelper, RepliesAre
  <2>5. SessionTypeOK'
    BY <1>4, <2>3, <2>4 DEF SessionTypeOK, ReplAlone, clientVars, wireVars, RepliesAre
  <2>6. QED
    BY <1>4, <2>1, <2>2, <2>5, ReplClient DEF Moves
<1>5. CASE RemoveResponse
  BY <1>4, <1>5 DEF RemoveResponse, ReplIs, ReplAlone, OfHelper
<1>6. CASE WriteRequest
  BY <1>4, <1>6 DEF WriteRequest, ReplIs, ReplAlone, OfHelper
<1>7. CASE StartTask
  <2>1. repl.at = "start" /\ requestFile = repl.id
    BY <1>7 DEF StartTask, ReplIs, FilesOK
  <2>2. QED
    BY <1>4, <1>7, <2>1 DEF StartTask, ReplAlone, OfHelper
<1>8. CASE Poll
  <2>1. Busy /\ repl.at \in OfHelper
    BY <1>8 DEF Poll, ReplIs, Busy, OfHelper
  <2>2. CASE responseFile # Empty /\ ReplGoes("settle") /\ UNCHANGED lines
    BY <1>4, <1>8, <2>1, <2>2 DEF Poll, ReplAlone, OfHelper, wireVars, guestVars
  <2>3. CASE Respond(Empty)
    BY <1>3, <1>8, <2>1, <2>3 DEF Poll, ReplAlone
  <2>4. QED
    BY <1>8, <2>2, <2>3 DEF Poll
<1>9. CASE ReadAnswer
  <2>1. Busy
    BY <1>9 DEF ReadAnswer, ReplIs, Busy, OfHelper
  <2>2. \E from \in Ids \cup {Empty} : Respond(from)
    BY <1>9 DEF ReadAnswer, SessionTypeOK
  <2>3. QED
    BY <1>3, <1>9, <2>1, <2>2 DEF ReadAnswer, ReplAlone
<1>10. CASE HelperOpThrows
  <2>1. Busy
    BY <1>10 DEF HelperOpThrows, Busy, OfHelper
  <2>2. QED
    BY <1>3, <1>10, <2>1 DEF HelperOpThrows, ReplAlone
<1>11. CASE ReplDies
  BY <1>3, <1>11 DEF ReplDies, ReplAlone, wireVars
<1>12. QED
  BY <1>1, <1>2, <1>5, <1>6, <1>7, <1>8, <1>9, <1>10, <1>11 DEF Repl

HelperAlone == UNCHANGED <<clientVars, wireVars, repl, requestFile, ignored>>

\* Types and moves of every step of the helper.
LEMMA HelperStep ==
    ASSUME SessionTypeOK, QueueOK, FilesOK, Helper
    PROVE  SessionTypeOK' /\ Moves /\ QueueSteps /\ HelperAlone /\ ReplAlone
<1>1. HelperAlone /\ ReplAlone
  BY DEF Helper, HelperReads, HelperPerforms, HelperResponds, HelperExits,
         HelperAlone, ReplAlone
<1>2. WireMoves /\ QueueSteps
  <2>1. /\ UNCHANGED <<kind, outcome, drained, pipe, lines, repl>>
        /\ (Busy' <=> Busy) /\ (Waiting' <=> Waiting)
    BY <1>1 DEF HelperAlone, clientVars, wireVars, Busy, Waiting
  <2>2. WireMoves
    BY <2>1 DEF WireMoves, Queued, Sent
  <2>3. QED
    BY <2>1, <2>2 DEF QueueSteps, QueueOK, Sorted
<1>3. /\ performed \in Seq(Ids)
      /\ helper \in [at : {"started", "read", "performed", "responded",
                           "exited", "killed"}, read : Ids \cup {Empty, Error}]
      /\ requestFile \in Ids \cup {Empty} /\ responseFile \in Ids \cup {Empty, Error}
  BY DEF SessionTypeOK
<1>4. /\ helper' \in [at : {"started", "read", "performed", "responded",
                            "exited", "killed"}, read : Ids \cup {Empty, Error}]
      /\ responseFile' \in Ids \cup {Empty, Error} /\ performed' \in Seq(Ids)
      /\ GuestMoves
  <2>1. CASE HelperReads
    BY <1>1, <1>3, <2>1 DEF HelperReads, GuestMoves, HelperAlone, HasRun
  <2>2. CASE HelperPerforms
    <3>1. /\ helper.at = "read" /\ helper.read \in Ids /\ responseFile' = responseFile
          /\ performed' = Append(performed, helper.read) \/ performed' = performed
      BY <2>2, ReachedIsId DEF HelperPerforms, FilesOK, Held
    <3>2. PICK text \in {helper.read, Error} : helper' = [at |-> "performed", read |-> text]
      BY <2>2 DEF HelperPerforms
    <3>3. /\ performed' \in Seq(Ids)
          /\ \A k : HasRun(k)' => HasRun(k) \/ k = helper.read
          /\ \A k : HasRun(k) => HasRun(k)'
      <4>1. CASE performed' = performed
        BY <1>3, <4>1 DEF HasRun
      <4>2. CASE performed' = Append(performed, helper.read)
        BY <1>3, <3>1, <4>2, OneMorePerformed
      <4>3. QED
        BY <3>1, <4>1, <4>2
    <3>4. QED
      BY <1>1, <1>3, <3>1, <3>2, <3>3 DEF GuestMoves, HelperAlone
  <2>3. CASE HelperResponds
    BY <1>1, <1>3, <2>3 DEF HelperResponds, HelperGoes, GuestMoves, HelperAlone, HasRun
  <2>4. CASE HelperExits
    <3>1. /\ helper' = [helper EXCEPT !.at = "exited"] \/ helper' = [helper EXCEPT !.at = "killed"]
          /\ responseFile' = responseFile /\ performed' = performed
      BY <2>4 DEF HelperExits, HelperGoes
    <3>2. QED
      BY <1>1, <1>3, <3>1 DEF GuestMoves, HelperAlone, HasRun
  <2>5. QED
    BY <2>1, <2>2, <2>3, <2>4 DEF Helper
<1>5. SessionTypeOK'
  BY <1>1, <1>4 DEF SessionTypeOK, HelperAlone, clientVars, wireVars
<1>6. QED
  BY <1>1, <1>2, <1>4, <1>5, ReplClient DEF Moves

---------------------------------------------------------------------------
\* What holds of a request that is over stays so.
LEMMA Stable ==
    ASSUME SessionTypeOK, QueueOK, Moves
    PROVE  \A m : /\ Reached(m) => Reached(m)' /\ kind'[m] = kind[m]
                  /\ Over(m) => Over(m)'
                  /\ HasRun(m) => HasRun(m)'
                  /\ NoAnswer(m) => NoAnswer(m)'
                  /\ Dead(m) => Dead(m)'
                  /\ Reached(m) /\ GivenUp(m) => GivenUp(m)'
<1> USE DEF Moves
<1>1. TAKE m
<1>2. ASSUME Reached(m) PROVE Reached(m)' /\ kind'[m] = kind[m]
  BY <1>2 DEF Reached, OutcomesMove, WireMoves, QueueOK
<1>3. ASSUME Over(m) PROVE Over(m)'
  BY <1>2, <1>3 DEF Over, Reached, WireMoves
<1>4. ASSUME NoAnswer(m) PROVE NoAnswer(m)'
  <2>1. Over(m) /\ Over(m)' /\ m \in 1..Len(outcome)
    BY <1>3, <1>4 DEF NoAnswer, Over, Reached
  <2>2. ~Answered(m)'
    BY <1>4, <2>1, OutcomesDiffer DEF NoAnswer, Answered, OutcomesMove
  <2>3. \A l : Sent(l)' /\ l.id = m => Sent(l)
    BY <2>1 DEF WireMoves, Over
  <2>4. QED
    BY <1>4, <2>1, <2>2, <2>3 DEF NoAnswer
<1>5. ASSUME Dead(m) PROVE Dead(m)'
  BY <1>3, <1>5 DEF Dead, Over, GuestMoves
<1>6. ASSUME Reached(m), GivenUp(m) PROVE GivenUp(m)'
  BY <1>6, OutcomesDiffer DEF Reached, GivenUp, OutcomesMove
<1>7. QED
  BY <1>2, <1>3, <1>4, <1>5, <1>6 DEF GuestMoves

\* A lost request stays lost, and an answer that is sound stays sound.
LEMMA StableSound ==
    ASSUME SessionTypeOK, QueueOK, Moves
    PROVE  /\ \A m : Lost(m) => Lost(m)'
           /\ \A n, m : Sound(n, m) => Sound(n, m)'
<1>1. ASSUME NEW k, Lost(k) PROVE Lost(k)'
  <2>1. PICK m \in 1..(k - 1) : kind[m] = "helper" /\ GivenUp(m) /\ Dead(m)
    BY <1>1 DEF Lost
  <2>2. Reached(m)
    BY <2>1 DEF Dead, Over
  <2>3. kind'[m] = "helper" /\ GivenUp(m)' /\ Dead(m)'
    BY <2>1, <2>2, Stable
  <2>4. QED
    BY <2>3 DEF Lost
<1>2. ASSUME NEW n, NEW m, Sound(n, m) PROVE Sound(n, m)'
  <2>1. CASE m = n /\ HasRun(n)
    BY <2>1, Stable DEF Sound
  <2>2. CASE ~(m = n /\ HasRun(n))
    <3>1. /\ m < n /\ kind[m] = "helper" /\ HasRun(m) /\ NoAnswer(m)
          /\ n \in ignored /\ Dead(n)
      BY <1>2, <2>2 DEF Sound
    <3>2. Reached(m)
      BY <3>1 DEF NoAnswer, Over
    <3>3. kind'[m] = "helper" /\ HasRun(m)' /\ NoAnswer(m)' /\ Dead(n)' /\ n \in ignored'
      BY <3>1, <3>2, Stable DEF Moves, GuestMoves
    <3>4. QED
      BY <3>1, <3>3 DEF Sound
  <2>3. QED
    BY <2>1, <2>2
<1>3. QED
  BY <1>1, <1>2

\* QueueOK is preserved.
LEMMA QueueStep ==
    ASSUME SessionTypeOK, QueueOK, Moves, QueueSteps
    PROVE  QueueOK'
<1> USE DEF Moves
<1>1. ASSUME NEW m, Busy', m = repl'.id PROVE Reached(m)'
  <2>1. CASE Busy
    BY <1>1, <2>1, Stable DEF QueueOK, WireMoves
  <2>2. CASE ~Busy
    BY <1>1, <2>2 DEF Reached, WireMoves, OutcomesMove, QueueOK
  <2>3. QED
    BY <2>1, <2>2
<1>2. Busy' => Reached(repl.id)'
  BY <1>1 DEF Reached
<1>3. \A q : Queued(q)' => q \in 1..Len(outcome')
  BY DEF QueueOK, WireMoves, OutcomesMove
<1>4. \A l : Sent(l)' => Over(l.id)'
  <2>1. TAKE l
  <2>2. CASE Sent(l)
    BY <2>2, Stable DEF QueueOK
  <2>3. CASE Busy /\ ~Busy' /\ l.id = repl.id
    BY <2>3, Stable DEF QueueOK, Over
  <2>4. QED
    BY <2>2, <2>3 DEF WireMoves
<1>5. \A m \in 1..Len(outcome') : Answered(m)' => Over(m)'
  <2>1. SUFFICES ASSUME NEW m \in 1..Len(outcome'), Answered(m)' PROVE Over(m)'
    OBVIOUS
  <2>2. m \in 1..Len(outcome)
    BY <2>1, OutcomesDiffer DEF OutcomesMove, Answered, QueueSteps
  <2>3. CASE Answered(m)
    BY <2>2, <2>3, Stable DEF QueueOK
  <2>4. CASE ~Answered(m)
    <3>1. \E l : Sent(l) /\ l.id = m
      BY <2>1, <2>2, <2>4, OutcomesDiffer DEF OutcomesMove, Answered
    <3>2. QED
      BY <3>1, Stable DEF QueueOK
  <2>5. QED
    BY <2>3, <2>4
<1>6. QED
  BY <1>2, <1>3, <1>4, <1>5 DEF QueueOK, QueueSteps, Sorted

SameGuest == UNCHANGED <<requestFile, responseFile, helper, ignored, performed>>

\* What the actions do to the REPL while the guest stays as it is.
ReplOnly ==
    \/ repl' = repl
    \/ repl'.at \in {"idle", "dead"}
    \/ repl.at = "poll" /\ repl'.at = "settle" /\ repl'.id = repl.id
    \/ ~Busy /\ Queued(repl'.id) /\ repl'.at \in {"remove", "run"}

GuestStays ==
    SameGuest /\ ReplOnly

\* FilesOK over the steps that leave the guest as it is.
LEMMA GuestStaysFiles ==
    ASSUME SessionTypeOK, QueueOK, FilesOK, Moves, GuestStays
    PROVE  FilesOK'
<1>1. /\ requestFile' = requestFile /\ responseFile' = responseFile
      /\ helper' = helper /\ ignored' = ignored /\ performed' = performed
  BY DEF GuestStays, SameGuest
<1>2. \A m : /\ HasRun(m)' <=> HasRun(m)
             /\ Held(m)' <=> Held(m)
             /\ Reached(m) => Reached(m)' /\ kind'[m] = kind[m]
  <2>1. \A m : /\ HasRun(m)' <=> HasRun(m)
               /\ Held(m)' <=> Held(m)
    BY <1>1 DEF HasRun, Held
  <2>2. QED
    BY <2>1, Stable
<1>3. repl'.at \in {"remove", "write"} =>
         \A m : Reached(m) /\ (repl.at \in {"remove", "write"} => m # repl.id) => m # repl'.id
  BY DEF GuestStays, ReplOnly, Reached, QueueOK
<1>4. \A m : /\ HasRun(m)' => Reached(m)'
             /\ m \in ignored' => Reached(m)'
             /\ requestFile' = m /\ m # Empty => Reached(m)' /\ kind'[m] = "helper"
             /\ responseFile' = m /\ m \in Ids => HasRun(m)' /\ kind'[m] = "helper"
  BY <1>1, <1>2 DEF FilesOK
<1>5. \A m : Held(m)' => /\ Reached(m)' /\ kind'[m] = "helper"
                         /\ repl'.at \in {"remove", "write"} => m # repl'.id
                         /\ helper'.at # "read" => HasRun(m)'
  <2>1. SUFFICES ASSUME NEW m, Held(m)
                 PROVE  /\ Reached(m)' /\ kind'[m] = "helper"
                        /\ repl'.at \in {"remove", "write"} => m # repl'.id
                        /\ helper'.at # "read" => HasRun(m)'
    BY <1>2
  <2>2. QED
    BY <1>1, <1>2, <1>3, <2>1 DEF FilesOK
<1>6. /\ repl'.at \in {"start", "poll", "settle"} => requestFile' = repl'.id
      /\ repl'.at \in {"remove", "write"} => requestFile' # repl'.id
      /\ repl'.at \in {"remove", "write", "start"} => repl'.id \notin ignored'
      /\ Alive' => requestFile' # Empty
      /\ helper'.at = "read" => helper'.read # Error
  <2>1. Alive' <=> Alive
    BY <1>1 DEF Alive
  <2>2. CASE repl' = repl
    BY <1>1, <2>1, <2>2 DEF FilesOK
  <2>3. CASE repl'.at \in {"idle", "dead"}
    BY <1>1, <2>1, <2>3 DEF FilesOK
  <2>4. CASE repl.at = "poll" /\ repl'.at = "settle" /\ repl'.id = repl.id
    BY <1>1, <2>1, <2>4 DEF FilesOK
  <2>5. CASE ~Busy /\ Queued(repl'.id) /\ repl'.at \in {"remove", "run"}
    <3>1. repl'.id \notin ignored
      BY <2>5 DEF FilesOK, Reached, QueueOK
    <3>2. requestFile # repl'.id
      <4>1. repl'.id # Empty
        BY <2>5 DEF QueueOK, Empty
      <4>2. QED
        BY <2>5, <4>1 DEF FilesOK, Reached, QueueOK
    <3>3. QED
      BY <1>1, <2>1, <2>5, <3>1, <3>2 DEF FilesOK
  <2>6. QED
    BY <2>2, <2>3, <2>4, <2>5 DEF GuestStays, ReplOnly
<1>7. QED
  BY <1>4, <1>5, <1>6 DEF FilesOK

\* FilesOK is preserved.
LEMMA FilesStep ==
    ASSUME SessionTypeOK, QueueOK, FilesOK, SessionNext, Moves
    PROVE  FilesOK'
<1>1. CASE Client
  <2>1. ClientAlone
    BY <1>1, ClientStep
  <2>2. QED
    BY <2>1, GuestStaysFiles DEF ClientAlone, GuestStays, SameGuest, ReplOnly
<1>2. CASE ReadLine
  <2>1. GuestStays
    BY <1>2, ReadLineStep DEF GuestStays, SameGuest, ReplOnly, guestVars
  <2>2. QED
    BY <2>1, GuestStaysFiles
<1>3. CASE Poll \/ ReadAnswer \/ HelperOpThrows \/ ReplDies
  <2>1. SameGuest
    BY <1>3 DEF Poll, ReadAnswer, HelperOpThrows, ReplDies, SameGuest, guestVars
  <2>2. \/ \E from : Respond(from)
        \/ repl' = [at |-> "dead", id |-> 0]
        \/ repl.at = "poll" /\ repl' = [repl EXCEPT !.at = "settle"]
    BY <1>3 DEF Poll, ReadAnswer, HelperOpThrows, ReplDies, ReplIs, ReplGoes
  <2>3. ReplOnly
    <3>1. CASE \E from : Respond(from)
      BY <3>1 DEF Respond, Idle, ReplOnly
    <3>2. CASE repl' = [at |-> "dead", id |-> 0]
      BY <3>2 DEF ReplOnly
    <3>3. CASE repl.at = "poll" /\ repl' = [repl EXCEPT !.at = "settle"]
      <4>1. repl'.at = "settle" /\ repl'.id = repl.id
        BY <3>3 DEF SessionTypeOK
      <4>2. QED
        BY <3>3, <4>1 DEF ReplOnly
    <3>4. QED
      BY <2>2, <3>1, <3>2, <3>3
  <2>4. QED
    BY <2>1, <2>3, GuestStaysFiles DEF GuestStays
<1>0. \A m : /\ Reached(m) => Reached(m)' /\ kind'[m] = kind[m]
             /\ HasRun(m) => HasRun(m)'
  BY Stable
<1>4. CASE RunScript
  <2>1. /\ repl.at = "run" /\ Busy /\ repl'.at = "idle" /\ requestFile' = requestFile
        /\ responseFile' = responseFile /\ helper' = helper /\ ignored' = ignored
    BY <1>4 DEF RunScript, ReplIs, Respond, Idle, guestVars, Busy
  <2>2. \A m : /\ HasRun(m)' => HasRun(m) \/ m = repl.id
               /\ Held(m)' <=> Held(m)
    <3>1. \A m : Held(m)' <=> Held(m)
      BY <2>1 DEF Held
    <3>2. helper.at = "read" => Held(helper.read)
      BY DEF FilesOK, Held
    <3>3. \A m : HasRun(m)' => HasRun(m) \/ m = repl.id
      <4>1. CASE performed' = performed
        BY <4>1 DEF HasRun
      <4>2. CASE performed' = Append(performed, repl.id)
        <5>1. performed \in Seq(Ids) /\ repl.id \in Ids
          BY <2>1, ReachedIsId DEF SessionTypeOK, QueueOK
        <5>2. QED
          BY <4>2, <5>1, OneMorePerformed
      <4>3. QED
        BY <1>4, <4>1, <4>2 DEF RunScript
    <3>4. QED
      BY <3>1, <3>3
  <2>3. Reached(repl.id)
    BY <2>1 DEF QueueOK
  <2>4. Alive' <=> Alive
    BY <2>1 DEF Alive
  <2>5. QED
    BY <1>0, <2>1, <2>2, <2>3, <2>4 DEF FilesOK
<1>5. CASE RemoveResponse
  <2>1. /\ repl.at = "remove" /\ repl'.at = "write" /\ repl'.id = repl.id
        /\ requestFile' = requestFile /\ responseFile' = Empty
        /\ helper' = helper /\ ignored' = ignored /\ performed' = performed
    BY <1>5 DEF RemoveResponse, ReplIs, ReplGoes, SessionTypeOK
  <2>2. \A m : (HasRun(m)' <=> HasRun(m)) /\ (Held(m)' <=> Held(m))
    BY <2>1 DEF HasRun, Held
  <2>3. Alive' <=> Alive
    BY <2>1 DEF Alive
  <2>4. Empty \notin Ids
    BY DEF Empty, Ids
  <2>5. QED
    BY <1>0, <2>1, <2>2, <2>3, <2>4 DEF FilesOK
<1>6. CASE WriteRequest
  <2>1. /\ repl.at = "write" /\ repl'.at = "start" /\ repl'.id = repl.id
        /\ requestFile' = repl.id /\ responseFile' = responseFile
        /\ helper' = helper /\ ignored' = ignored /\ performed' = performed
    BY <1>6 DEF WriteRequest, ReplIs, ReplGoes, SessionTypeOK
  <2>2. \A m : (HasRun(m)' <=> HasRun(m)) /\ (Held(m)' <=> Held(m))
    BY <2>1 DEF HasRun, Held
  <2>3. Reached(repl.id) /\ kind[repl.id] = "helper"
    BY <2>1 DEF QueueOK, Busy, OfHelper
  <2>4. repl.id # Empty
    BY <2>3, ReachedIsId DEF Empty, Ids
  <2>5. QED
    BY <1>0, <2>1, <2>2, <2>3, <2>4 DEF FilesOK
<1>7. CASE StartTask
  <2>1. /\ repl.at = "start" /\ repl'.at = "poll" /\ repl'.id = repl.id
        /\ requestFile' = requestFile /\ responseFile' = responseFile
        /\ performed' = performed /\ requestFile = repl.id
        /\ \/ helper' = helper /\ ignored' = ignored \cup {repl.id}
           \/ helper' = [at |-> "started", read |-> Empty] /\ ignored' = ignored
    BY <1>7 DEF StartTask, ReplIs, ReplGoes, SessionTypeOK, FilesOK
  <2>2. \A m : (HasRun(m)' <=> HasRun(m)) /\ (Held(m)' => Held(m) /\ helper' = helper)
    BY <2>1 DEF HasRun, Held
  <2>3. Reached(repl.id) /\ repl.id # Empty
    <3>1. Reached(repl.id)
      BY <2>1 DEF QueueOK, Busy, OfHelper
    <3>2. QED
      BY <3>1, ReachedIsId DEF Empty, Ids
  <2>4. \A m : m \in ignored' => Reached(m)'
    BY <1>0, <2>1, <2>3 DEF FilesOK
  <2>5. helper'.at = "read" => helper' = helper
    BY <2>1
  <2>6. QED
    BY <1>0, <2>1, <2>2, <2>3, <2>4, <2>5 DEF FilesOK
<1>8. CASE Helper
  <2>1. /\ repl' = repl /\ requestFile' = requestFile /\ ignored' = ignored
        /\ kind' = kind
    BY <1>8, HelperStep DEF HelperAlone, clientVars
  <2>2. \A m : HasRun(m)' => Reached(m)
    BY DEF FilesOK, Moves, GuestMoves, QueueOK, Held
  <2>3. Alive' => Alive
    BY <1>8 DEF Helper, HelperReads, HelperPerforms, HelperResponds, HelperExits,
                HelperGoes, Alive
  <2>4. helper'.at = "read" => helper'.read # Error
    <3>1. requestFile # Error
      BY DEF SessionTypeOK, Error, Empty, Ids
    <3>2. QED
      BY <3>1 DEF FilesOK, Moves, GuestMoves
  <2>5. \A m : Held(m)' => /\ Reached(m) /\ kind[m] = "helper"
                           /\ repl.at \in {"remove", "write"} => m # repl.id
                           /\ helper'.at # "read" => HasRun(m)'
    <3>1. CASE HelperReads
      <4>1. helper' = [at |-> "read", read |-> requestFile] /\ helper.at = "started"
        BY <3>1 DEF HelperReads
      <4>2. requestFile # Empty
        BY <4>1 DEF FilesOK, Alive
      <4>3. QED
        BY <4>1, <4>2 DEF FilesOK, Held
    <3>2. CASE HelperPerforms
      <4>1. PICK text \in {helper.read, Error} : helper' = [at |-> "performed", read |-> text]
        BY <3>2 DEF HelperPerforms
      <4>2. helper.at = "read" /\ Held(helper.read) /\ helper.read \in Ids
        BY <3>2, ReachedIsId DEF HelperPerforms, FilesOK, Held
      <4>3. \A m : m = helper.read /\ helper'.read # Error => HasRun(m)'
        <5>1. helper'.read # Error => performed' = Append(performed, helper.read)
          BY <3>2 DEF HelperPerforms
        <5>2. performed \in Seq(Ids)
          BY DEF SessionTypeOK
        <5>3. QED
          BY <4>2, <5>1, <5>2, OneMorePerformed
      <4>4. \A m : Held(m)' => m = helper.read /\ helper'.read # Error
        BY <4>1 DEF Held
      <4>5. QED
        BY <4>2, <4>3, <4>4 DEF FilesOK
    <3>3. CASE HelperResponds \/ HelperExits
      <4>1. \A m : Held(m)' => Held(m) /\ (helper'.at # "read" => helper.at # "read")
        BY <3>3 DEF HelperResponds, HelperExits, HelperGoes, Held, SessionTypeOK
      <4>2. QED
        BY <1>0, <4>1 DEF FilesOK
    <3>4. QED
      BY <1>8, <3>1, <3>2, <3>3 DEF Helper
  <2>6. \A m : responseFile' = m /\ m \in Ids => HasRun(m)' /\ kind[m] = "helper"
    <3>1. CASE responseFile' = responseFile
      BY <1>0, <3>1 DEF FilesOK
    <3>2. CASE HelperResponds
      <4>1. responseFile' = helper.read /\ helper.at = "performed"
        BY <3>2 DEF HelperResponds, HelperGoes
      <4>2. Error \notin Ids
        BY DEF Error, Ids
      <4>3. QED
        BY <1>0, <4>1, <4>2 DEF FilesOK, Held
    <3>3. QED
      BY <1>8, <3>1, <3>2 DEF Helper, HelperReads, HelperPerforms, HelperExits
  <2>7. QED
    BY <1>0, <2>1, <2>2, <2>3, <2>4, <2>5, <2>6 DEF FilesOK
<1>9. QED
  BY <1>1, <1>2, <1>3, <1>4, <1>5, <1>6, <1>7, <1>8 DEF SessionNext, Repl

---------------------------------------------------------------------------
\* Whatever is left of a request that is over has not been answered with.
StaleOK ==
    \A m :
       /\ helper.at = "started" /\ requestFile = m /\ Over(m) => NoAnswer(m)
       /\ Held(m) /\ Over(m) => NoAnswer(m)
       /\ repl.at \in {"write", "start", "poll", "settle"} /\ responseFile = m
             /\ m \in Ids /\ m # repl.id => NoAnswer(m)

\* A call whose start of the task is, or is about to be, ignored.
Ignoring == repl.at = "start" \/ (repl.at \in {"poll", "settle"} /\ repl.id \in ignored)

\* The instance alive then is the only one: what it carried out is what it
\* will answer.
IgnoredOK ==
    /\ \A m : Ignoring /\ m = repl.id /\ HasRun(m) =>
                 /\ responseFile \in Ids => responseFile = m
                 /\ Alive => /\ helper.at \in {"performed", "responded"}
                             /\ helper.read \in {m, Error}
    /\ repl.at = "write" \/ Ignoring =>
          (helper.at \in {"started", "read", "performed"} => responseFile = Empty)

\* A call that started its own instance waits for that one.
StartedOK ==
    repl.at \in {"poll", "settle"} /\ repl.id \notin ignored =>
       \/ helper.at = "started"
       \/ helper.at = "read" /\ helper.read = repl.id
       \/ helper.at = "performed" /\ helper.read \in {repl.id, Error}
       \/ helper.at \in {"responded", "exited"} /\ responseFile \in {repl.id, Error}
       \/ helper.at = "killed"

AnswersStep == ReadAnswer /\ helper.at = "exited" /\ Respond(responseFile)

\* A helper call that is over only now has no answer, unless it has just got one.
LEMMA QuietStep ==
    ASSUME SessionTypeOK, QueueOK, FilesOK, SessionNext, Moves, ~AnswersStep
    PROVE  \A m : /\ Reached(m) /\ kind[m] = "helper"
                  /\ Over(m) => NoAnswer(m)
                  => (Over(m)' => NoAnswer(m)')
<1> SUFFICES ASSUME NEW m, Reached(m), kind[m] = "helper", Over(m) => NoAnswer(m), Over(m)'
             PROVE  NoAnswer(m)'
  OBVIOUS
<1>1. CASE Over(m)
  BY <1>1, Stable
<1>2. CASE ~Over(m)
  <2>1. Busy /\ m = repl.id /\ ~(Busy' /\ repl'.id = repl.id)
    BY <1>2 DEF Over
  <2>2. ~Client /\ ~Helper
    BY <2>1, ClientStep, HelperStep DEF ClientAlone, HelperAlone, Busy
  <2>3. Repl /\ ReplAlone
    BY <2>2, ReplStep DEF SessionNext
  <2>4. ~Answered(m)'
    BY <1>2, <2>3, ReplClient DEF QueueOK, Reached, Answered
  <2>5. lines \in Seq(Lines) /\ repl.id \in Ids /\ Empty \in Ids \cup {Empty}
    BY <2>1, ReachedIsId DEF SessionTypeOK, Lines
  <2>6. lines' = lines \/ Respond(Empty)
    <3>1. ~RunScript
      BY <2>1 DEF RunScript, ReplIs, QueueOK, OfHelper
    <3>2. ReadAnswer => Respond(Empty)
      BY DEF AnswersStep, ReadAnswer
    <3>3. QED
      BY <2>3, <3>1, <3>2 DEF Repl, ReadLine, RemoveResponse, WriteRequest, StartTask, Poll,
                              HelperOpThrows, ReplDies, wireVars
  <2>7. \A l : Sent(l)' /\ l.id = m => l.from = Empty
    <3>1. \A l : ~(Sent(l) /\ l.id = m)
      BY <1>2 DEF QueueOK
    <3>2. CASE lines' = lines
      BY <3>1, <3>2 DEF Sent
    <3>3. CASE Respond(Empty)
      BY <2>5, <3>1, <3>3, LineOut
    <3>4. QED
      BY <2>6, <3>2, <3>3
  <2>8. QED
    BY <2>4, <2>7 DEF NoAnswer
<1>3. QED
  BY <1>1, <1>2

\* How the REPL gets to each point of the exchange, and what the helper's
\* instance and its response come from.
LEMMA WayHere ==
    ASSUME SessionTypeOK, QueueOK, FilesOK, SessionNext, repl' # repl
    PROVE  /\ repl'.at \in {"idle", "dead", "run", "remove", "write", "start", "poll", "settle"}
           /\ repl'.at \in {"write", "start", "poll", "settle"} =>
                 repl.at \in OfHelper /\ repl'.id = repl.id /\ UNCHANGED performed
           /\ repl'.at = "write"  => RemoveResponse
           /\ repl'.at = "start"  => WriteRequest /\ repl.at = "write"
           /\ repl'.at = "poll"   => StartTask /\ repl.at = "start"
           /\ repl'.at = "settle" => /\ repl.at = "poll" /\ responseFile # Empty
                                    /\ UNCHANGED guestVars
<1>1. Repl
  BY ClientStep, HelperStep DEF SessionNext, ClientAlone, HelperAlone
<1>2. CASE (\E from : Respond(from)) \/ ReplDies
  <2>1. repl' = [at |-> "idle", id |-> 0] \/ repl' = [at |-> "dead", id |-> 0]
    BY <1>2 DEF Respond, Idle, ReplDies
  <2>2. repl'.at \in {"idle", "dead"}
    BY <2>1
  <2>3. QED
    BY <2>2
<1>3. CASE ReadLine
  BY <1>3, ReadLineStep
<1>4. CASE RemoveResponse
  BY <1>4 DEF RemoveResponse, ReplIs, ReplGoes, SessionTypeOK, OfHelper
<1>5. CASE WriteRequest
  BY <1>5 DEF WriteRequest, ReplIs, ReplGoes, SessionTypeOK, OfHelper
<1>6. CASE StartTask
  BY <1>6 DEF StartTask, ReplIs, ReplGoes, SessionTypeOK, OfHelper
<1>7. CASE Poll /\ ReplGoes("settle")
  <2>1. /\ repl.at = "poll" /\ UNCHANGED guestVars /\ UNCHANGED performed
        /\ responseFile # Empty \/ Respond(Empty)
    BY <1>7 DEF Poll, ReplIs
  <2>2. repl'.at = "settle" /\ repl'.id = repl.id
    BY <1>7 DEF ReplGoes, SessionTypeOK
  <2>3. responseFile # Empty
    BY <2>1, <2>2 DEF Respond, Idle
  <2>4. QED
    BY <2>1, <2>2, <2>3 DEF OfHelper
<1>8. QED
  BY <1>1, <1>2, <1>3, <1>4, <1>5, <1>6, <1>7
     DEF Repl, RunScript, Poll, ReadAnswer, HelperOpThrows

LEMMA HandOver ==
    ASSUME SessionTypeOK, SessionNext
    PROVE  /\ \A m : Held(m)' => Held(m) \/ (helper.at = "started" /\ requestFile = m)
           /\ \/ responseFile' = responseFile
              \/ RemoveResponse /\ responseFile' = Empty
              \/ HelperResponds /\ responseFile' = helper.read /\ helper.at = "performed"
<1>1. CASE helper' = helper
  <2>1. \A m : Held(m)' <=> Held(m)
    BY <1>1 DEF Held
  <2>2. ~HelperResponds
    BY <1>1 DEF HelperResponds, HelperGoes, SessionTypeOK
  <2>3. responseFile' = responseFile \/ (RemoveResponse /\ responseFile' = Empty)
    BY <2>2 DEF SessionNext, Client, Request, Receive, TimeOut, Repl, ReadLine, RunScript,
       RemoveResponse, WriteRequest, StartTask, Poll, ReadAnswer, HelperOpThrows,
       ReplDies, Helper, HelperReads, HelperPerforms, HelperExits, guestVars
  <2>4. QED
    BY <2>1, <2>3
<1>2. CASE StartTask
  <2>1. (helper' = helper \/ helper'.at = "started") /\ responseFile' = responseFile
    BY <1>2 DEF StartTask
  <2>2. QED
    BY <2>1 DEF Held
<1>3. CASE Helper
  <2>1. CASE HelperReads
    BY <2>1 DEF HelperReads, Held
  <2>2. CASE HelperPerforms
    <3>1. PICK text \in {helper.read, Error} : helper' = [at |-> "performed", read |-> text]
      BY <2>2 DEF HelperPerforms
    <3>2. QED
      BY <2>2, <3>1 DEF HelperPerforms, Held
  <2>3. CASE HelperResponds
    <3>1. /\ helper.at = "performed" /\ helper'.at = "responded" /\ helper'.read = helper.read
          /\ responseFile' = helper.read
      BY <2>3 DEF HelperResponds, HelperGoes, SessionTypeOK
    <3>2. QED
      BY <2>3, <3>1 DEF Held
  <2>4. CASE HelperExits
    <3>1. helper'.at \in {"exited", "killed"} /\ responseFile' = responseFile
      BY <2>4 DEF HelperExits, HelperGoes, SessionTypeOK
    <3>2. QED
      BY <3>1 DEF Held
  <2>5. QED
    BY <1>3, <2>1, <2>2, <2>3, <2>4 DEF Helper
<1>4. QED
  BY <1>1, <1>2, <1>3 DEF SessionNext, Client, Request, Receive, TimeOut, Repl, ReadLine,
     RunScript, RemoveResponse, WriteRequest, Poll, ReadAnswer, HelperOpThrows, ReplDies,
     guestVars

\* StaleOK is preserved.
LEMMA StaleStep ==
    ASSUME SessionTypeOK, QueueOK, FilesOK, StaleOK, SessionNext, Moves, FilesOK'
    PROVE  StaleOK'
<1>1. CASE AnswersStep
  <2>1. helper' = helper /\ helper.at = "exited" /\ repl'.at = "idle"
    BY <1>1 DEF AnswersStep, ReadAnswer, guestVars, Respond, Idle
  <2>2. \A m : ~Held(m)'
    BY <2>1 DEF Held
  <2>3. QED
    BY <2>1, <2>2 DEF StaleOK
<1>2. CASE ~AnswersStep
  <2>1. ASSUME NEW m, Reached(m), kind[m] = "helper", Over(m) => NoAnswer(m), Over(m)'
        PROVE  NoAnswer(m)'
    BY <1>2, <2>1, QuietStep
  <2>2. ASSUME NEW m, helper'.at = "started", requestFile' = m, Over(m)'
        PROVE  NoAnswer(m)'
    <3>1. requestFile' # Empty
      BY <2>2 DEF FilesOK, Alive
    <3>2. kind'[m] = "helper"
      BY <2>2, <3>1 DEF FilesOK
    <3>3. CASE helper.at = "started" /\ requestFile' = requestFile
      BY <2>1, <2>2, <3>1, <3>3 DEF FilesOK, StaleOK
    <3>4. CASE Busy /\ requestFile' = repl.id
      <4>1. Reached(m) /\ ~Over(m)
        BY <2>2, <3>4 DEF QueueOK, Over
      <4>2. kind[m] = "helper"
        BY <3>2, <4>1, Stable
      <4>3. QED
        BY <2>1, <2>2, <4>1, <4>2
    <3>5. QED
      BY <2>2, <3>3, <3>4 DEF Moves, GuestMoves
  <2>3. ASSUME NEW m, Held(m)', Over(m)'
        PROVE  NoAnswer(m)'
    <3>1. CASE Held(m)
      BY <2>1, <2>3, <3>1 DEF FilesOK, StaleOK
    <3>2. CASE helper.at = "started" /\ requestFile = m
      <4>1. m # Empty
        BY <3>2 DEF FilesOK, Alive
      <4>2. QED
        BY <2>1, <2>3, <3>2, <4>1 DEF FilesOK, StaleOK
    <3>3. QED
      BY <2>3, <3>1, <3>2, HandOver
  <2>4. ASSUME NEW m, repl'.at \in {"write", "start", "poll", "settle"}, responseFile' = m,
               m \in Ids, m # repl'.id
        PROVE  NoAnswer(m)'
    <3>1. /\ Busy /\ repl'.id = repl.id
          /\ ~RemoveResponse => repl.at \in {"write", "start", "poll", "settle"}
      <4>1. CASE repl' = repl
        BY <2>4, <4>1 DEF Busy, OfHelper
      <4>2. CASE repl' # repl
        BY <2>4, <4>2, WayHere DEF Busy
      <4>3. QED
        BY <4>1, <4>2
    <3>2. Empty \notin Ids /\ Error \notin Ids
      BY DEF Empty, Error, Ids
    <3>3. CASE responseFile' = responseFile
      <4>1. ~RemoveResponse
        BY <2>4, <3>2 DEF RemoveResponse
      <4>2. QED
        BY <2>4, <3>1, <3>3, <4>1, Stable DEF StaleOK
    <3>4. CASE responseFile' = helper.read /\ helper.at = "performed"
      <4>1. Held(m)
        BY <2>4, <3>2, <3>4 DEF Held
      <4>2. Over(m)
        BY <2>4, <3>1, <4>1 DEF FilesOK, Over
      <4>3. QED
        BY <4>1, <4>2, Stable DEF StaleOK
    <3>5. QED
      BY <2>4, <3>2, <3>3, <3>4, HandOver
  <2>5. QED
    BY <2>2, <2>3, <2>4 DEF StaleOK
<1>3. QED
  BY <1>1, <1>2

\* No step of the REPL leaves it where it was.
LEMMA ReplGoesOn ==
    ASSUME SessionTypeOK, Repl
    PROVE  repl' # repl /\ (~RunScript => performed' = performed)
<1>1. CASE (RunScript \/ Poll \/ ReadAnswer \/ HelperOpThrows) /\ \E from : Respond(from)
  <2>1. repl'.at = "idle" /\ repl.at # "idle"
    BY <1>1 DEF RunScript, Poll, ReadAnswer, HelperOpThrows, ReplIs, Respond, Idle
  <2>2. QED
    BY <1>1, <2>1 DEF Poll, ReadAnswer, HelperOpThrows
<1>2. CASE ReadLine \/ ReplDies
  BY <1>2 DEF ReadLine, ReplDies, ReplIs
<1>3. CASE RemoveResponse \/ WriteRequest \/ StartTask
  BY <1>3 DEF RemoveResponse, WriteRequest, StartTask, ReplIs, ReplGoes, SessionTypeOK
<1>4. CASE Poll /\ ReplGoes("settle")
  <2>1. repl.at = "poll" /\ repl'.at = "settle" /\ performed' = performed
    BY <1>4 DEF Poll, ReplIs, ReplGoes, SessionTypeOK
  <2>2. QED
    BY <2>1
<1>5. QED
  BY <1>1, <1>2, <1>3, <1>4 DEF Repl, RunScript, Poll, ReadAnswer, HelperOpThrows

\* A request is carried out twice only if an earlier one is lost for it.
RepeatsOK ==
    /\ \A m : Twice(m) => kind[m] = "helper" /\ Lost(m)
    /\ \A m : HasRun(m) =>
                 /\ m = repl.id => repl.at \notin {"run", "remove", "write"}
                 /\ helper.at = "started" /\ requestFile = m => Lost(m)
                 /\ helper.at = "read" /\ helper.read = m => Lost(m)
                 /\ repl.at = "start" /\ m = repl.id => Lost(m)
    /\ \A m : /\ repl.at = "start" /\ m = repl.id
              /\ helper.at = "started" \/ (helper.at = "read" /\ helper.read = m)
              => Lost(m)

\* IgnoredOK is preserved.
LEMMA IgnoredStep ==
    ASSUME SessionTypeOK, QueueOK, FilesOK, IgnoredOK, RepeatsOK, SessionNext, Moves
    PROVE  IgnoredOK'
<1>1. CASE Client
  <2>1. ClientAlone
    BY <1>1, ClientStep
  <2>2. \A m : HasRun(m)' <=> HasRun(m)
    BY <2>1, ClientGuest
  <2>3. (Ignoring' <=> Ignoring) /\ (Alive' <=> Alive)
    BY <2>1 DEF ClientAlone, Ignoring, Alive
  <2>4. QED
    BY <2>1, <2>2, <2>3 DEF ClientAlone, IgnoredOK
<1>2. CASE Repl
  <2>1. repl' # repl
    BY <1>2, ReplGoesOn
  <2>2. CASE repl'.at = "write"
    <3>1. RemoveResponse
      BY <2>1, <2>2, WayHere
    <3>2. responseFile' = Empty /\ ~Ignoring'
      BY <2>2, <3>1 DEF RemoveResponse, Ignoring
    <3>3. QED
      BY <3>2 DEF IgnoredOK
  <2>3. CASE repl'.at = "start"
    <3>1. /\ WriteRequest /\ repl.at = "write" /\ repl'.id = repl.id
          /\ helper' = helper /\ responseFile' = responseFile /\ performed' = performed
      BY <2>1, <2>3, WayHere DEF WriteRequest
    <3>2. \A m : HasRun(m)' <=> HasRun(m)
      BY <3>1 DEF HasRun
    <3>3. ~HasRun(repl.id)
      BY <3>1 DEF RepeatsOK
    <3>4. QED
      BY <3>1, <3>2, <3>3 DEF IgnoredOK
  <2>4. CASE Ignoring' /\ repl'.at \in {"poll", "settle"}
    <3>1. /\ Ignoring /\ repl'.id = repl.id
          /\ helper' = helper /\ responseFile' = responseFile /\ performed' = performed
      <4>1. repl'.id \in ignored'
        BY <2>4 DEF Ignoring
      <4>2. CASE repl'.at = "poll"
        <5>1. StartTask /\ repl.at = "start" /\ repl'.id = repl.id /\ performed' = performed
          BY <2>1, <4>2, WayHere
        <5>2. repl.id \notin ignored
          BY <5>1 DEF FilesOK
        <5>3. QED
          BY <4>1, <5>1, <5>2 DEF StartTask, Ignoring
      <4>3. CASE repl'.at = "settle"
        <5>1. /\ repl.at = "poll" /\ repl'.id = repl.id /\ performed' = performed
              /\ UNCHANGED guestVars
          BY <2>1, <4>3, WayHere
        <5>2. QED
          BY <4>1, <5>1 DEF guestVars, Ignoring
      <4>4. QED
        BY <2>4, <4>2, <4>3
    <3>2. \A m : HasRun(m)' <=> HasRun(m)
      BY <3>1 DEF HasRun
    <3>3. Alive' <=> Alive
      BY <3>1 DEF Alive
    <3>4. QED
      BY <2>4, <3>1, <3>2, <3>3 DEF IgnoredOK
  <2>5. CASE repl'.at # "write" /\ ~Ignoring'
    BY <2>5 DEF IgnoredOK
  <2>6. QED
    BY <2>2, <2>3, <2>4, <2>5 DEF Ignoring
<1>3. CASE Helper
  <2>1. repl' = repl /\ ignored' = ignored /\ (Ignoring' <=> Ignoring)
    BY <1>3, HelperStep DEF HelperAlone, Ignoring
  <2>2. CASE HelperReads
    <3>1. /\ helper.at = "started" /\ helper'.at = "read" /\ responseFile' = responseFile
          /\ performed' = performed
      BY <2>2 DEF HelperReads
    <3>2. \A m : HasRun(m)' <=> HasRun(m)
      BY <3>1 DEF HasRun
    <3>3. QED
      BY <2>1, <3>1, <3>2 DEF IgnoredOK, Alive
  <2>3. CASE HelperPerforms
    <3>1. PICK text \in {helper.read, Error} : helper' = [at |-> "performed", read |-> text]
      BY <2>3 DEF HelperPerforms
    <3>2. helper.at = "read" /\ responseFile' = responseFile
      BY <2>3 DEF HelperPerforms
    <3>3. \A m : HasRun(m)' => HasRun(m) \/ (m = helper.read)
      <4>1. helper.at = "read" /\ helper.read \in Ids
        BY <2>3, ReachedIsId DEF HelperPerforms, FilesOK, Held
      <4>2. performed \in Seq(Ids)
        BY DEF SessionTypeOK
      <4>3. performed' = performed \/ performed' = Append(performed, helper.read)
        BY <2>3 DEF HelperPerforms
      <4>4. CASE performed' = performed
        BY <4>4 DEF HasRun
      <4>5. CASE performed' = Append(performed, helper.read)
        BY <4>1, <4>2, <4>5, OneMorePerformed
      <4>6. QED
        BY <4>3, <4>4, <4>5
    <3>4. \A m : Ignoring /\ m = repl.id => ~HasRun(m)
      BY <3>2 DEF IgnoredOK, Alive
    <3>5. Empty \notin Ids
      BY DEF Empty, Ids
    <3>6. QED
      BY <2>1, <3>1, <3>2, <3>3, <3>4, <3>5 DEF IgnoredOK
  <2>4. CASE HelperResponds
    <3>1. /\ helper.at = "performed" /\ helper'.at = "responded" /\ helper'.read = helper.read
          /\ responseFile' = helper.read /\ performed' = performed
      BY <2>4 DEF HelperResponds, HelperGoes, SessionTypeOK
    <3>2. \A m : HasRun(m)' <=> HasRun(m)
      BY <3>1 DEF HasRun
    <3>3. Error \notin Ids
      BY DEF Error, Ids
    <3>4. QED
      BY <2>1, <3>1, <3>2, <3>3 DEF IgnoredOK, Alive
  <2>5. CASE HelperExits
    <3>1. /\ helper'.at \in {"exited", "killed"} /\ responseFile' = responseFile
          /\ performed' = performed
      BY <2>5 DEF HelperExits, HelperGoes, SessionTypeOK
    <3>2. \A m : HasRun(m)' <=> HasRun(m)
      BY <3>1 DEF HasRun
    <3>3. ~Alive'
      BY <3>1 DEF Alive
    <3>4. QED
      BY <2>1, <3>1, <3>2, <3>3 DEF IgnoredOK
  <2>6. QED
    BY <1>3, <2>2, <2>3, <2>4, <2>5 DEF Helper
<1>4. QED
  BY <1>1, <1>2, <1>3 DEF SessionNext

\* StartedOK is preserved.
LEMMA StartedStep ==
    ASSUME SessionTypeOK, QueueOK, FilesOK, StartedOK, SessionNext, Moves
    PROVE  StartedOK'
<1> SUFFICES ASSUME repl'.at \in {"poll", "settle"}, repl'.id \notin ignored' PROVE StartedOK'
  BY DEF StartedOK
<1>1. CASE Client
  <2>1. ClientAlone
    BY <1>1, ClientStep
  <2>2. QED
    BY <2>1 DEF ClientAlone, StartedOK
<1>2. CASE Repl
  <2>1. repl' # repl
    BY <1>2, ReplGoesOn
  <2>2. CASE repl'.at = "poll"
    <3>1. StartTask /\ repl'.id = repl.id
      BY <2>1, <2>2, WayHere
    <3>2. helper' = [at |-> "started", read |-> Empty]
      BY <3>1 DEF StartTask
    <3>3. QED
      BY <3>2 DEF StartedOK
  <2>3. CASE repl'.at = "settle"
    <3>1. repl.at = "poll" /\ repl'.id = repl.id /\ UNCHANGED guestVars
      BY <2>1, <2>3, WayHere
    <3>2. QED
      BY <3>1 DEF guestVars, StartedOK
  <2>4. QED
    BY <2>2, <2>3
<1>3. CASE Helper
  <2>1. repl' = repl /\ ignored' = ignored /\ requestFile = repl.id
    BY <1>3, HelperStep DEF HelperAlone, FilesOK
  <2>2. CASE HelperReads
    BY <2>1, <2>2 DEF HelperReads, StartedOK
  <2>3. CASE HelperPerforms
    <3>1. PICK text \in {helper.read, Error} : helper' = [at |-> "performed", read |-> text]
      BY <2>3 DEF HelperPerforms
    <3>2. QED
      BY <2>1, <2>3, <3>1 DEF HelperPerforms, StartedOK
  <2>4. CASE HelperResponds
    <3>1. /\ helper.at = "performed" /\ helper'.at = "responded"
          /\ responseFile' = helper.read
      BY <2>4 DEF HelperResponds, HelperGoes, SessionTypeOK
    <3>2. QED
      BY <2>1, <3>1 DEF StartedOK
  <2>5. CASE HelperExits
    <3>1. /\ helper'.at = "killed" \/ (helper.at = "responded" /\ helper'.at = "exited")
          /\ responseFile' = responseFile
      BY <2>5 DEF HelperExits, HelperGoes, SessionTypeOK
    <3>2. QED
      BY <2>1, <3>1 DEF StartedOK
  <2>6. QED
    BY <1>3, <2>2, <2>3, <2>4, <2>5 DEF Helper
<1>4. QED
  BY <1>1, <1>2, <1>3 DEF SessionNext

\* RepeatsOK is preserved: an instance that reads the next call's request has
\* lost its own.
LEMMA RepeatsStep ==
    ASSUME SessionTypeOK, QueueOK, FilesOK, StaleOK, RepeatsOK, SessionNext, Moves
    PROVE  RepeatsOK'
<1>0. \A m : /\ Lost(m) => Lost(m)'
             /\ Reached(m) => kind'[m] = kind[m]
  BY Stable, StableSound
<1>1. \A m : Twice(m) => HasRun(m)
  BY DEF Twice, HasRun
<1>2. \A m : Twice(m) => kind'[m] = "helper" /\ Lost(m)'
  BY <1>0, <1>1 DEF RepeatsOK, FilesOK
<1>3. CASE Client
  <2>1. ClientAlone
    BY <1>3, ClientStep
  <2>2. \A m : (HasRun(m)' <=> HasRun(m)) /\ (Twice(m)' <=> Twice(m))
    BY <2>1 DEF ClientAlone, HasRun, Twice
  <2>3. QED
    BY <1>0, <1>2, <2>1, <2>2 DEF ClientAlone, RepeatsOK
<1>4. CASE RunScript
  <2>1. /\ repl.at = "run" /\ Busy /\ repl'.at = "idle"
        /\ requestFile' = requestFile /\ helper' = helper
        /\ performed' = performed \/ performed' = Append(performed, repl.id)
    BY <1>4 DEF RunScript, ReplIs, Respond, Idle, guestVars, Busy
  <2>2. /\ kind[repl.id] # "helper" /\ ~HasRun(repl.id) /\ repl.id \in Ids
        /\ performed \in Seq(Ids)
    BY <2>1, ReachedIsId DEF QueueOK, OfHelper, RepeatsOK, SessionTypeOK
  <2>3. \A m : /\ HasRun(m)' => HasRun(m) \/ m = repl.id
               /\ Twice(m)' => Twice(m)
    <3>1. CASE performed' = performed
      BY <3>1 DEF HasRun, Twice
    <3>2. CASE performed' = Append(performed, repl.id)
      BY <2>2, <3>2, OneMorePerformed
    <3>3. QED
      BY <2>1, <3>1, <3>2
  <2>4. ~(helper.at = "started" /\ requestFile = repl.id)
    BY <2>2 DEF FilesOK, Alive
  <2>5. ~(helper.at = "read" /\ helper.read = repl.id)
    BY <2>2 DEF FilesOK, Held
  <2>6. QED
    BY <1>0, <1>2, <2>1, <2>3, <2>4, <2>5 DEF RepeatsOK
<1>5. CASE Repl /\ ~RunScript
  <2>1. performed' = performed /\ repl' # repl
    BY <1>5, ReplGoesOn
  <2>2. \A m : (HasRun(m)' <=> HasRun(m)) /\ (Twice(m)' <=> Twice(m))
    BY <2>1 DEF HasRun, Twice
  <2>3. ASSUME NEW m, HasRun(m), m = repl'.id PROVE repl'.at \notin {"run", "remove", "write"}
    <3>1. CASE ReadLine
      BY <2>3, <3>1, ReadLineStep DEF FilesOK, Reached, QueueOK
    <3>2. repl'.at = "write" => repl.at = "remove" /\ repl'.id = repl.id
      BY <2>1, WayHere DEF RemoveResponse, ReplIs
    <3>3. ~ReadLine => repl'.at \notin {"run", "remove"}
      <4>1. CASE \E from : Respond(from)
        BY <4>1 DEF Respond, Idle
      <4>2. CASE ReplDies
        BY <4>2 DEF ReplDies
      <4>3. CASE RemoveResponse \/ WriteRequest \/ StartTask
        BY <4>3 DEF RemoveResponse, WriteRequest, StartTask, ReplGoes, SessionTypeOK
      <4>4. CASE ReplGoes("settle")
        BY <4>4 DEF ReplGoes, SessionTypeOK
      <4>5. QED
        BY <1>5, <4>1, <4>2, <4>3, <4>4 DEF Repl, Poll, ReadAnswer, HelperOpThrows
    <3>4. QED
      BY <2>3, <3>1, <3>2, <3>3 DEF RepeatsOK
  <2>4. \/ helper' = helper /\ requestFile' = requestFile
        \/ WriteRequest \/ StartTask
    BY <1>5 DEF Repl, ReadLine, RunScript, RemoveResponse, Poll, ReadAnswer, HelperOpThrows,
                ReplDies, guestVars
  <2>5. ASSUME NEW m, HasRun(m)
        PROVE  /\ helper'.at = "started" /\ requestFile' = m => Lost(m)
               /\ helper'.at = "read" /\ helper'.read = m => Lost(m)
    <3>1. CASE helper' = helper /\ requestFile' = requestFile
      BY <2>5, <3>1 DEF RepeatsOK
    <3>2. CASE WriteRequest
      <4>1. requestFile' = repl.id /\ repl.at = "write" /\ helper' = helper
        BY <3>2 DEF WriteRequest, ReplIs
      <4>2. QED
        BY <2>5, <4>1 DEF RepeatsOK
    <3>3. CASE StartTask
      <4>1. /\ requestFile' = requestFile /\ requestFile = repl.id /\ repl.at = "start"
            /\ helper' = helper \/ helper'.at = "started"
        BY <3>3 DEF StartTask, ReplIs, FilesOK
      <4>2. QED
        BY <2>5, <4>1 DEF RepeatsOK
    <3>4. QED
      BY <2>4, <3>1, <3>2, <3>3
  <2>6. ASSUME repl'.at = "start"
        PROVE  \A m : m = repl'.id =>
                         /\ ~HasRun(m)
                         /\ helper'.at = "started" => Lost(m)'
                         /\ ~(helper'.at = "read" /\ helper'.read = m)
    <3>1. WriteRequest /\ repl.at = "write" /\ repl'.id = repl.id /\ Busy
      BY <2>1, <2>6, WayHere DEF Busy, OfHelper
    <3>2. helper' = helper /\ requestFile' = repl.id
      BY <3>1 DEF WriteRequest
    <3>3. ~HasRun(repl.id)
      BY <3>1 DEF RepeatsOK
    <3>4. ~(helper.at = "read" /\ helper.read = repl.id)
      BY <3>1 DEF FilesOK, Held
    <3>5. ASSUME NEW m, m = repl.id, helper.at = "started" PROVE Lost(m)'
      <4>1. PICK r : r = requestFile
        OBVIOUS
      <4>2. /\ Reached(r) /\ kind[r] = "helper" /\ r # m /\ Over(r)
        BY <3>1, <3>5, <4>1 DEF FilesOK, Alive, Over
      <4>3. NoAnswer(r)
        BY <3>5, <4>1, <4>2 DEF StaleOK
      <4>4. r \in 1..(m - 1) /\ m \in 1..Len(outcome) /\ r \in 1..Len(outcome)
            /\ Len(outcome) \in Nat
        BY <3>1, <3>5, <4>2 DEF Reached, QueueOK, SessionTypeOK
      <4>5. GivenUp(r)
        <5>1. outcome[r] \in Outcomes
          BY <4>4 DEF SessionTypeOK, Outcomes
        <5>2. outcome[r] # InProgress /\ ~Answered(r)
          BY <4>3, <4>4 DEF QueueOK, NoAnswer
        <5>3. QED
          BY <5>1, <5>2 DEF Outcomes, GivenUp, Answered
      <4>6. CASE HasRun(r)
        <5>1. Lost(r)
          BY <3>5, <4>1, <4>6 DEF RepeatsOK
        <5>2. Lost(m)
          BY <4>4, <5>1 DEF Lost
        <5>3. QED
          BY <1>0, <5>2
      <4>7. CASE ~HasRun(r)
        <5>1. Over(r)' /\ kind'[r] = "helper" /\ GivenUp(r)' /\ ~HasRun(r)'
          BY <2>2, <4>2, <4>5, <4>7, Stable
        <5>2. Dead(r)'
          BY <3>2, <3>5, <4>2, <5>1 DEF Dead
        <5>3. QED
          BY <4>4, <5>1, <5>2 DEF Lost
      <4>8. QED
        BY <4>6, <4>7
    <3>6. QED
      BY <3>1, <3>2, <3>3, <3>4, <3>5
  <2>7. QED
    BY <1>0, <1>2, <2>2, <2>3, <2>5, <2>6 DEF RepeatsOK
<1>6. CASE Helper
  <2>1. repl' = repl /\ requestFile' = requestFile
    BY <1>6, HelperStep DEF HelperAlone
  <2>2. CASE HelperReads
    <3>1. /\ helper.at = "started" /\ helper' = [at |-> "read", read |-> requestFile]
          /\ performed' = performed
      BY <2>2 DEF HelperReads
    <3>2. \A m : (HasRun(m)' <=> HasRun(m)) /\ (Twice(m)' <=> Twice(m))
      BY <3>1 DEF HasRun, Twice
    <3>3. QED
      BY <1>0, <1>2, <2>1, <3>1, <3>2 DEF RepeatsOK
  <2>3. CASE HelperPerforms
    <3>1. helper'.at = "performed" /\ helper.at = "read"
      BY <2>3 DEF HelperPerforms
    <3>2. /\ Held(helper.read) /\ helper.read \in Ids /\ performed \in Seq(Ids)
          /\ kind[helper.read] = "helper" /\ kind'[helper.read] = "helper"
      BY <1>0, <3>1, ReachedIsId DEF FilesOK, Held, SessionTypeOK
    <3>3. \A m : /\ HasRun(m)' => HasRun(m) \/ m = helper.read
                 /\ Twice(m)' => Twice(m) \/ (m = helper.read /\ HasRun(m))
      <4>1. CASE performed' = performed
        BY <4>1 DEF HasRun, Twice
      <4>2. CASE performed' = Append(performed, helper.read)
        BY <3>2, <4>2, OneMorePerformed
      <4>3. QED
        BY <2>3, <4>1, <4>2 DEF HelperPerforms
    <3>4. \A m : Twice(m)' => kind'[m] = "helper" /\ Lost(m)'
      BY <1>0, <1>2, <3>1, <3>2, <3>3 DEF RepeatsOK
    <3>5. repl.at \in {"run", "remove", "write"} => helper.read # repl.id
      BY <3>2 DEF FilesOK, QueueOK, Busy, OfHelper
    <3>6. \A m : HasRun(m)' =>
                   /\ m = repl.id => repl.at \notin {"run", "remove", "write"}
                   /\ repl.at = "start" /\ m = repl.id => Lost(m)'
      BY <1>0, <3>1, <3>3, <3>5 DEF RepeatsOK
    <3>7. QED
      BY <2>1, <3>1, <3>4, <3>6 DEF RepeatsOK
  <2>4. CASE HelperResponds \/ HelperExits
    <3>1. helper'.at \notin {"started", "read"} /\ performed' = performed
      BY <2>4 DEF HelperResponds, HelperExits, HelperGoes, SessionTypeOK
    <3>2. \A m : (HasRun(m)' <=> HasRun(m)) /\ (Twice(m)' <=> Twice(m))
      BY <3>1 DEF HasRun, Twice
    <3>3. QED
      BY <1>0, <1>2, <2>1, <3>1, <3>2 DEF RepeatsOK
  <2>5. QED
    BY <1>6, <2>2, <2>3, <2>4 DEF Helper
<1>7. QED
  BY <1>3, <1>4, <1>5, <1>6 DEF SessionNext, Repl

\* Every answer, the one on its way too, is the call's own or a lost one's.
AnswersOK ==
    /\ \A n \in 1..Len(outcome), m \in Ids : outcome[n] = Answer(m) => Sound(n, m)
    /\ \A l : Sent(l) /\ l.from # Empty => Sound(l.id, l.from)

\* The line a step of the REPL writes.
LEMMA SoundLine ==
    ASSUME SessionTypeOK, QueueOK, FilesOK, StaleOK, IgnoredOK, StartedOK, AnswersOK,
           Repl, Moves, NEW l, Sent(l)', ~Sent(l), l.from # Empty
    PROVE  Sound(l.id, l.from)'
<1>0. /\ lines \in Seq(Lines) /\ (Busy => repl.id \in Ids) /\ performed \in Seq(Ids)
      /\ Busy /\ ~Busy' /\ l.id = repl.id
  BY ReachedIsId DEF SessionTypeOK, QueueOK, Lines, Moves, WireMoves
<1>1. CASE lines' = lines
  BY <1>1 DEF Sent
<1>2. ASSUME Respond(Empty) PROVE FALSE
  <2>1. Empty \in Ids \cup {Empty}
    OBVIOUS
  <2>2. l = [id |-> repl.id, from |-> Empty]
    BY <1>0, <1>2, <2>1, LineOut
  <2>3. QED
    BY <2>2
<1>3. CASE RunScript
  <2>1. performed' = Append(performed, repl.id) /\ Respond(repl.id)
    BY <1>2, <1>3 DEF RunScript
  <2>2. l = [id |-> repl.id, from |-> repl.id]
    BY <1>0, <2>1, LineOut
  <2>3. HasRun(l.id)' /\ l.from = l.id
    BY <1>0, <2>1, <2>2, OneMorePerformed
  <2>4. QED
    BY <2>3 DEF Sound
<1>4. CASE ReadAnswer
  <2>1. /\ repl.at = "settle" /\ helper.at = "exited" /\ responseFile # Error
        /\ Respond(responseFile)
        /\ helper' = helper /\ ignored' = ignored /\ performed' = performed
    BY <1>2, <1>4 DEF ReadAnswer, ReplIs, guestVars
  <2>2. responseFile \in Ids \cup {Empty}
    BY <2>1 DEF SessionTypeOK
  <2>3. l = [id |-> repl.id, from |-> responseFile]
    BY <1>0, <2>1, <2>2, LineOut
  <2>4. PICK m \in Ids : responseFile = m /\ l.from = m /\ HasRun(m) /\ kind[m] = "helper"
    <3>1. responseFile \in Ids
      BY <2>2, <2>3
    <3>2. QED
      BY <2>3, <3>1 DEF FilesOK
  <2>5. PICK n \in Ids : n = repl.id
    BY <1>0
  <2>6. Reached(n)
    BY <1>0, <2>5 DEF QueueOK
  <2>7. HasRun(m)' /\ l.id = n
    BY <2>3, <2>4, <2>5, Stable
  <2>8. CASE m = n
    BY <2>4, <2>7, <2>8 DEF Sound
  <2>9. CASE m # n
    <3>1. n \in ignored
      BY <2>1, <2>4, <2>5, <2>9 DEF StartedOK
    <3>2. ~HasRun(n)
      BY <2>1, <2>4, <2>5, <2>9, <3>1 DEF IgnoredOK, Ignoring
    <3>3. NoAnswer(m) /\ Reached(m)
      BY <2>1, <2>4, <2>5, <2>9 DEF StaleOK, NoAnswer, Over
    <3>4. m < n
      BY <1>0, <2>5, <2>9, <3>3 DEF Reached, Ids
    <3>5. NoAnswer(m)' /\ kind'[m] = "helper"
      BY <2>4, <3>3, Stable
    <3>6. Dead(n)'
      <4>1. Over(n)'
        <5>1. Reached(n)'
          BY <2>6, Stable
        <5>2. QED
          BY <1>0, <5>1 DEF Over
      <4>2. ~HasRun(n)'
        BY <2>1, <3>2 DEF HasRun
      <4>3. QED
        BY <2>1, <4>1, <4>2 DEF Dead
    <3>7. QED
      BY <2>1, <2>4, <2>7, <3>1, <3>4, <3>5, <3>6 DEF Sound
  <2>10. QED
    BY <2>8, <2>9
<1>5. QED
  BY <1>1, <1>2, <1>3, <1>4 DEF Repl, ReadLine, RemoveResponse, WriteRequest, StartTask, Poll,
                                HelperOpThrows, ReplDies, wireVars

\* AnswersOK is preserved.
LEMMA AnswersPreserved ==
    ASSUME SessionTypeOK, QueueOK, FilesOK, StaleOK, IgnoredOK, StartedOK, AnswersOK,
           SessionNext, Moves
    PROVE  AnswersOK'
<1>1. ASSUME NEW n \in 1..Len(outcome'), NEW m \in Ids, outcome'[n] = Answer(m)
      PROVE  Sound(n, m)'
  <2>1. n \in 1..Len(outcome)
    BY <1>1, OutcomesDiffer DEF Moves, OutcomesMove
  <2>2. Sound(n, m)
    <3>1. CASE outcome'[n] = outcome[n]
      BY <1>1, <2>1, <3>1 DEF AnswersOK
    <3>2. CASE outcome'[n] # outcome[n]
      <4>1. \E l : Sent(l) /\ l.id = n /\ l.from # Empty /\ Answer(l.from) = Answer(m)
        BY <1>1, <2>1, <3>2, OutcomesDiffer DEF Moves, OutcomesMove
      <4>2. QED
        BY <4>1, OutcomesDiffer DEF AnswersOK
    <3>3. QED
      BY <3>1, <3>2
  <2>3. QED
    BY <2>2, StableSound
<1>2. ASSUME NEW l, Sent(l)', l.from # Empty PROVE Sound(l.id, l.from)'
  <2>1. CASE Sent(l)
    BY <1>2, <2>1, StableSound DEF AnswersOK
  <2>2. CASE ~Sent(l)
    <3>1. Repl
      <4>1. Busy /\ ~Busy'
        BY <1>2, <2>2 DEF Moves, WireMoves
      <4>2. QED
        BY <4>1, ClientStep, HelperStep DEF SessionNext, ClientAlone, HelperAlone, Busy
    <3>2. QED
      BY <1>2, <2>2, <3>1, SoundLine
  <2>3. QED
    BY <2>1, <2>2
<1>3. QED
  BY <1>1, <1>2 DEF AnswersOK

---------------------------------------------------------------------------
\* The inductive invariant.
HelperInv ==
    /\ SessionTypeOK /\ QueueOK /\ FilesOK
    /\ StaleOK /\ IgnoredOK /\ StartedOK
    /\ AnswersOK /\ RepeatsOK

\* Nothing has been asked for at the start.
LEMMA HelperInvInit ==
    ASSUME SessionInit
    PROVE  HelperInv
<1>1. /\ kind = <<>> /\ outcome = <<>> /\ pipe = <<>> /\ lines = <<>> /\ performed = <<>>
      /\ drained = 0 /\ repl.at = "idle" /\ repl.id = 0 /\ requestFile = Empty
      /\ responseFile = Empty /\ helper.at = "exited" /\ helper.read = Empty /\ ignored = {}
  BY DEF SessionInit, Idle
<1>2. SessionTypeOK
  BY DEF SessionInit, SessionTypeOK, Idle, Empty
<1>3. /\ \A m : ~HasRun(m) /\ ~Twice(m) /\ ~Held(m) /\ ~Queued(m)
      /\ \A l : ~Sent(l)
      /\ Len(outcome) = 0 /\ Len(pipe) = 0
  BY <1>1 DEF HasRun, Twice, Held, Queued, Sent
<1>4. ~Busy /\ ~Waiting /\ ~Alive /\ Empty \notin Ids
  BY <1>1, <1>3 DEF Busy, OfHelper, Waiting, Alive, Empty, Ids
<1>5. QueueOK
  BY <1>1, <1>3, <1>4 DEF QueueOK
<1>6. FilesOK
  BY <1>1, <1>3, <1>4 DEF FilesOK
<1>7. StaleOK /\ IgnoredOK /\ StartedOK
  BY <1>1, <1>3 DEF StaleOK, IgnoredOK, StartedOK, Ignoring
<1>8. AnswersOK /\ RepeatsOK
  BY <1>1, <1>3 DEF AnswersOK, RepeatsOK
<1>9. QED
  BY <1>2, <1>5, <1>6, <1>7, <1>8 DEF HelperInv

\* The invariant is inductive.
LEMMA HelperInvStep ==
    ASSUME HelperInv, [SessionNext]_sessionVars
    PROVE  HelperInv'
<1> USE DEF HelperInv
<1>1. CASE SessionNext
  <2>1. SessionTypeOK' /\ Moves /\ QueueSteps
    BY <1>1, ClientStep, ReplStep, HelperStep DEF SessionNext
  <2>2. QueueOK'
    BY <2>1, QueueStep
  <2>3. FilesOK'
    BY <1>1, <2>1, FilesStep
  <2>4. StaleOK'
    BY <1>1, <2>1, <2>3, StaleStep
  <2>5. IgnoredOK' /\ StartedOK'
    BY <1>1, <2>1, IgnoredStep, StartedStep
  <2>6. AnswersOK' /\ RepeatsOK'
    BY <1>1, <2>1, AnswersPreserved, RepeatsStep
  <2>7. QED
    BY <2>1, <2>2, <2>3, <2>4, <2>5, <2>6
<1>2. CASE UNCHANGED sessionVars
  <2>1. /\ UNCHANGED <<kind, outcome, drained, pipe, lines, repl>>
        /\ UNCHANGED <<requestFile, responseFile, helper, ignored, performed>>
    BY <1>2 DEF sessionVars, clientVars, wireVars, guestVars
  <2>2. SessionTypeOK'
    BY <2>1 DEF SessionTypeOK
  <2>3. /\ GuestMoves /\ (Busy' <=> Busy) /\ (Waiting' <=> Waiting)
        /\ (Alive' <=> Alive) /\ (Ignoring' <=> Ignoring)
        /\ \A m : /\ HasRun(m)' <=> HasRun(m)
                  /\ Twice(m)' <=> Twice(m)
                  /\ Held(m)' <=> Held(m)
                  /\ Queued(m)' <=> Queued(m)
        /\ \A l : Sent(l)' <=> Sent(l)
    BY <2>1 DEF GuestMoves, Busy, Waiting, Alive, Ignoring, HasRun, Twice, Held, Queued, Sent
  <2>4. Moves /\ QueueSteps
    BY <2>1, <2>3 DEF Moves, OutcomesMove, WireMoves, QueueSteps, QueueOK, Sorted,
                      SessionTypeOK
  <2>5. QueueOK'
    BY <2>4, QueueStep
  <2>6. \A m : /\ Reached(m)' <=> Reached(m)
               /\ Over(m)' <=> Over(m)
               /\ NoAnswer(m) => NoAnswer(m)'
               /\ Lost(m) => Lost(m)'
    <3>1. \A m : /\ Reached(m)' <=> Reached(m)
                 /\ Over(m)' <=> Over(m)
      BY <2>1, <2>3 DEF Over, Reached
    <3>2. QED
      BY <2>4, <3>1, Stable, StableSound
  <2>7. FilesOK'
    BY <2>1, <2>3, <2>6 DEF FilesOK
  <2>8. StaleOK' /\ IgnoredOK' /\ StartedOK'
    BY <2>1, <2>3, <2>6 DEF StaleOK, IgnoredOK, StartedOK
  <2>9. AnswersOK'
    BY <2>1, <2>3, <2>4, StableSound DEF AnswersOK
  <2>10. RepeatsOK'
    BY <2>1, <2>3, <2>6 DEF RepeatsOK
  <2>11. QED
    BY <2>2, <2>5, <2>7, <2>8, <2>9, <2>10
<1>3. QED
  BY <1>1, <1>2

\* What the session keeps of every request, whatever times out, fails or dies.
THEOREM HelperInvHolds == SessionSpec => []HelperInv
<1>1. SessionInit => HelperInv
  BY HelperInvInit
<1>2. HelperInv /\ [SessionNext]_sessionVars => HelperInv'
  BY HelperInvStep
<1>3. QED
  BY <1>1, <1>2, PTL DEF SessionSpec

\* The variables of the session keep their types.
THEOREM SessionTypeCorrect == SessionSpec => []SessionTypeOK
<1>1. HelperInv => SessionTypeOK
  BY DEF HelperInv
<1>2. QED
  BY <1>1, HelperInvHolds, PTL

\* An answer is the call's own, or that of an earlier helper call that was given
\* up, to a call whose own gesture never runs.
THEOREM AnswersAreTheCallsOwn == SessionSpec => []OffsetDiesOut
<1>1. HelperInv => OffsetDiesOut
  <2>1. SUFFICES ASSUME HelperInv, NEW n \in 1..Len(outcome), NEW m \in Ids,
                        outcome[n] = Answer(m), ~(m = n /\ HasRun(n))
                 PROVE  /\ m < n /\ kind[m] = "helper" /\ HasRun(m)
                        /\ outcome[m] \in {Failed, Desynced}
                        /\ n \in ignored /\ ~HasRun(n)
    BY DEF OffsetDiesOut
  <2>2. Sound(n, m)
    BY <2>1 DEF HelperInv, AnswersOK
  <2>3. /\ m < n /\ kind[m] = "helper" /\ HasRun(m) /\ NoAnswer(m)
        /\ n \in ignored /\ ~HasRun(n)
    BY <2>1, <2>2 DEF Sound, Dead
  <2>4. m \in 1..Len(outcome) /\ Len(outcome) \in Nat /\ outcome[m] \in Outcomes
    <3>1. m \in 1..Len(outcome)
      BY <2>3 DEF NoAnswer, Over, Reached
    <3>2. outcome \in Seq(Outcomes)
      BY <2>1 DEF HelperInv, SessionTypeOK, Outcomes
    <3>3. QED
      BY <3>1, <3>2
  <2>5. outcome[m] # InProgress /\ ~Answered(m)
    BY <2>1, <2>3, <2>4 DEF NoAnswer, HelperInv, QueueOK
  <2>6. outcome[m] \in {Failed, Desynced}
    BY <2>4, <2>5 DEF Outcomes, Answered
  <2>7. QED
    BY <2>3, <2>6
<1>2. QED
  BY <1>1, HelperInvHolds, PTL

\* A request is carried out twice only in the place of an earlier one that was
\* given up and never is.
THEOREM RepeatsAreForLost == SessionSpec => []RepeatsOnlyForLost
<1>1. HelperInv => RepeatsOnlyForLost
  <2>1. SUFFICES ASSUME HelperInv, NEW i \in 1..Len(performed), NEW j \in 1..Len(performed),
                        i < j, performed[i] = performed[j]
                 PROVE  /\ kind[performed[i]] = "helper"
                        /\ \E m \in 1..(performed[i] - 1) :
                              /\ kind[m] = "helper" /\ ~HasRun(m)
                              /\ outcome[m] \in {Failed, Desynced}
    BY DEF RepeatsOnlyForLost
  <2>2. Twice(performed[i])
    BY <2>1 DEF Twice
  <2>3. kind[performed[i]] = "helper" /\ Lost(performed[i])
    BY <2>1, <2>2 DEF HelperInv, RepeatsOK
  <2>4. QED
    BY <2>3 DEF Lost, Dead, GivenUp
<1>2. QED
  BY <1>1, HelperInvHolds, PTL

---------------------------------------------------------------------------
\* r lines have been read so far; the requests follow one another through the
\* REPL without a gap.
WireOrder(r) ==
    /\ \A i \in 1..Len(lines) : lines[i].id = r + i
    /\ Busy => repl.id = r + Len(lines) + 1
    /\ repl.at # "dead" =>
          \E t \in Nat :
             /\ t = IF Busy THEN r + Len(lines) + 1 ELSE r + Len(lines)
             /\ \A i \in 1..Len(pipe) : pipe[i] = t + i
             /\ Len(outcome) = t + Len(pipe)

\* Every call the lines still to come were for has been given up, and so have
\* those whose lines the current call has drained.
DrainOK(r) ==
    /\ drained <= r
    /\ Waiting => \A m \in 1..Len(outcome) :
                     m < Len(outcome) /\ m > r - drained => GivenUp(m)
    /\ ~Waiting => \A m \in 1..Len(outcome) : m > r => GivenUp(m)

\* The lines drained and the calls given up, over the steps of the client.
LEMMA ClientOrder ==
    ASSUME SessionTypeOK, QueueOK, Moves, Client, NEW r \in Nat, WireOrder(r), DrainOK(r)
    PROVE  /\ \E q \in Nat : WireOrder(q)' /\ DrainOK(q)'
           /\ \A n \in 1..Len(outcome') :
                 outcome'[n] = Desynced =>
                    \/ n \in 1..Len(outcome) /\ outcome[n] = Desynced
                    \/ /\ n = Len(outcome) /\ n > MaxStaleDrain + 1
                       /\ \A m \in (n - MaxStaleDrain - 1)..(n - 1) :
                             m \in 1..Len(outcome) /\ GivenUp(m)
<1>1. PICK n \in Nat, p \in Nat, k \in Nat :
         /\ n = Len(outcome) /\ p = Len(lines) /\ k = Len(pipe)
         /\ outcome \in Seq(Outcomes) /\ lines \in Seq(Lines) /\ pipe \in Seq(Ids)
         /\ drained \in Nat
  <2>1. /\ outcome \in Seq(Outcomes) /\ lines \in Seq(Lines) /\ pipe \in Seq(Ids)
        /\ drained \in Nat
    BY DEF SessionTypeOK, Lines, Outcomes
  <2>2. QED
    BY <2>1
<1>2. repl' = repl /\ (Busy' <=> Busy)
  BY ClientStep DEF ClientAlone, Busy
<1>3. CASE \E a \in {"script", "helper"} : Request(a)
  <2>1. /\ ~Waiting /\ lines' = lines /\ drained' = 0
        /\ \/ outcome' = Append(outcome, InProgress) /\ pipe' = Append(pipe, Len(outcome'))
           \/ repl.at = "dead" /\ outcome' = Append(outcome, Failed) /\ pipe' = pipe
    BY <1>3 DEF Request
  <2>2. PICK last \in {InProgress, Failed} : outcome' = Append(outcome, last)
    BY <2>1
  <2>3. /\ Len(outcome') = n + 1 /\ outcome'[n + 1] = last
        /\ \A m \in 1..n : outcome'[m] = outcome[m]
    <3>1. last \in Outcomes
      BY DEF Outcomes
    <3>2. QED
      BY <1>1, <2>2, <3>1
  <2>4. \A m \in 1..n : m > r => outcome'[m] \in {Failed, Desynced}
    BY <1>1, <2>1, <2>3 DEF DrainOK, GivenUp
  <2>5. DrainOK(r)'
    <3>1. CASE last = InProgress
      BY <1>1, <2>1, <2>3, <2>4, <3>1 DEF DrainOK, GivenUp, Waiting
    <3>2. CASE last = Failed
      BY <1>1, <2>1, <2>3, <2>4, <3>2, OutcomesDiffer DEF DrainOK, GivenUp, Waiting
    <3>3. QED
      BY <3>1, <3>2
  <2>6. WireOrder(r)'
    <3>1. CASE repl.at = "dead"
      BY <1>2, <2>1, <3>1 DEF WireOrder
    <3>2. CASE repl.at # "dead"
      <4>1. pipe' = Append(pipe, n + 1) /\ n + 1 \in Ids
        BY <1>1, <1>3, <2>1, <2>3, <3>2 DEF Ids, Request
      <4>2. /\ Len(pipe') = k + 1 /\ pipe'[k + 1] = n + 1
            /\ \A i \in 1..k : pipe'[i] = pipe[i]
        BY <1>1, <4>1
      <4>3. PICK t \in Nat : /\ t = IF Busy THEN r + p + 1 ELSE r + p
                             /\ \A i \in 1..k : pipe[i] = t + i
                             /\ n = t + k
        BY <1>1, <3>2 DEF WireOrder
      <4>4. /\ \A i \in 1..(k + 1) : pipe'[i] = t + i
            /\ n + 1 = t + (k + 1)
        <5>1. \A i \in 1..(k + 1) : i \in 1..k \/ i = k + 1
          OBVIOUS
        <5>2. QED
          BY <4>2, <4>3, <5>1
      <4>5. \A i \in 1..Len(lines') : lines'[i].id = r + i
        BY <1>2, <2>1 DEF WireOrder
      <4>6. Busy' => repl'.id = r + Len(lines') + 1
        BY <1>2, <2>1 DEF WireOrder
      <4>7. /\ t = IF Busy' THEN r + Len(lines') + 1 ELSE r + Len(lines')
            /\ \A i \in 1..Len(pipe') : pipe'[i] = t + i
            /\ Len(outcome') = t + Len(pipe')
        BY <1>1, <1>2, <2>1, <2>3, <4>2, <4>3, <4>4
      <4>8. QED
        BY <4>5, <4>6, <4>7 DEF WireOrder
    <3>3. QED
      BY <3>1, <3>2
  <2>7. QED
    BY <1>1, <2>2, <2>3, <2>5, <2>6, OutcomesDiffer
<1>4. CASE TimeOut
  <2>1. Waiting /\ Settle(Failed) /\ drained' = drained /\ lines' = lines /\ pipe' = pipe
    BY <1>4 DEF TimeOut, wireVars
  <2>2. /\ n > 0 /\ Len(outcome') = n /\ outcome'[n] = Failed
        /\ \A m \in 1..n : m # n => outcome'[m] = outcome[m]
    BY <1>1, <2>1 DEF Settle, Waiting
  <2>3. ~Waiting'
    BY <2>2, OutcomesDiffer DEF Waiting
  <2>4. DrainOK(r)'
    BY <1>1, <2>1, <2>2, <2>3 DEF DrainOK, GivenUp
  <2>5. WireOrder(r)'
    BY <1>1, <1>2, <2>1, <2>2 DEF WireOrder
  <2>6. QED
    BY <1>1, <2>2, <2>4, <2>5, OutcomesDiffer
<1>5. CASE Receive
  <2>1. Waiting /\ lines # <<>> /\ lines' = Tail(lines) /\ pipe' = pipe
    BY <1>5 DEF Receive
  <2>2. /\ p > 0 /\ Head(lines) = lines[1] /\ Len(lines') = p - 1
        /\ \A i \in 1..(p - 1) : i + 1 \in 1..p /\ lines'[i] = lines[i + 1]
    BY <1>1, <2>1
  <2>3. /\ \A i \in 1..p : lines[i].id = r + i
        /\ Head(lines).id = r + 1
    BY <1>1, <2>2 DEF WireOrder
  <2>4. r + 1 \in 1..n /\ drained <= MaxStaleDrain
    <3>1. Sent(Head(lines))
      BY <1>1, <2>2 DEF Sent
    <3>2. QED
      BY <1>1, <2>1, <2>3, <3>1 DEF QueueOK, Over, Reached
  <2>5. n > 0 /\ outcome[n] = InProgress /\ drained <= r
        /\ \A m \in 1..n : m < n /\ m > r - drained => GivenUp(m)
    BY <1>1, <2>1 DEF Waiting, DrainOK
  <2>6. ASSUME Len(outcome') = n PROVE WireOrder(r + 1)'
    <3>1. \A i \in 1..(p - 1) : lines'[i].id = (r + 1) + i
      <4>1. TAKE i \in 1..(p - 1)
      <4>2. lines'[i] = lines[i + 1] /\ lines[i + 1].id = r + (i + 1)
        BY <2>2, <2>3
      <4>3. QED
        BY <4>2
    <3>2. Len(lines') = p - 1 /\ (r + 1) + Len(lines') = r + Len(lines)
      BY <1>1, <2>2
    <3>3. \A i \in 1..Len(lines') : lines'[i].id = (r + 1) + i
      BY <3>1, <3>2
    <3>4. Busy' => repl'.id = (r + 1) + Len(lines') + 1
      BY <1>2, <3>2 DEF WireOrder
    <3>5. ASSUME repl.at # "dead"
          PROVE  \E t \in Nat :
                    /\ t = IF Busy' THEN (r + 1) + Len(lines') + 1 ELSE (r + 1) + Len(lines')
                    /\ \A i \in 1..Len(pipe') : pipe'[i] = t + i
                    /\ Len(outcome') = t + Len(pipe')
      <4>1. PICK t \in Nat : /\ t = IF Busy THEN r + Len(lines) + 1 ELSE r + Len(lines)
                             /\ \A i \in 1..Len(pipe) : pipe[i] = t + i
                             /\ Len(outcome) = t + Len(pipe)
        BY <3>5 DEF WireOrder
      <4>2. QED
        BY <1>1, <1>2, <2>1, <2>6, <3>2, <4>1
    <3>6. QED
      BY <1>2, <3>3, <3>4, <3>5 DEF WireOrder
  <2>7. CASE r + 1 = n
    <3>1. PICK result : Settle(result) /\ drained' = drained /\ result \notin {InProgress, Desynced}
      BY <1>1, <1>5, <2>3, <2>7, OutcomesDiffer DEF Receive
    <3>2. /\ Len(outcome') = n /\ outcome'[n] = result
          /\ \A m \in 1..n : m # n => outcome'[m] = outcome[m]
      BY <1>1, <2>5, <3>1 DEF Settle
    <3>3. ~Waiting'
      BY <3>1, <3>2 DEF Waiting
    <3>4. DrainOK(r + 1)'
      BY <1>1, <2>5, <2>7, <3>1, <3>2, <3>3 DEF DrainOK
    <3>5. \A m \in 1..n : outcome'[m] = Desynced => outcome[m] = Desynced
      BY <3>1, <3>2
    <3>6. QED
      BY <1>1, <2>6, <3>2, <3>4, <3>5
  <2>8. CASE r + 1 # n
    <3>1. /\ drained' = drained + 1
          /\ IF drained' > MaxStaleDrain THEN Settle(Desynced) ELSE outcome' = outcome
      BY <1>1, <1>5, <2>3, <2>8 DEF Receive
    <3>2. CASE drained' > MaxStaleDrain
      <4>1. /\ Len(outcome') = n /\ outcome'[n] = Desynced
            /\ \A m \in 1..n : m # n => outcome'[m] = outcome[m]
        <5>1. outcome' = [outcome EXCEPT ![n] = Desynced]
          BY <1>1, <3>1, <3>2 DEF Settle
        <5>2. QED
          BY <1>1, <2>5, <5>1
      <4>2. ~Waiting'
        BY <4>1, OutcomesDiffer DEF Waiting
      <4>3. DrainOK(r + 1)'
        BY <1>1, <2>5, <3>1, <4>1, <4>2 DEF DrainOK, GivenUp
      <4>4. drained = MaxStaleDrain
        BY <1>1, <2>4, <3>1, <3>2
      <4>5. /\ n > MaxStaleDrain + 1
            /\ \A m \in (n - MaxStaleDrain - 1)..(n - 1) :
                  m \in 1..n /\ m < n /\ m > r - drained
        BY <1>1, <2>4, <2>5, <2>8, <4>4
      <4>6. QED
        BY <1>1, <2>5, <2>6, <4>1, <4>3, <4>5
    <3>3. CASE ~(drained' > MaxStaleDrain)
      <4>1. outcome' = outcome /\ Waiting'
        BY <2>1, <3>1, <3>3 DEF Waiting
      <4>2. DrainOK(r + 1)'
        BY <1>1, <2>5, <3>1, <4>1 DEF DrainOK, GivenUp
      <4>3. QED
        BY <1>1, <2>6, <4>1, <4>2
    <3>4. QED
      BY <3>2, <3>3
  <2>9. QED
    BY <2>7, <2>8
<1>6. QED
  BY <1>3, <1>4, <1>5 DEF Client

\* The order of the requests, over the steps of REPL and helper.
LEMMA OthersOrder ==
    ASSUME SessionTypeOK, QueueOK, FilesOK, Moves, Repl \/ Helper,
           NEW r \in Nat, WireOrder(r), DrainOK(r)
    PROVE  WireOrder(r)' /\ DrainOK(r)' /\ outcome' = outcome
<1>0. ReplAlone
  BY ReplStep, HelperStep
<1>1. outcome' = outcome /\ drained' = drained /\ (Waiting' <=> Waiting)
  BY <1>0, ReplClient
<1>2. DrainOK(r)'
  BY <1>1 DEF DrainOK, GivenUp
<1> SUFFICES WireOrder(r)'
  BY <1>1, <1>2
<1>3. PICK p \in Nat, k \in Nat : /\ p = Len(lines) /\ k = Len(pipe)
                                 /\ lines \in Seq(Lines) /\ pipe \in Seq(Ids)
  BY DEF SessionTypeOK, Lines
<1>4. ASSUME lines' = lines, pipe' = pipe, Busy' <=> Busy, Busy => repl'.id = repl.id,
             repl'.at # "dead" => repl.at # "dead"
      PROVE  WireOrder(r)'
  BY <1>1, <1>4 DEF WireOrder
<1>5. CASE Helper
  <2>1. repl' = repl /\ lines' = lines /\ pipe' = pipe /\ (Busy' <=> Busy)
    BY <1>5, HelperStep DEF HelperAlone, wireVars, Busy
  <2>2. QED
    BY <1>4, <2>1
<1>6. CASE RemoveResponse \/ WriteRequest \/ StartTask \/ (Poll /\ ReplGoes("settle"))
  <2>1. /\ lines' = lines /\ pipe' = pipe /\ repl'.id = repl.id
        /\ repl.at \in OfHelper /\ repl'.at \in OfHelper
    <3>1. PICK at \in OfHelper : ReplGoes(at)
      BY <1>6 DEF RemoveResponse, WriteRequest, StartTask, OfHelper
    <3>2. repl'.at = at /\ repl'.id = repl.id
      BY <3>1 DEF ReplGoes, SessionTypeOK
    <3>3. repl.at \in OfHelper /\ pipe' = pipe
      BY <1>6 DEF RemoveResponse, WriteRequest, StartTask, Poll, ReplIs, OfHelper, wireVars
    <3>4. CASE Poll /\ ReplGoes("settle")
      <4>1. repl'.at = "settle" /\ (lines' = lines \/ Respond(Empty))
        BY <3>4 DEF Poll, ReplGoes, SessionTypeOK
      <4>2. QED
        BY <3>2, <3>3, <4>1 DEF Respond, Idle, OfHelper
    <3>5. CASE RemoveResponse \/ WriteRequest \/ StartTask
      BY <3>2, <3>3, <3>5 DEF RemoveResponse, WriteRequest, StartTask, wireVars
    <3>6. QED
      BY <1>6, <3>4, <3>5
  <2>2. QED
    BY <1>4, <2>1 DEF Busy, OfHelper
<1>7. CASE ReplDies
  <2>1. repl'.at = "dead" /\ ~Busy' /\ lines' = lines
    BY <1>7 DEF ReplDies, Busy, OfHelper, wireVars
  <2>2. QED
    BY <2>1 DEF WireOrder
<1>8. CASE ReadLine
  <2>1. /\ ~Busy /\ Busy' /\ lines' = lines /\ pipe # <<>> /\ pipe' = Tail(pipe)
        /\ repl'.id = Head(pipe) /\ repl.at # "dead"
    BY <1>8, ReadLineStep DEF ReadLine, ReplIs
  <2>2. /\ k > 0 /\ Head(pipe) = pipe[1] /\ Len(pipe') = k - 1
        /\ \A i \in 1..(k - 1) : i + 1 \in 1..k /\ pipe'[i] = pipe[i + 1]
    BY <1>3, <2>1
  <2>3. /\ \A i \in 1..k : pipe[i] = r + p + i
        /\ Len(outcome) = r + p + k
    BY <1>3, <2>1 DEF WireOrder
  <2>4. /\ repl'.id = r + p + 1
        /\ \A i \in 1..(k - 1) : pipe'[i] = (r + p + 1) + i
        /\ Len(outcome) = (r + p + 1) + (k - 1)
    BY <2>1, <2>2, <2>3
  <2>5. QED
    <3>1. /\ r + p + 1 \in Nat /\ r + p + 1 = IF Busy' THEN r + p + 1 ELSE r + p
          /\ \A i \in 1..Len(pipe') : pipe'[i] = (r + p + 1) + i
          /\ Len(outcome') = (r + p + 1) + Len(pipe')
          /\ Len(lines') = p
      BY <1>1, <1>3, <2>1, <2>2, <2>4
    <3>2. \A i \in 1..p : lines[i].id = r + i
      BY <1>3 DEF WireOrder
    <3>3. QED
      BY <2>1, <2>4, <3>1, <3>2 DEF WireOrder
<1>9. CASE \E from \in Ids \cup {Empty} : pipe' = pipe /\ Respond(from) /\ Busy
  <2>1. PICK from \in Ids \cup {Empty} : Respond(from)
    BY <1>9
  <2>2. repl.id \in Ids
    BY <1>9, ReachedIsId DEF QueueOK
  <2>3. /\ [id |-> repl.id, from |-> from] \in Lines
        /\ lines' = Append(lines, [id |-> repl.id, from |-> from])
    BY <2>1, <2>2 DEF Lines, Respond
  <2>4. Len(lines') = p + 1 /\ lines'[p + 1].id = repl.id /\ \A i \in 1..p : lines'[i] = lines[i]
    BY <1>3, <2>3
  <2>5. ~Busy'
    BY <2>1 DEF Respond, Idle, Busy, OfHelper
  <2>6. /\ \A i \in 1..k : pipe[i] = (r + p + 1) + i
        /\ Len(outcome) = (r + p + 1) + k /\ repl.id = r + p + 1
        /\ \A i \in 1..p : lines[i].id = r + i
    BY <1>3, <1>9 DEF WireOrder, Busy, OfHelper
  <2>7. \A i \in 1..(p + 1) : lines'[i].id = r + i
    <3>1. TAKE i \in 1..(p + 1)
    <3>2. CASE i = p + 1
      BY <2>4, <2>6, <3>2
    <3>3. CASE i \in 1..p
      BY <2>4, <2>6, <3>3
    <3>4. QED
      BY <3>2, <3>3
  <2>8. QED
    BY <1>1, <1>3, <1>9, <2>4, <2>5, <2>6, <2>7 DEF WireOrder
<1>10. (RunScript \/ Poll \/ ReadAnswer \/ HelperOpThrows) =>
         \/ Poll /\ ReplGoes("settle")
         \/ \E from \in Ids \cup {Empty} : pipe' = pipe /\ Respond(from) /\ Busy
  <2>1. Busy => repl.id \in Ids
    BY ReachedIsId DEF QueueOK
  <2>2. responseFile \in Ids \cup {Empty, Error}
    BY DEF SessionTypeOK
  <2>3. CASE RunScript
    BY <2>1, <2>3 DEF RunScript, ReplIs, Busy, OfHelper
  <2>4. CASE Poll
    BY <2>4 DEF Poll, ReplIs, Busy, OfHelper
  <2>5. CASE ReadAnswer
    BY <2>2, <2>5 DEF ReadAnswer, ReplIs, Busy, OfHelper
  <2>6. CASE HelperOpThrows
    BY <2>6 DEF HelperOpThrows, Busy, OfHelper
  <2>7. QED
    BY <2>3, <2>4, <2>5, <2>6
<1>11. QED
  BY <1>5, <1>6, <1>7, <1>8, <1>9, <1>10 DEF Repl

\* The invariant behind DesyncOnlyAfterTimeouts.
DesyncInv == /\ HelperInv
             /\ \E r \in Nat : WireOrder(r) /\ DrainOK(r)
             /\ DesyncOnlyAfterTimeouts

\* Nothing has been read at the start.
LEMMA DesyncInvInit ==
    ASSUME SessionInit
    PROVE  DesyncInv
<1>1. /\ outcome = <<>> /\ lines = <<>> /\ pipe = <<>> /\ drained = 0 /\ repl.at = "idle"
  BY DEF SessionInit, Idle
<1>2. Len(outcome) = 0 /\ Len(lines) = 0 /\ Len(pipe) = 0 /\ ~Busy /\ ~Waiting
  BY <1>1 DEF Busy, OfHelper, Waiting
<1>3. WireOrder(0) /\ DrainOK(0) /\ DesyncOnlyAfterTimeouts
  BY <1>1, <1>2 DEF WireOrder, DrainOK, DesyncOnlyAfterTimeouts
<1>4. QED
  BY <1>3, HelperInvInit DEF DesyncInv

\* The count of lines read goes on with every line.
LEMMA DesyncInvStep ==
    ASSUME DesyncInv, [SessionNext]_sessionVars
    PROVE  DesyncInv'
<1>1. HelperInv /\ HelperInv' /\ SessionTypeOK /\ QueueOK /\ FilesOK
  BY HelperInvStep DEF DesyncInv, HelperInv
<1>2. PICK r \in Nat : WireOrder(r) /\ DrainOK(r)
  BY DEF DesyncInv
<1>3. CASE UNCHANGED sessionVars
  <2>1. UNCHANGED <<outcome, lines, pipe, drained, repl>>
    BY <1>3 DEF sessionVars, clientVars, wireVars
  <2>2. WireOrder(r)' /\ DrainOK(r)' /\ DesyncOnlyAfterTimeouts'
    BY <1>2, <2>1 DEF WireOrder, DrainOK, DesyncOnlyAfterTimeouts, DesyncInv, Busy, Waiting,
                      GivenUp
  <2>3. QED
    BY <1>1, <2>2 DEF DesyncInv
<1>4. CASE SessionNext
  <2>1. Moves
    BY <1>1, <1>4, ClientStep, ReplStep, HelperStep DEF SessionNext
  <2>2. \E q \in Nat : WireOrder(q)' /\ DrainOK(q)'
    BY <1>1, <1>2, <1>4, <2>1, ClientOrder, OthersOrder DEF SessionNext
  <2>3. \A n \in 1..Len(outcome') :
           outcome'[n] = Desynced =>
              \/ n \in 1..Len(outcome) /\ outcome[n] = Desynced
              \/ /\ n = Len(outcome) /\ n > MaxStaleDrain + 1
                 /\ \A m \in (n - MaxStaleDrain - 1)..(n - 1) :
                       m \in 1..Len(outcome) /\ GivenUp(m)
    <3>1. CASE Client
      BY <1>1, <1>2, <2>1, <3>1, ClientOrder
    <3>2. CASE Repl \/ Helper
      BY <1>1, <1>2, <2>1, <3>2, OthersOrder
    <3>3. QED
      BY <1>4, <3>1, <3>2 DEF SessionNext
  <2>4. \A m \in 1..Len(outcome) : GivenUp(m) => outcome'[m] \in {Failed, Desynced}
    BY <2>1, OutcomesDiffer DEF Moves, OutcomesMove, GivenUp
  <2>5. ASSUME NEW n \in 1..Len(outcome'), outcome'[n] = Desynced
        PROVE  /\ n > MaxStaleDrain + 1
               /\ \A m \in (n - MaxStaleDrain - 1)..(n - 1) :
                     outcome'[m] \in {Failed, Desynced}
    <3>1. CASE n \in 1..Len(outcome) /\ outcome[n] = Desynced
      <4>1. /\ n > MaxStaleDrain + 1
            /\ \A m \in (n - MaxStaleDrain - 1)..(n - 1) : outcome[m] \in {Failed, Desynced}
        BY <3>1 DEF DesyncInv, DesyncOnlyAfterTimeouts
      <4>2. \A m \in (n - MaxStaleDrain - 1)..(n - 1) : m \in 1..Len(outcome)
        BY <1>1, <3>1, <4>1 DEF SessionTypeOK
      <4>3. QED
        BY <2>4, <4>1, <4>2 DEF GivenUp
    <3>2. CASE ~(n \in 1..Len(outcome) /\ outcome[n] = Desynced)
      BY <2>3, <2>4, <2>5, <3>2
    <3>3. QED
      BY <3>1, <3>2
  <2>6. QED
    BY <1>1, <2>2, <2>5 DEF DesyncInv, DesyncOnlyAfterTimeouts
<1>5. QED
  BY <1>3, <1>4

\* A call ends desynced only when more calls than the drain bound, all directly
\* before it, had been given up.
THEOREM DesyncsFollowTimeouts == SessionSpec => []DesyncOnlyAfterTimeouts
<1>1. SessionInit => DesyncInv
  BY DesyncInvInit
<1>2. DesyncInv /\ [SessionNext]_sessionVars => DesyncInv'
  BY DesyncInvStep
<1>3. DesyncInv => DesyncOnlyAfterTimeouts
  BY DEF DesyncInv
<1>4. QED
  BY <1>1, <1>2, <1>3, PTL DEF SessionSpec

---------------------------------------------------------------------------
\* Once a call has an answer, no script asked for before it is carried out any
\* more, given up or not: the REPL is serial, and the answer was written when it
\* was through with all of them.  (A gesture may be, by a helper that outlived
\* its call.)  Module ExecTransaction takes this for granted: there a call is
\* answered only while no abandoned script is pending.
NoScriptAfterAnswer ==
    [][\A n \in 1..Len(outcome), i \in (Len(performed) + 1)..Len(performed') :
          Answered(n) /\ kind[performed'[i]] = "script"
              => performed'[i] > n]_sessionVars

THEOREM ScriptsEndBeforeAnswers == SessionSpec => NoScriptAfterAnswer
<1>1. ASSUME HelperInv, SessionNext, NEW n \in 1..Len(outcome),
             NEW i \in (Len(performed) + 1)..Len(performed'),
             Answered(n), kind[performed'[i]] = "script"
      PROVE  performed'[i] > n
  <2>1. CASE performed' = performed
    BY <1>1, <2>1 DEF HelperInv, SessionTypeOK
  <2>2. CASE RunScript /\ performed' = Append(performed, repl.id)
    <3>1. performed'[i] = repl.id
      BY <1>1, <2>2 DEF HelperInv, SessionTypeOK
    <3>2. Busy
      BY <2>2 DEF RunScript, ReplIs, Busy
    <3>3. Over(n) /\ repl.id \in Nat
      BY <1>1, <3>2 DEF HelperInv, QueueOK, Reached, SessionTypeOK
    <3>4. QED
      BY <3>1, <3>2, <3>3 DEF Over, Reached
  <2>3. CASE HelperPerforms /\ performed' = Append(performed, helper.read)
    <3>1. performed'[i] = helper.read
      BY <1>1, <2>3 DEF HelperInv, SessionTypeOK
    <3>2. Held(helper.read)
      BY <1>1, <2>3 DEF HelperPerforms, HelperInv, FilesOK, Held
    <3>3. kind[helper.read] = "helper"
      BY <1>1, <3>2 DEF HelperInv, FilesOK
    <3>4. QED
      BY <1>1, <3>1, <3>3
  <2>4. QED
    BY <1>1, <2>1, <2>2, <2>3
    DEF SessionNext, Client, Repl, Helper, Request, Receive, TimeOut, ReadLine,
        RunScript, RemoveResponse, WriteRequest, StartTask, Poll, ReadAnswer,
        HelperOpThrows, ReplDies, HelperReads, HelperPerforms, HelperResponds,
        HelperExits
<1>2. HelperInv /\ [SessionNext]_sessionVars =>
         [\A n \in 1..Len(outcome), i \in (Len(performed) + 1)..Len(performed') :
             Answered(n) /\ kind[performed'[i]] = "script"
                 => performed'[i] > n]_sessionVars
  BY <1>1
<1>3. QED
  BY <1>2, HelperInvHolds, PTL DEF SessionSpec, NoScriptAfterAnswer

============================================================================
