----------------------------- MODULE ActivityLog -----------------------------
(***************************************************************************)
(* The activity log of RwaLogService: a buffer of the latest entries, and  *)
(* an rxjs Subject for those who listen.  AgentLogService is the same code *)
(* under another name, and so is this module.                              *)
(*                                                                         *)
(* An entry is pushed, the buffer is cut and the Subject notified in one   *)
(* synchronous step; an answer is sent some awaits after getRecent has     *)
(* returned.  The log lives in memory: a behaviour is the life of one      *)
(* process.  Limits are in tenths, since slice truncates what is not whole.*)
(***************************************************************************)
EXTENDS Integers, Sequences

CONSTANTS
  Entries,      \* level, event and context of what is logged
  MaxEntries,   \* MAX_RWA_LOGS
  Default,      \* the limit when none is given: 200
  Limits,       \* limits a client may send, in tenths
  NoLimit,      \* none, or one that is not a finite number
  Readers,      \* clients that GET logs
  Subscribers,  \* clients of logs/stream
  MaxEmitted    \* bound: entries logged

ASSUME LogAssumption ==
  /\ MaxEntries \in Nat \ {0}
  /\ Default \in Nat \ {0}
  /\ Limits \subseteq Int
  /\ NoLimit \notin Int
  /\ MaxEmitted \in Nat

VARIABLES
  emitted,      \* auxiliary: everything ever logged; the code keeps entries
  entries,      \* the buffer
  reading,      \* the last request of each reader: its limit, the length of
                \* the log at the time, the answer, and whether it is sent
  feed          \* what each subscriber was sent since it subscribed

vars == <<emitted, entries, reading, feed>>

-----------------------------------------------------------------------------
Min2(a, b) == IF a < b THEN a ELSE b

\* The last n entries of s, or all if there are fewer.
LastOf(s, n) == SubSeq(s, Len(s) - Min2(n, Len(s)) + 1, Len(s))

\* Number(limit ?? '200') if that is finite, otherwise 200, in tenths.
SafeLimit(limit) == IF limit = NoLimit THEN 10 * Default ELSE limit

\* getRecent.  slice(-limit) drops the fraction; what it makes of a limit
\* below one is slice(-0), and that is the whole buffer.
Recent(limit) ==
  IF limit <= 0 THEN <<>>
  ELSE IF limit < 10 THEN entries ELSE LastOf(entries, limit \div 10)

\* Mutant: the buffer is cut before it is full.
PushedShort(entry) == LastOf(Append(entries, entry), MaxEntries - 1)

\* Mutant: a full buffer makes room at the wrong end.
PushedNewestLost(entry) ==
  IF Len(entries) = MaxEntries THEN entries ELSE Append(entries, entry)

\* entries.push and, beyond the bound, entries.splice from the front.
Pushed(entry) == LastOf(Append(entries, entry), MaxEntries)

-----------------------------------------------------------------------------
Init ==
  /\ emitted = <<>>
  /\ entries = <<>>
  /\ reading = [r \in Readers |->
                  [limit |-> NoLimit, at |-> 0, answer |-> <<>>, waits |-> FALSE]]
  /\ feed = [s \in Subscribers |-> [open |-> FALSE, since |-> 0, got |-> <<>>]]

\* Mutant: what a full buffer drops is not streamed either.
EmitUnheard(entry) ==
  /\ Len(emitted) < MaxEmitted
  /\ emitted' = Append(emitted, entry)
  /\ entries' = Pushed(entry)
  /\ feed' = [s \in Subscribers |->
                IF feed[s].open /\ Len(entries) < MaxEntries
                THEN [feed[s] EXCEPT !.got = Append(@, entry)] ELSE feed[s]]
  /\ UNCHANGED reading

\* emit.
Emit(entry) ==
  /\ Len(emitted) < MaxEmitted
  /\ emitted' = Append(emitted, entry)
  /\ entries' = Pushed(entry)
  /\ feed' = [s \in Subscribers |->
                IF feed[s].open THEN [feed[s] EXCEPT !.got = Append(@, entry)]
                ELSE feed[s]]
  /\ UNCHANGED reading

\* GET logs, up to the return of the handler.
GetLogs(r, limit) ==
  /\ ~reading[r].waits
  /\ reading' = [reading EXCEPT ![r] =
                   [limit |-> limit, at |-> Len(emitted),
                    answer |-> Recent(SafeLimit(limit)), waits |-> TRUE]]
  /\ UNCHANGED <<emitted, entries, feed>>

\* Mutant: getRecent lends the buffer out instead of copying from it.
RespondLate(r) ==
  /\ reading[r].waits
  /\ reading' = [reading EXCEPT ![r].waits = FALSE,
                                ![r].answer = Recent(SafeLimit(reading[r].limit))]
  /\ UNCHANGED <<emitted, entries, feed>>

\* The framework serialises what the handler has returned, a copy.
Respond(r) ==
  /\ reading[r].waits
  /\ reading' = [reading EXCEPT ![r].waits = FALSE]
  /\ UNCHANGED <<emitted, entries, feed>>

\* logs/stream: a Subject replays nothing.
Subscribe(s) ==
  /\ ~feed[s].open
  /\ feed' = [feed EXCEPT ![s] = [open |-> TRUE, since |-> Len(emitted), got |-> <<>>]]
  /\ UNCHANGED <<emitted, entries, reading>>

\* The client goes away.
Disconnect(s) ==
  /\ feed[s].open
  /\ feed' = [feed EXCEPT ![s].open = FALSE]
  /\ UNCHANGED <<emitted, entries, reading>>

Next ==
  \/ \E entry \in Entries : Emit(entry)
  \/ \E r \in Readers :
       \/ \E limit \in Limits \cup {NoLimit} : GetLogs(r, limit)
       \/ Respond(r)
  \/ \E s \in Subscribers : Subscribe(s) \/ Disconnect(s)

Spec == Init /\ [][Next]_vars
-----------------------------------------------------------------------------
TypeOK ==
  /\ emitted \in Seq(Entries)
  /\ entries \in Seq(Entries)
  /\ reading \in [Readers -> [limit : Limits \cup {NoLimit}, at : Nat,
                              answer : Seq(Entries), waits : BOOLEAN]]
  /\ feed \in [Subscribers -> [open : BOOLEAN, since : Nat, got : Seq(Entries)]]

\* How many entries an answer to a limit may have.
Allowed(limit) ==
  IF limit <= 0 THEN 0 ELSE IF limit < 10 THEN MaxEntries ELSE limit \div 10

\* An answer is as long as the limit, the bound and the log at the time allow:
\* the buffer lost nothing it had room for, and nothing that was logged before
\* the answer is sent has slipped in.
AnswersFull ==
  \A r \in Readers :
    Len(reading[r].answer) = Min2(Allowed(SafeLimit(reading[r].limit)),
                                  Min2(reading[r].at, MaxEntries))

\* A client that subscribes before it reads has every entry from the first of
\* its answer on, in the answer or, after that, from the stream.
SubscribeThenReadGapless ==
  \A s \in Subscribers, r \in Readers :
    feed[s].open /\ feed[s].since <= reading[r].at =>
      LET before == reading[r].at - Len(reading[r].answer)
      IN  \A i \in DOMAIN emitted : i > before =>
            IF i <= reading[r].at THEN reading[r].answer[i - before] = emitted[i]
            ELSE i - feed[s].since \in DOMAIN feed[s].got
                 /\ feed[s].got[i - feed[s].since] = emitted[i]

\* A client that polls misses nothing if no more was logged since its last
\* answer than the limit and the bound allow.
PollsGapless ==
  [][\A r \in Readers :
       LET limit == SafeLimit(reading'[r].limit)
           news  == Len(emitted) - reading[r].at
       IN  /\ reading'[r].waits /\ ~reading[r].waits
           /\ limit >= 10 /\ news <= Min2(limit \div 10, MaxEntries)
           => \A i \in 1 .. news :
                reading'[r].answer[Len(reading'[r].answer) - news + i]
                  = emitted[reading[r].at + i]]_vars

Promise == INSTANCE AppendOnlyLog WITH
  log     <- emitted,
  reading <- [r \in Readers |-> [waits |-> reading[r].waits, answer |-> reading[r].answer]],
  feed    <- [s \in Subscribers |-> [open |-> feed[s].open, got |-> feed[s].got]],
  Window  <- MaxEntries

\* The buffer, with all it drops, does what AppendOnlyLog says.
ImplementsPromise == Promise!Spec
=============================================================================
