-------------------------- MODULE ActivityLogProofs --------------------------
(* Proofs about ActivityLog, for buffers of any size and any limits.        *)
EXTENDS ActivityLog, SequenceTheorems, TLAPS

\* s is what a log said just before its entry at + 1.
EndsAt(s, log, at) ==
  /\ Len(s) <= at /\ at <= Len(log)
  /\ \A i \in 1 .. Len(s) : s[i] = log[at - Len(s) + i]

\* The buffer is the end of the log, an answer the end of the log as it was,
\* a stream what the log said from the subscription on.
BufferLatest ==
  /\ Len(entries) = Min2(Len(emitted), MaxEntries)
  /\ EndsAt(entries, emitted, Len(emitted))

AnswerOK(r) ==
  /\ Len(reading[r].answer) = Min2(Allowed(SafeLimit(reading[r].limit)),
                                   Min2(reading[r].at, MaxEntries))
  /\ EndsAt(reading[r].answer, emitted, reading[r].at)

FeedOK(s) ==
  /\ EndsAt(feed[s].got, emitted, feed[s].since + Len(feed[s].got))
  /\ feed[s].open => feed[s].since + Len(feed[s].got) = Len(emitted)

Inv ==
  /\ TypeOK
  /\ BufferLatest
  /\ \A r \in Readers : AnswerOK(r)
  /\ \A s \in Subscribers : FeedOK(s)

-----------------------------------------------------------------------------
\* What LastOf returns.
LEMMA LastOfEnds ==
  ASSUME NEW S, NEW s \in Seq(S), NEW n \in Nat
  PROVE  /\ LastOf(s, n) \in Seq(S)
         /\ Len(LastOf(s, n)) = Min2(n, Len(s))
         /\ EndsAt(LastOf(s, n), s, Len(s))
<1> DEFINE k == Min2(n, Len(s))
<1>1. k \in Nat /\ k <= Len(s) /\ Len(s) \in Nat
  BY DEF Min2
<1>2. \A i \in Len(s) - k + 1 .. Len(s) : s[i] \in S
  BY <1>1, ElementOfSeq
<1>3. /\ SubSeq(s, Len(s) - k + 1, Len(s)) \in Seq(S)
      /\ Len(SubSeq(s, Len(s) - k + 1, Len(s))) =
           IF Len(s) - k + 1 <= Len(s) THEN Len(s) - (Len(s) - k + 1) + 1 ELSE 0
      /\ \A i \in 1 .. Len(s) - (Len(s) - k + 1) + 1 :
           SubSeq(s, Len(s) - k + 1, Len(s))[i] = s[Len(s) - k + 1 + i - 1]
  <2> HIDE DEF k
  <2> QED BY <1>1, <1>2, SubSeqProperties
<1>4. QED
  <2> HIDE DEF k
  <2>1. /\ Len(SubSeq(s, Len(s) - k + 1, Len(s))) = k
        /\ \A i \in 1 .. k : SubSeq(s, Len(s) - k + 1, Len(s))[i] = s[Len(s) - k + i]
    BY <1>1, <1>3
  <2>2. LastOf(s, n) = SubSeq(s, Len(s) - k + 1, Len(s)) /\ k = Min2(n, Len(s))
    BY DEF k, LastOf
  <2> QED BY <1>1, <2>1, <2>2, <1>3 DEF EndsAt

\* The end of an end is an end.
LEMMA EndOfEnd ==
  ASSUME NEW S, NEW log \in Seq(S), NEW s \in Seq(S), NEW t \in Seq(S), NEW at \in Nat,
         EndsAt(s, log, at), EndsAt(t, s, Len(s))
  PROVE  EndsAt(t, log, at)
<1>1. Len(s) \in Nat /\ Len(t) \in Nat
  OBVIOUS
<1>2. ASSUME NEW i \in 1 .. Len(t) PROVE t[i] = log[at - Len(t) + i]
  <2>1. Len(s) - Len(t) + i \in 1 .. Len(s)
    BY <1>1 DEF EndsAt
  <2>2. t[i] = s[Len(s) - Len(t) + i]
    BY DEF EndsAt
  <2>3. s[Len(s) - Len(t) + i] = log[at - Len(s) + (Len(s) - Len(t) + i)]
    BY <2>1 DEF EndsAt
  <2>4. at - Len(s) + (Len(s) - Len(t) + i) = at - Len(t) + i
    BY <1>1
  <2> QED BY <2>2, <2>3, <2>4
<1> QED BY <1>1, <1>2 DEF EndsAt

\* What a log said stays said.
LEMMA EndKept ==
  ASSUME NEW S, NEW log \in Seq(S), NEW s \in Seq(S), NEW at \in Nat, NEW e \in S,
         EndsAt(s, log, at)
  PROVE  EndsAt(s, Append(log, e), at)
<1>1. /\ Len(Append(log, e)) = Len(log) + 1
      /\ \A i \in 1 .. Len(log) : Append(log, e)[i] = log[i]
  BY AppendProperties
<1>2. ASSUME NEW i \in 1 .. Len(s) PROVE s[i] = Append(log, e)[at - Len(s) + i]
  <2>1. at - Len(s) + i \in 1 .. Len(log)
    BY DEF EndsAt
  <2> QED BY <1>1, <2>1 DEF EndsAt
<1> QED BY <1>1, <1>2 DEF EndsAt

\* The end of a log goes on with it.
LEMMA EndGrown ==
  ASSUME NEW S, NEW log \in Seq(S), NEW s \in Seq(S), NEW e \in S,
         EndsAt(s, log, Len(log))
  PROVE  /\ Append(s, e) \in Seq(S) /\ Len(Append(s, e)) = Len(s) + 1
         /\ Append(log, e) \in Seq(S) /\ Len(Append(log, e)) = Len(log) + 1
         /\ EndsAt(Append(s, e), Append(log, e), Len(log) + 1)
<1>1. /\ Append(log, e) \in Seq(S) /\ Len(Append(log, e)) = Len(log) + 1
      /\ Append(log, e)[Len(log) + 1] = e
      /\ \A i \in 1 .. Len(log) : Append(log, e)[i] = log[i]
  BY AppendProperties
<1>2. /\ Append(s, e) \in Seq(S) /\ Len(Append(s, e)) = Len(s) + 1
      /\ Append(s, e)[Len(s) + 1] = e
      /\ \A i \in 1 .. Len(s) : Append(s, e)[i] = s[i]
  BY AppendProperties
<1>3. ASSUME NEW i \in 1 .. Len(s) + 1
      PROVE  Append(s, e)[i] = Append(log, e)[Len(log) + 1 - (Len(s) + 1) + i]
  <2>1. CASE i = Len(s) + 1
    <3>1. Len(log) + 1 - (Len(s) + 1) + i = Len(log) + 1
      BY <2>1
    <3> QED BY <1>1, <1>2, <2>1, <3>1
  <2>2. CASE i <= Len(s)
    <3>1. /\ i \in 1 .. Len(s) /\ Len(log) - Len(s) + i \in 1 .. Len(log)
          /\ Len(log) + 1 - (Len(s) + 1) + i = Len(log) - Len(s) + i
      BY <2>2 DEF EndsAt
    <3>2. s[i] = log[Len(log) - Len(s) + i]
      BY <3>1 DEF EndsAt
    <3> QED BY <1>1, <1>2, <3>1, <3>2
  <2>3. i = Len(s) + 1 \/ i <= Len(s)
    OBVIOUS
  <2> QED BY <2>1, <2>2, <2>3, Zenon
<1>4. Len(s) + 1 <= Len(log) + 1
  BY DEF EndsAt
<1>5. EndsAt(Append(s, e), Append(log, e), Len(log) + 1)
  <2>1. PICK t : t = Append(s, e)
    OBVIOUS
  <2>2. PICK new : new = Append(log, e)
    OBVIOUS
  <2>3. /\ Len(t) = Len(s) + 1 /\ Len(new) = Len(log) + 1
        /\ \A i \in 1 .. Len(s) + 1 : t[i] = new[Len(log) + 1 - (Len(s) + 1) + i]
    BY <1>1, <1>2, <1>3, <2>1, <2>2, Zenon
  <2>4. EndsAt(t, new, Len(log) + 1)
    BY <1>4, <2>3 DEF EndsAt
  <2> QED BY <2>1, <2>2, <2>4
<1> QED BY <1>1, <1>2, <1>5

\* A limit is a number whatever the client sent.
LEMMA LimitIsNumber ==
  ASSUME NEW limit \in Limits \cup {NoLimit}
  PROVE  SafeLimit(limit) \in Int /\ Allowed(SafeLimit(limit)) \in Nat
BY LogAssumption DEF SafeLimit, Allowed

\* What getRecent returns is the end of the log, as much of it as is allowed.
LEMMA RecentEnds ==
  ASSUME Inv, NEW limit \in Int
  PROVE  /\ Recent(limit) \in Seq(Entries)
         /\ Len(Recent(limit)) = Min2(Allowed(limit), Min2(Len(emitted), MaxEntries))
         /\ EndsAt(Recent(limit), emitted, Len(emitted))
<1>1. /\ emitted \in Seq(Entries) /\ entries \in Seq(Entries) /\ Len(emitted) \in Nat
      /\ Len(entries) = Min2(Len(emitted), MaxEntries) /\ MaxEntries \in Nat
      /\ EndsAt(entries, emitted, Len(emitted))
  BY LogAssumption DEF Inv, TypeOK, BufferLatest
<1>2. CASE limit <= 0
  <2>1. Recent(limit) = <<>> /\ Allowed(limit) = 0
    BY <1>2 DEF Recent, Allowed
  <2>2. <<>> \in Seq(Entries) /\ Len(<<>>) = 0
    OBVIOUS
  <2> QED BY <1>1, <2>1, <2>2 DEF Min2, EndsAt
<1>3. CASE limit > 0 /\ limit < 10
  <2>1. Recent(limit) = entries /\ Allowed(limit) = MaxEntries
    BY <1>3 DEF Recent, Allowed
  <2> QED BY <1>1, <2>1 DEF Min2
<1>4. CASE limit >= 10
  <2>1. limit \div 10 \in Nat
    BY <1>4
  <2>2. Recent(limit) = LastOf(entries, limit \div 10) /\ Allowed(limit) = limit \div 10
    <3>1. ~(limit <= 0) /\ ~(limit < 10)
      BY <1>4
    <3> QED BY <3>1, Zenon DEF Recent, Allowed
  <2>3. PICK n \in Nat : n = limit \div 10
    BY <2>1
  <2>4. /\ LastOf(entries, n) \in Seq(Entries)
        /\ Len(LastOf(entries, n)) = Min2(n, Len(entries))
        /\ EndsAt(LastOf(entries, n), entries, Len(entries))
    BY <1>1, LastOfEnds
  <2>5. EndsAt(LastOf(entries, n), emitted, Len(emitted))
    BY <1>1, <2>4, EndOfEnd
  <2>6. Min2(n, Len(entries)) = Min2(n, Min2(Len(emitted), MaxEntries))
    BY <1>1
  <2> QED BY <2>2, <2>3, <2>4, <2>5, <2>6
<1> QED BY <1>2, <1>3, <1>4

\* The empty log of constructor time satisfies the invariant.
LEMMA InitOK == Init => Inv
<1> SUFFICES ASSUME Init PROVE Inv
  OBVIOUS
<1>1. <<>> \in Seq(Entries) /\ Len(<<>>) = 0
  OBVIOUS
<1>2. TypeOK
  BY <1>1 DEF Init, TypeOK
<1>3. BufferLatest
  BY <1>1, LogAssumption DEF Init, BufferLatest, EndsAt, Min2
<1>4. ASSUME NEW r \in Readers PROVE AnswerOK(r)
  <2>1. reading[r].answer = <<>> /\ reading[r].at = 0 /\ reading[r].limit = NoLimit
    BY DEF Init
  <2>2. Allowed(SafeLimit(NoLimit)) \in Nat
    BY LimitIsNumber
  <2> QED BY <1>1, <2>1, <2>2, LogAssumption DEF Init, AnswerOK, EndsAt, Min2
<1>5. ASSUME NEW s \in Subscribers PROVE FeedOK(s)
  BY <1>1 DEF Init, FeedOK, EndsAt
<1> QED BY <1>2, <1>3, <1>4, <1>5 DEF Inv

\* emit keeps the invariant: the append, the trim and the delivery together.
LEMMA EmitKeeps ==
  ASSUME Inv, NEW entry \in Entries, Emit(entry)
  PROVE  Inv'
<1>1. /\ emitted \in Seq(Entries) /\ entries \in Seq(Entries)
      /\ Len(emitted) \in Nat /\ Len(entries) \in Nat
      /\ MaxEntries \in Nat \ {0}
  BY LogAssumption DEF Inv, TypeOK
<1>2. PICK new : new = Append(emitted, entry)
  OBVIOUS
<1>3. PICK full : full = Append(entries, entry)
  OBVIOUS
<1>4. emitted' = new /\ entries' = LastOf(full, MaxEntries) /\ reading' = reading
  BY <1>2, <1>3 DEF Emit, Pushed
<1>5. /\ full \in Seq(Entries) /\ Len(full) = Len(entries) + 1
      /\ new \in Seq(Entries) /\ Len(new) = Len(emitted) + 1
      /\ EndsAt(full, new, Len(new))
  BY <1>1, <1>2, <1>3, EndGrown DEF Inv, BufferLatest
<1>6. BufferLatest' /\ entries' \in Seq(Entries)
  <2>1. /\ entries' \in Seq(Entries)
        /\ Len(entries') = Min2(MaxEntries, Len(full))
        /\ EndsAt(entries', full, Len(full))
    BY <1>1, <1>4, <1>5, LastOfEnds
  <2>2. EndsAt(entries', new, Len(new))
    BY <1>5, <2>1, EndOfEnd
  <2>3. Len(entries') = Min2(Len(new), MaxEntries)
    BY <1>1, <1>5, <2>1 DEF Inv, BufferLatest, Min2
  <2> QED BY <1>4, <2>1, <2>2, <2>3 DEF BufferLatest
<1>7. ASSUME NEW r \in Readers PROVE AnswerOK(r)'
  <2>1. reading[r].at \in Nat /\ reading[r].answer \in Seq(Entries)
    BY DEF Inv, TypeOK
  <2>2. EndsAt(reading[r].answer, new, reading[r].at)
    BY <1>1, <1>2, <2>1, EndKept DEF Inv, AnswerOK
  <2> QED BY <1>4, <2>2 DEF Inv, AnswerOK
<1>8. ASSUME NEW s \in Subscribers
      PROVE  feed'[s] \in [open : BOOLEAN, since : Nat, got : Seq(Entries)] /\ FeedOK(s)'
  <2>1. PICK f : f = feed[s]
    OBVIOUS
  <2>2. f \in [open : BOOLEAN, since : Nat, got : Seq(Entries)]
    BY <2>1 DEF Inv, TypeOK
  <2>3. /\ EndsAt(f.got, emitted, f.since + Len(f.got))
        /\ f.open => f.since + Len(f.got) = Len(emitted)
    BY <2>1 DEF Inv, FeedOK
  <2>4. CASE f.open
    <3>1. PICK longer : longer = Append(f.got, entry)
      OBVIOUS
    <3>2. /\ longer \in Seq(Entries) /\ Len(longer) = Len(f.got) + 1
          /\ EndsAt(longer, new, Len(new))
      BY <1>1, <1>2, <1>5, <2>2, <2>3, <2>4, <3>1, EndGrown
    <3>3. PICK g : g = [f EXCEPT !.got = longer]
      OBVIOUS
    <3>4. g.open = f.open /\ g.since = f.since /\ g.got = longer
          /\ g \in [open : BOOLEAN, since : Nat, got : Seq(Entries)]
      BY <2>2, <3>2, <3>3
    <3>5. feed'[s] = g
      BY <2>1, <2>4, <3>1, <3>3 DEF Emit
    <3>6. f.since + Len(longer) = Len(new)
      BY <1>5, <2>2, <2>3, <2>4, <3>2
    <3> QED BY <1>4, <3>2, <3>4, <3>5, <3>6 DEF FeedOK
  <2>5. CASE ~f.open
    <3>1. feed'[s] = f
      BY <2>1, <2>5 DEF Emit
    <3>2. f.since + Len(f.got) \in Nat
      BY <2>2
    <3>3. EndsAt(f.got, new, f.since + Len(f.got))
      BY <1>1, <1>2, <2>2, <2>3, <3>2, EndKept
    <3> QED BY <1>4, <2>2, <2>5, <3>1, <3>3 DEF FeedOK
  <2> QED BY <2>4, <2>5
<1>9. TypeOK'
  <2>1. feed' = [s \in Subscribers |-> feed'[s]]
    BY DEF Emit
  <2>2. feed' \in [Subscribers -> [open : BOOLEAN, since : Nat, got : Seq(Entries)]]
    BY <1>8, <2>1
  <2> QED BY <1>4, <1>5, <1>6, <2>2 DEF Inv, TypeOK
<1> QED BY <1>6, <1>7, <1>8, <1>9 DEF Inv

\* getLogs, which only remembers what it will answer, keeps the invariant.
LEMMA GetLogsKeeps ==
  ASSUME Inv, NEW r \in Readers, NEW limit \in Limits \cup {NoLimit}, GetLogs(r, limit)
  PROVE  Inv'
<1> PICK answer : answer = Recent(SafeLimit(limit))
  OBVIOUS
<1> PICK new : new = [limit |-> limit, at |-> Len(emitted), answer |-> answer, waits |-> TRUE]
  OBVIOUS
<1>1. /\ reading' = [reading EXCEPT ![r] = new]
      /\ emitted' = emitted /\ entries' = entries /\ feed' = feed
  BY DEF GetLogs
<1>2. /\ answer \in Seq(Entries)
      /\ Len(answer) = Min2(Allowed(SafeLimit(limit)), Min2(Len(emitted), MaxEntries))
      /\ EndsAt(answer, emitted, Len(emitted))
  BY RecentEnds, LimitIsNumber
<1>3. new.limit = limit /\ new.at = Len(emitted) /\ new.answer = answer
      /\ new \in [limit : Limits \cup {NoLimit}, at : Nat,
                  answer : Seq(Entries), waits : BOOLEAN]
  BY <1>2 DEF Inv, TypeOK
<1>4. TypeOK'
  BY <1>1, <1>3 DEF Inv, TypeOK
<1>5. ASSUME NEW q \in Readers PROVE AnswerOK(q)'
  <2>1. CASE q = r
    <3>1. reading'[q] = new
      BY <1>1, <2>1 DEF Inv, TypeOK
    <3> QED BY <1>1, <1>2, <1>3, <3>1 DEF AnswerOK
  <2>2. CASE q # r
    <3>1. reading'[q] = reading[q]
      BY <1>1, <2>2 DEF Inv, TypeOK
    <3> QED BY <1>1, <3>1 DEF Inv, AnswerOK
  <2> QED BY <2>1, <2>2
<1> QED BY <1>1, <1>4, <1>5 DEF Inv, BufferLatest, FeedOK

\* An answer that is sent, after which the reader is idle, keeps the invariant.
LEMMA RespondKeeps ==
  ASSUME Inv, NEW r \in Readers, Respond(r)
  PROVE  Inv'
<1>1. TypeOK'
  BY DEF Inv, TypeOK, Respond
<1>2. ASSUME NEW q \in Readers
      PROVE  /\ reading'[q].limit = reading[q].limit /\ reading'[q].at = reading[q].at
             /\ reading'[q].answer = reading[q].answer
  BY DEF Inv, TypeOK, Respond
<1> QED BY <1>1, <1>2 DEF Inv, Respond, BufferLatest, AnswerOK, FeedOK

\* A subscriber that connects has nothing to have missed.
LEMMA SubscribeKeeps ==
  ASSUME Inv, NEW s \in Subscribers, Subscribe(s)
  PROVE  Inv'
<1> PICK new : new = [open |-> TRUE, since |-> Len(emitted), got |-> <<>>]
  OBVIOUS
<1>1. new.since = Len(emitted) /\ new.got = <<>> /\ Len(new.got) = 0
      /\ new \in [open : BOOLEAN, since : Nat, got : Seq(Entries)]
  BY DEF Inv, TypeOK
<1>2. /\ feed' = [feed EXCEPT ![s] = new]
      /\ emitted' = emitted /\ entries' = entries /\ reading' = reading
  BY DEF Subscribe
<1>3. TypeOK'
  BY <1>1, <1>2 DEF Inv, TypeOK
<1>4. ASSUME NEW q \in Subscribers PROVE FeedOK(q)'
  <2>1. CASE q = s
    <3>1. feed'[q] = new
      BY <1>2, <2>1 DEF Inv, TypeOK
    <3>2. Len(emitted) \in Nat /\ new.since + Len(new.got) = Len(emitted)
      BY <1>1 DEF Inv, TypeOK
    <3>3. EndsAt(new.got, emitted, Len(emitted))
      BY <1>1, <3>2 DEF EndsAt
    <3> QED BY <1>2, <3>1, <3>2, <3>3 DEF FeedOK
  <2>2. CASE q # s
    <3>1. feed'[q] = feed[q]
      BY <1>2, <2>2 DEF Inv, TypeOK
    <3> QED BY <1>2, <3>1 DEF Inv, FeedOK
  <2> QED BY <2>1, <2>2
<1> QED BY <1>2, <1>3, <1>4 DEF Inv, BufferLatest, AnswerOK

\* A subscriber that leaves drops what it had received.
LEMMA DisconnectKeeps ==
  ASSUME Inv, NEW s \in Subscribers, Disconnect(s)
  PROVE  Inv'
<1>1. TypeOK'
  BY DEF Inv, TypeOK, Disconnect
<1>2. ASSUME NEW q \in Subscribers
      PROVE  /\ feed'[q].since = feed[q].since /\ feed'[q].got = feed[q].got
             /\ feed'[q].open => feed[q].open
  BY DEF Inv, TypeOK, Disconnect
<1> QED BY <1>1, <1>2 DEF Inv, Disconnect, BufferLatest, AnswerOK, FeedOK

\* Every step of the log, and every stutter, keeps the invariant.
LEMMA StepKeeps == Inv /\ [Next]_vars => Inv'
<1> SUFFICES ASSUME Inv, [Next]_vars PROVE Inv'
  OBVIOUS
<1>1. CASE Next
  BY <1>1, EmitKeeps, GetLogsKeeps, RespondKeeps, SubscribeKeeps, DisconnectKeeps DEF Next
<1>2. CASE UNCHANGED vars
  BY <1>2 DEF vars, Inv, TypeOK, BufferLatest, AnswerOK, FeedOK
<1> QED BY <1>1, <1>2

\* The invariant holds in every reachable state.
LEMMA Invariance == Spec => []Inv
BY InitOK, StepKeeps, PTL DEF Spec

-----------------------------------------------------------------------------
\* The log, the buffer, the answers and the streams keep their types.
THEOREM TypeCorrect == Spec => []TypeOK
<1>1. Inv => TypeOK
  BY DEF Inv
<1> QED BY <1>1, Invariance, PTL

\* An answer is as long as limit, bound and log allow, for every size of the
\* buffer and every limit, fractions included.
THEOREM AnswersAlwaysFull == Spec => []AnswersFull
<1>1. Inv => AnswersFull
  BY DEF Inv, AnswersFull, AnswerOK
<1> QED BY <1>1, Invariance, PTL

\* Who subscribes before reading misses nothing, whatever the buffer drops.
THEOREM NoGapAfterSubscribing == Spec => []SubscribeThenReadGapless
<1>1. Inv => SubscribeThenReadGapless
  <2> SUFFICES ASSUME Inv, NEW s \in Subscribers, NEW r \in Readers,
                      feed[s].open, feed[s].since <= reading[r].at,
                      NEW i \in DOMAIN emitted, i > reading[r].at - Len(reading[r].answer)
               PROVE  IF i <= reading[r].at
                      THEN reading[r].answer[i - (reading[r].at - Len(reading[r].answer))] = emitted[i]
                      ELSE /\ i - feed[s].since \in DOMAIN feed[s].got
                           /\ feed[s].got[i - feed[s].since] = emitted[i]
    BY DEF SubscribeThenReadGapless
  <2>1. /\ reading[r].at \in Nat /\ reading[r].answer \in Seq(Entries)
        /\ feed[s].since \in Nat /\ feed[s].got \in Seq(Entries)
        /\ i \in 1 .. Len(emitted) /\ Len(emitted) \in Nat
    BY DEF Inv, TypeOK
  <2>2. AnswerOK(r) /\ FeedOK(s)
    BY DEF Inv
  <2>5. Len(reading[r].answer) \in Nat /\ Len(feed[s].got) \in Nat
    BY <2>1
  <2>3. CASE i <= reading[r].at
    <3>1. PICK j : j = i - (reading[r].at - Len(reading[r].answer))
      OBVIOUS
    <3>2. j \in 1 .. Len(reading[r].answer) /\ reading[r].at - Len(reading[r].answer) + j = i
      BY <2>1, <2>5, <2>3, <3>1
    <3>3. reading[r].answer[j] = emitted[reading[r].at - Len(reading[r].answer) + j]
      BY <2>2, <3>2 DEF AnswerOK, EndsAt
    <3> QED BY <2>3, <3>1, <3>2, <3>3
  <2>4. CASE ~(i <= reading[r].at)
    <3>1. PICK got : got = feed[s].got
      OBVIOUS
    <3>2. PICK since \in Nat : since = feed[s].since
      BY <2>1
    <3>3. /\ got \in Seq(Entries) /\ Len(got) \in Nat
          /\ EndsAt(got, emitted, since + Len(got)) /\ since + Len(got) = Len(emitted)
      BY <2>1, <2>2, <2>5, <3>1, <3>2 DEF FeedOK
    <3>4. i > since
      BY <2>1, <2>4, <3>2
    <3>5. /\ i - since \in 1 .. Len(got)
          /\ since + Len(got) - Len(got) + (i - since) = i
      BY <2>1, <3>3, <3>4
    <3>6. got[i - since] = emitted[since + Len(got) - Len(got) + (i - since)]
      BY <3>3, <3>5 DEF EndsAt
    <3>7. i - since \in DOMAIN got
      BY <3>3, <3>5
    <3> QED BY <2>4, <3>1, <3>2, <3>5, <3>6, <3>7
  <2> QED BY <2>1, <2>3, <2>4
<1> QED BY <1>1, Invariance, PTL

\* The place in an answer of what is news to the reader.
LEMMA ShiftWithin ==
  ASSUME NEW total \in Nat, NEW at \in Nat, NEW len \in Nat, NEW i \in 1 .. total - at,
         len >= total - at
  PROVE  /\ len - (total - at) + i \in 1 .. len
         /\ total - len + (len - (total - at) + i) = at + i
OBVIOUS

\* Who polls often enough misses nothing, whatever is logged between two polls.
THEOREM NoGapBetweenPolls == Spec => PollsGapless
<1>1. Inv /\ Inv' /\ [Next]_vars =>
        [\A r \in Readers :
           LET limit == SafeLimit(reading'[r].limit)
               news  == Len(emitted) - reading[r].at
           IN  /\ reading'[r].waits /\ ~reading[r].waits
               /\ limit >= 10 /\ news <= Min2(limit \div 10, MaxEntries)
               => \A i \in 1 .. news :
                    reading'[r].answer[Len(reading'[r].answer) - news + i]
                      = emitted[reading[r].at + i]]_vars
  <2> SUFFICES ASSUME Inv, [Next]_vars, NEW r \in Readers,
                      reading'[r].waits, ~reading[r].waits,
                      SafeLimit(reading'[r].limit) >= 10,
                      Len(emitted) - reading[r].at
                        <= Min2(SafeLimit(reading'[r].limit) \div 10, MaxEntries)
               PROVE  \A i \in 1 .. Len(emitted) - reading[r].at :
                        reading'[r].answer[Len(reading'[r].answer)
                                             - (Len(emitted) - reading[r].at) + i]
                          = emitted[reading[r].at + i]
    BY Zenon
  <2>1. PICK limit \in Limits \cup {NoLimit} : GetLogs(r, limit)
    <3>1. CASE UNCHANGED vars
      BY <3>1 DEF vars
    <3>2. ASSUME NEW entry \in Entries, Emit(entry) PROVE FALSE
      BY <3>2 DEF Emit
    <3>3. ASSUME NEW q \in Readers, NEW limit \in Limits \cup {NoLimit},
                 GetLogs(q, limit), q # r
          PROVE  FALSE
      BY <3>3 DEF GetLogs, Inv, TypeOK
    <3>4. ASSUME NEW q \in Readers, Respond(q) PROVE FALSE
      BY <3>4 DEF Respond, Inv, TypeOK
    <3>5. ASSUME NEW s \in Subscribers, Subscribe(s) \/ Disconnect(s) PROVE FALSE
      BY <3>5 DEF Subscribe, Disconnect
    <3> QED BY <3>1, <3>2, <3>3, <3>4, <3>5 DEF Next
  <2>2. PICK answer : answer = Recent(SafeLimit(limit))
    OBVIOUS
  <2>3. reading'[r].answer = answer /\ reading'[r].limit = limit
    BY <2>1, <2>2 DEF GetLogs, Inv, TypeOK
  <2>4. PICK l \in Int : l = SafeLimit(limit)
    BY LimitIsNumber
  <2>5. /\ answer \in Seq(Entries)
        /\ Len(answer) = Min2(Allowed(l), Min2(Len(emitted), MaxEntries))
        /\ EndsAt(answer, emitted, Len(emitted))
    BY <2>2, <2>4, RecentEnds
  <2>6. PICK at \in Nat : at = reading[r].at /\ at <= Len(emitted)
    BY DEF Inv, TypeOK, AnswerOK, EndsAt
  <2>7. l >= 10 /\ Allowed(l) = l \div 10
    <3>1. l >= 10
      BY <2>3, <2>4
    <3>2. ~(l <= 0) /\ ~(l < 10)
      BY <3>1
    <3> QED BY <3>1, <3>2, Zenon DEF Allowed
  <2>8. PICK n \in Nat : n = l \div 10
    BY <2>7
  <2>9. /\ Len(emitted) \in Nat /\ MaxEntries \in Nat
        /\ Len(emitted) - at <= Min2(n, MaxEntries)
    BY <2>3, <2>4, <2>6, <2>8, LogAssumption DEF Inv, TypeOK
  <2>10. PICK total \in Nat : total = Len(emitted)
    BY <2>9
  <2>11. PICK len \in Nat : len = Len(answer)
    BY <2>5
  <2>12. len >= total - at
    BY <2>5, <2>6, <2>7, <2>8, <2>9, <2>10, <2>11 DEF Min2
  <2>13. ASSUME NEW i \in 1 .. total - at
         PROVE  answer[len - (total - at) + i] = emitted[at + i]
    <3>1. PICK j : j = len - (total - at) + i
      OBVIOUS
    <3>2. j \in 1 .. len /\ total - len + j = at + i
      BY <2>12, <3>1, ShiftWithin
    <3>3. answer[j] = emitted[total - len + j]
      BY <2>5, <2>10, <2>11, <3>2 DEF EndsAt
    <3> QED BY <3>1, <3>2, <3>3
  <2> QED BY <2>3, <2>6, <2>10, <2>11, <2>13
<1> QED BY <1>1, Invariance, PTL DEF Spec, PollsGapless

-----------------------------------------------------------------------------
(* The buffer implements the log that keeps everything. *)

\* An answer that ends a log is one AppendOnlyLog allows.
LEMMA EndIsLastOf ==
  ASSUME NEW S, NEW log \in Seq(S), NEW s \in Seq(S), EndsAt(s, log, Len(log))
  PROVE  s = Promise!LastOf(log, Len(s))
<1>1. /\ Len(s) \in Nat /\ Len(log) \in Nat /\ Len(s) <= Len(log)
      /\ \A i \in 1 .. Len(s) : s[i] = log[Len(log) - Len(s) + i]
  BY DEF EndsAt
<1>2. PICK first \in Nat : first = Len(log) - Len(s) + 1
  <2>1. Len(log) - Len(s) + 1 \in Nat
    BY <1>1
  <2> QED BY <2>1
<1>3. \A i \in first .. Len(log) : log[i] \in S
  BY <1>1, <1>2, ElementOfSeq
<1>4. PICK t : t = SubSeq(log, first, Len(log))
  OBVIOUS
<1>5. /\ t \in Seq(S)
      /\ Len(t) = IF first <= Len(log) THEN Len(log) - first + 1 ELSE 0
      /\ \A i \in 1 .. Len(log) - first + 1 : t[i] = log[first + i - 1]
  BY <1>1, <1>2, <1>3, <1>4, SubSeqProperties
<1>6. Len(t) = Len(s)
  BY <1>1, <1>2, <1>5
<1>7. ASSUME NEW i \in 1 .. Len(s) PROVE t[i] = s[i]
  <2>1. i \in 1 .. Len(log) - first + 1 /\ first + i - 1 = Len(log) - Len(s) + i
    BY <1>1, <1>2
  <2> QED BY <1>1, <1>5, <2>1
<1>8. s = t
  BY <1>5, <1>6, <1>7, SeqEqual
<1> QED BY <1>2, <1>4, <1>8 DEF Promise!LastOf

\* Every step of the buffer is one of the log that keeps everything.
LEMMA StepPromised == Inv /\ [Next]_vars => [Promise!Next]_Promise!vars
<1> SUFFICES ASSUME Inv, [Next]_vars PROVE [Promise!Next]_Promise!vars
  OBVIOUS
<1> DEFINE answers == [r \in Readers |-> [waits |-> reading[r].waits,
                                         answer |-> reading[r].answer]]
<1> DEFINE streams == [s \in Subscribers |-> [open |-> feed[s].open, got |-> feed[s].got]]
<1>1. ASSUME NEW entry \in Entries, Emit(entry) PROVE Promise!Publish(entry)
  <2>1. emitted' = Append(emitted, entry) /\ reading' = reading
    BY <1>1 DEF Emit
  <2>2. ASSUME NEW s \in Subscribers
        PROVE  [open |-> feed'[s].open, got |-> feed'[s].got] =
                 IF feed[s].open THEN [open |-> TRUE, got |-> Append(feed[s].got, entry)]
                 ELSE [open |-> feed[s].open, got |-> feed[s].got]
    BY <1>1 DEF Emit, Inv, TypeOK
  <2> QED BY <2>1, <2>2 DEF Promise!Publish
<1>2. ASSUME NEW r \in Readers, NEW limit \in Limits \cup {NoLimit}, GetLogs(r, limit)
      PROVE  Promise!Ask(r)
  <2>1. PICK answer : answer = Recent(SafeLimit(limit))
    OBVIOUS
  <2>2. /\ answer \in Seq(Entries)
        /\ Len(answer) = Min2(Allowed(SafeLimit(limit)), Min2(Len(emitted), MaxEntries))
        /\ EndsAt(answer, emitted, Len(emitted))
    BY <2>1, LimitIsNumber, RecentEnds
  <2>3. answer = Promise!LastOf(emitted, Len(answer))
    BY <2>2, EndIsLastOf DEF Inv, TypeOK
  <2>4. Len(answer) \in 0 .. MaxEntries /\ Len(answer) <= Len(emitted)
    <3>1. Len(emitted) \in Nat /\ Allowed(SafeLimit(limit)) \in Nat
      BY LimitIsNumber DEF Inv, TypeOK
    <3> QED BY <2>2, <3>1, LogAssumption DEF Min2
  <2>5. ~reading[r].waits /\ emitted' = emitted /\ feed' = feed
    BY <1>2 DEF GetLogs
  <2>6. ASSUME NEW q \in Readers
        PROVE  [waits |-> reading'[q].waits, answer |-> reading'[q].answer] =
                 IF q = r THEN [waits |-> TRUE, answer |-> answer]
                 ELSE [waits |-> reading[q].waits, answer |-> reading[q].answer]
    BY <1>2, <2>1 DEF GetLogs, Inv, TypeOK
  <2>7. answers' = [answers EXCEPT ![r] = [waits |-> TRUE, answer |-> answer]]
    BY <2>6
  <2>8. \E n \in 0 .. MaxEntries :
          /\ n <= Len(emitted)
          /\ answers' = [answers EXCEPT ![r] =
                           [waits |-> TRUE, answer |-> Promise!LastOf(emitted, n)]]
    BY <2>3, <2>4, <2>7
  <2> QED BY <2>5, <2>8 DEF Promise!Ask
<1>3. ASSUME NEW r \in Readers, Respond(r) PROVE Promise!Answer(r)
  BY <1>3 DEF Respond, Promise!Answer, Inv, TypeOK
<1>4. ASSUME NEW s \in Subscribers, Subscribe(s) PROVE Promise!Open(s)
  BY <1>4 DEF Subscribe, Promise!Open, Inv, TypeOK
<1>5. ASSUME NEW s \in Subscribers, Disconnect(s) PROVE Promise!Close(s)
  BY <1>5 DEF Disconnect, Promise!Close, Inv, TypeOK
<1>6. CASE UNCHANGED vars
  BY <1>6 DEF vars, Promise!vars
<1> QED BY <1>1, <1>2, <1>3, <1>4, <1>5, <1>6 DEF Next, Promise!Next

\* The log with a bounded buffer implements the one that keeps everything.
THEOREM BufferKeepsPromise == Spec => ImplementsPromise
<1>1. Init => Promise!Init
  BY DEF Init, Promise!Init
<1> QED BY <1>1, StepPromised, Invariance, PTL DEF Spec, ImplementsPromise, Promise!Spec
=============================================================================
