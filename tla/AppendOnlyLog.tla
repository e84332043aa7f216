---------------------------- MODULE AppendOnlyLog ----------------------------
(***************************************************************************)
(* What the activity log promises those who read it, as if every entry     *)
(* were kept: an answer is the end of the log as it was when it was asked  *)
(* for, without holes, of Window entries at the most, and is not changed   *)
(* by what is logged before it is sent; a stream has every entry logged    *)
(* while it was open, once and in order, and is not changed after that.    *)
(***************************************************************************)
EXTENDS Naturals, Sequences

CONSTANTS
  Entries,      \* what may be logged
  Readers,      \* clients that ask for recent entries
  Subscribers,  \* clients that listen to the stream
  Window        \* how much of the log an answer may show

VARIABLES
  log,          \* everything logged
  reading,      \* the answer each reader got
  feed          \* what each stream carried

vars == <<log, reading, feed>>

\* The last n entries of a log.
LastOf(s, n) == SubSeq(s, Len(s) - n + 1, Len(s))

Init ==
  /\ log = <<>>
  /\ reading = [r \in Readers |-> [waits |-> FALSE, answer |-> <<>>]]
  /\ feed = [s \in Subscribers |-> [open |-> FALSE, got |-> <<>>]]

Publish(entry) ==
  /\ log' = Append(log, entry)
  /\ feed' = [s \in Subscribers |->
                IF feed[s].open THEN [open |-> TRUE, got |-> Append(feed[s].got, entry)]
                ELSE feed[s]]
  /\ UNCHANGED reading

Ask(r) ==
  /\ ~reading[r].waits
  /\ \E n \in 0 .. Window :
       /\ n <= Len(log)
       /\ reading' = [reading EXCEPT ![r] =
                        [waits |-> TRUE, answer |-> LastOf(log, n)]]
  /\ UNCHANGED <<log, feed>>

Answer(r) ==
  /\ reading[r].waits
  /\ reading' = [reading EXCEPT ![r] = [waits |-> FALSE, answer |-> reading[r].answer]]
  /\ UNCHANGED <<log, feed>>

Open(s) ==
  /\ ~feed[s].open
  /\ feed' = [feed EXCEPT ![s] = [open |-> TRUE, got |-> <<>>]]
  /\ UNCHANGED <<log, reading>>

Close(s) ==
  /\ feed[s].open
  /\ feed' = [feed EXCEPT ![s] = [open |-> FALSE, got |-> feed[s].got]]
  /\ UNCHANGED <<log, reading>>

Next ==
  \/ \E entry \in Entries : Publish(entry)
  \/ \E r \in Readers : Ask(r) \/ Answer(r)
  \/ \E s \in Subscribers : Open(s) \/ Close(s)

Spec == Init /\ [][Next]_vars
=============================================================================
