-------------------------- MODULE AuthAccountsProofs --------------------------
(***************************************************************************)
(* Proofs about AuthAccounts, for every set of addresses, secrets and      *)
(* requests and for both stores.                                           *)
(*                                                                         *)
(* The argument: once a signup has sent its account to the store, nothing  *)
(* changes what it asked for any more, so the request stands for the       *)
(* account; and a request that holds an account holds one that is there.   *)
(***************************************************************************)
EXTENDS AuthAccounts, TLAPS

Signups == {"signupEmail", "signupGoogle"}

\* The request has made an account that may be in the store.
Made(req) == req.op \in Signups /\ req.stage \in {"stored", "done", "failed"}

\* Every account comes from the signup that its id names.
Origin ==
  \A u \in users : Made(request[u.id]) /\ u = Account(u.id, request[u.id])

\* usersByEmail leads to signups with that address.
Directory ==
  \A e \in Emails : byEmail[e] # None =>
    Made(request[byEmail[e]]) /\ request[byEmail[e]].email = e

\* What a request that was let into an account knows of it.
LetIn(req) ==
  /\ req.account \in Requests
  /\ Made(request[req.account])
  /\ request[req.account].email = req.email
  /\ Provider(request[req.account].op) = Provider(req.op)
  /\ store = "postgres" \/ ~req.old => Account(req.account, request[req.account]) \in users

RequestOK(r, req) ==
  /\ req.stage # "idle" => req.email \in Emails /\ req.secret \in Secrets
  /\ req.stage \in {"hashing", "saving", "stored"} => req.op \in Signups
  /\ req.stage = "stored" => Account(r, req) \in users
  /\ req.stage = "comparing" => req.op = "loginEmail"
  /\ req.stage \in {"comparing", "done"} => LetIn(req)
  /\ req.stage = "done" /\ req.op = "loginEmail" => request[req.account].secret = req.secret
  /\ req.stage = "done" /\ req.op \in Signups => req.account = r

OneAccountPerIdentity ==
  \A u, v \in users :
    \/ u.email = v.email
    \/ u.provider = "google" /\ v.provider = "google" /\ u.secret = v.secret
    => u = v

\* The table refuses what the lookup of a signup was too early to see.
RowsUnique == store = "postgres" => OneAccountPerIdentity

Inv ==
  /\ TypeOK /\ Origin /\ Directory
  /\ \A r \in Requests : RequestOK(r, request[r])
  /\ RowsUnique

-----------------------------------------------------------------------------
(* A step of one request that takes nothing away. *)

SameQuestion(old, new) ==
  new.op = old.op /\ new.email = old.email /\ new.secret = old.secret

\* The request makes the account new, or none.
LEMMA StepOfOne ==
  ASSUME Inv, NEW r \in Requests, NEW new \in RequestRecords,
         request' = [request EXCEPT ![r] = new], store' = store,
         Made(request[r]) => Made(new) /\ SameQuestion(request[r], new),
         users \subseteq users', users' \in SUBSET Users,
         \A u \in users' \ users : u = Account(r, new) /\ Made(new) /\ u.id = r,
         byEmail' \in [Emails -> Requests \cup {None}],
         \A e \in Emails : byEmail'[e] = byEmail[e]
                           \/ (byEmail'[e] = r /\ new.email = e /\ Made(new)),
         RequestOK(r, new)', RowsUnique'
  PROVE  Inv'
<1>1. TypeOK /\ Origin /\ Directory /\ \A q \in Requests : RequestOK(q, request[q])
  BY DEF Inv
<1>2. request'[r] = new /\ \A q \in Requests : q # r => request'[q] = request[q]
  BY <1>1 DEF TypeOK
<1>3. \A q \in Requests : Made(request[q]) =>
        Made(request'[q]) /\ SameQuestion(request[q], request'[q])
  BY <1>2 DEF SameQuestion
<1>4. \A q \in Requests : Made(request[q]) => Account(q, request'[q]) = Account(q, request[q])
  BY <1>3 DEF SameQuestion, Account
<1>5. TypeOK'
  BY <1>1 DEF TypeOK
<1>6. Origin'
  <2> SUFFICES ASSUME NEW u \in users'
               PROVE  Made(request'[u.id]) /\ u = Account(u.id, request'[u.id])
    BY DEF Origin
  <2>1. CASE u \in users
    <3>1. u.id \in Requests /\ Made(request[u.id]) /\ u = Account(u.id, request[u.id])
      BY <2>1, <1>1 DEF Origin, TypeOK, Users
    <3> QED BY <3>1, <1>3, <1>4
  <2>2. CASE u \notin users
    BY <2>2, <1>2
  <2> QED BY <2>1, <2>2
<1>7. Directory'
  <2> SUFFICES ASSUME NEW e \in Emails, byEmail'[e] # None
               PROVE  Made(request'[byEmail'[e]]) /\ request'[byEmail'[e]].email = e
    BY DEF Directory
  <2>1. CASE byEmail'[e] = byEmail[e]
    <3>1. /\ byEmail[e] \in Requests /\ Made(request[byEmail[e]])
          /\ request[byEmail[e]].email = e
      BY <2>1, <1>1 DEF Directory, TypeOK
    <3> QED BY <2>1, <3>1, <1>3 DEF SameQuestion
  <2>2. CASE byEmail'[e] = r /\ new.email = e /\ Made(new)
    BY <2>2, <1>2
  <2> QED BY <2>1, <2>2
<1>8. ASSUME NEW q \in Requests PROVE RequestOK(q, request[q])'
  <2>1. CASE q = r
    BY <2>1, <1>2
  <2>2. CASE q # r
    <3>1. PICK req : req = request[q] /\ req = request'[q]
      BY <2>2, <1>2
    <3>2. RequestOK(q, req)
      BY <3>1, <1>1
    <3>3. LetIn(req) => LetIn(req)' /\ request'[req.account].secret = request[req.account].secret
      BY <1>3, <1>4 DEF LetIn, SameQuestion
    <3>4. RequestOK(q, req)'
      BY <3>2, <3>3 DEF RequestOK
    <3> QED BY <3>1, <3>4
  <2> QED BY <2>1, <2>2
<1> QED BY <1>5, <1>6, <1>7, <1>8 DEF Inv

-----------------------------------------------------------------------------
(* The actions *)

\* What findByEmail returns is a row made by a request, as that request asked.
LEMMA Found ==
  ASSUME Inv, NEW email \in Emails, NEW u \in FindByEmail(email)
  PROVE  /\ u \in users /\ u.id \in Requests /\ u.email = email
         /\ Made(request[u.id]) /\ u = Account(u.id, request[u.id])
<1>1. u \in users
  BY DEF FindByEmail
<1>2. u.id \in Requests /\ Made(request[u.id]) /\ u = Account(u.id, request[u.id])
  BY <1>1 DEF Inv, TypeOK, Users, Origin
<1>3. u.email = request[u.id].email
  BY <1>2 DEF Account
<1>4. CASE store = "memory"
  <2>1. u.id = byEmail[email] /\ byEmail[email] # None
    BY <1>2, <1>4, AccountsAssumption DEF FindByEmail
  <2> QED BY <1>1, <1>2, <1>3, <2>1 DEF Inv, Directory
<1>5. CASE store # "memory"
  BY <1>1, <1>2, <1>5 DEF FindByEmail
<1> QED BY <1>4, <1>5

\* A request that only moves on or fails, and leaves the store alone.
LEMMA StepAside ==
  ASSUME Inv, NEW r \in Requests, NEW new \in RequestRecords,
         request' = [request EXCEPT ![r] = new],
         UNCHANGED <<store, users, byEmail>>,
         Made(request[r]) => Made(new) /\ SameQuestion(request[r], new),
         RequestOK(r, new)'
  PROVE  Inv'
<1>1. users' \in SUBSET Users /\ byEmail' \in [Emails -> Requests \cup {None}]
  BY DEF Inv, TypeOK
<1>2. RowsUnique'
  BY DEF Inv, RowsUnique, OneAccountPerIdentity
<1> QED BY <1>1, <1>2, StepOfOne

\* The creation of an account, in either store, keeps the invariant.
LEMMA CreateInv ==
  ASSUME Inv, NEW r \in Requests, NEW req \in RequestRecords,
         req.op \in Signups, req.stage \in {"hashing", "saving"},
         req.email \in Emails, req.secret \in Secrets,
         request[r].stage \in {"idle", "hashing"},
         Create(r, req), UNCHANGED store
  PROVE  Inv'
<1>0. ~Made(request[r]) /\ request \in [Requests -> RequestRecords]
  BY DEF Made, Inv, TypeOK
<1>1. CASE store = "memory"
  <2>1. PICK new : new = [req EXCEPT !.stage = "done", !.account = r]
    OBVIOUS
  <2>2. /\ new \in RequestRecords /\ new.stage = "done" /\ new.account = r
        /\ new.op = req.op /\ new.email = req.email /\ new.secret = req.secret
    BY <2>1 DEF RequestRecords
  <2>3. /\ request' = [request EXCEPT ![r] = new]
        /\ users' = users \cup {Account(r, req)}
        /\ byEmail' = [byEmail EXCEPT ![req.email] = r]
    BY <1>1, <2>1 DEF Create, Save, Account
  <2>4. Account(r, new) = Account(r, req) /\ Account(r, req).id = r
    BY <2>2 DEF Account
  <2>5. Account(r, req) \in Users
    BY DEF Account, Users, Provider
  <2>6. Made(new)
    BY <2>2 DEF Made
  <2>7. users \subseteq users' /\ users' \in SUBSET Users
        /\ \A u \in users' \ users : u = Account(r, new) /\ Made(new) /\ u.id = r
    BY <2>3, <2>4, <2>5, <2>6 DEF Inv, TypeOK
  <2>8. /\ byEmail' \in [Emails -> Requests \cup {None}]
        /\ \A e \in Emails : byEmail'[e] = byEmail[e]
                             \/ (byEmail'[e] = r /\ new.email = e /\ Made(new))
    BY <2>2, <2>3, <2>6 DEF Inv, TypeOK
  <2>9. request'[r] = new
    BY <1>0, <2>3
  <2>10. LetIn(new)'
    BY <2>2, <2>3, <2>4, <2>6, <2>9 DEF LetIn
  <2>11. RequestOK(r, new)'
    BY <2>2, <2>10 DEF RequestOK, Signups
  <2>12. RowsUnique'
    BY <1>1 DEF RowsUnique
  <2> QED BY <1>0, <2>2, <2>3, <2>7, <2>8, <2>11, <2>12, StepOfOne
<1>2. CASE store # "memory"
  <2>1. PICK new : new = [req EXCEPT !.stage = "saving"]
    OBVIOUS
  <2>2. /\ new \in RequestRecords /\ new.stage = "saving"
        /\ new.op = req.op /\ new.email = req.email /\ new.secret = req.secret
    BY <2>1 DEF RequestRecords
  <2>3. request' = [request EXCEPT ![r] = new] /\ UNCHANGED <<users, byEmail>>
    BY <1>2, <2>1 DEF Create
  <2>4. RequestOK(r, new)'
    BY <2>2 DEF RequestOK
  <2> QED BY <1>0, <2>2, <2>3, <2>4, StepAside
<1> QED BY <1>1, <1>2

\* A refusal that throws before anything is written keeps the invariant.
LEMMA RefuseInv ==
  ASSUME Inv, NEW r \in Requests, NEW req \in RequestRecords,
         req.email \in Emails, req.secret \in Secrets,
         request[r].stage = "idle", Refuse(r, req), UNCHANGED store
  PROVE  Inv'
<1>1. PICK new : new = [req EXCEPT !.stage = "refused"]
  OBVIOUS
<1>2. /\ new \in RequestRecords /\ new.stage = "refused"
      /\ new.email = req.email /\ new.secret = req.secret
  BY <1>1 DEF RequestRecords
<1>3. request' = [request EXCEPT ![r] = new] /\ UNCHANGED <<users, byEmail>>
  BY <1>1 DEF Refuse
<1>4. RequestOK(r, new)'
  BY <1>2 DEF RequestOK
<1> QED BY <1>2, <1>3, <1>4, StepAside DEF Made

\* A fresh request's record.
LEMMA AskedRecord ==
  ASSUME NEW op \in Operations, NEW email \in Emails, NEW secret \in Secrets,
         NEW stage \in {"hashing", "saving", "comparing", "done", "refused"},
         NEW account \in Requests \cup {None}
  PROVE  LET req == Asked(op, email, secret, stage, account)
         IN  /\ req \in RequestRecords /\ req.op = op /\ req.email = email
             /\ req.secret = secret /\ req.stage = stage /\ req.account = account
  BY DEF Asked, RequestRecords

\* signupEmail up to its first await keeps the invariant.
LEMMA SignupEmailInv ==
  ASSUME Inv, NEW r \in Requests, NEW email \in Emails, NEW secret \in Secrets,
         SignupEmail(r, email, secret)
  PROVE  Inv'
<1>1. PICK req : req = Asked("signupEmail", email, secret, "hashing", None)
  OBVIOUS
<1>2. /\ req \in RequestRecords /\ req.op = "signupEmail" /\ req.email = email
      /\ req.secret = secret /\ req.stage = "hashing"
  BY <1>1, AskedRecord DEF Operations
<1>3. request[r].stage = "idle" /\ UNCHANGED store
  BY DEF SignupEmail
<1>4. CASE Refuse(r, req)
  BY <1>2, <1>3, <1>4, RefuseInv
<1>5. CASE request' = [request EXCEPT ![r] = req] /\ UNCHANGED <<users, byEmail>>
  <2>1. RequestOK(r, req)'
    BY <1>2 DEF RequestOK, Signups
  <2> QED BY <1>2, <1>3, <1>5, <2>1, StepAside DEF Made
<1> QED BY <1>1, <1>4, <1>5 DEF SignupEmail

\* signupGoogle up to the insert keeps the invariant.
LEMMA SignupGoogleInv ==
  ASSUME Inv, NEW r \in Requests, NEW email \in Emails, NEW secret \in Secrets,
         SignupGoogle(r, email, secret)
  PROVE  Inv'
<1>1. PICK req : req = Asked("signupGoogle", email, secret, "saving", None)
  OBVIOUS
<1>2. /\ req \in RequestRecords /\ req.op = "signupGoogle" /\ req.email = email
      /\ req.secret = secret /\ req.stage = "saving"
  BY <1>1, AskedRecord DEF Operations
<1>3. request[r].stage = "idle" /\ UNCHANGED store
  BY DEF SignupGoogle
<1>4. CASE Refuse(r, req)
  BY <1>2, <1>3, <1>4, RefuseInv
<1>5. CASE Create(r, req)
  BY <1>2, <1>3, <1>5, CreateInv DEF Signups
<1> QED BY <1>1, <1>4, <1>5 DEF SignupGoogle

\* The continuation once the password is hashed keeps the invariant.
LEMMA HashedInv ==
  ASSUME Inv, NEW r \in Requests, Hashed(r)
  PROVE  Inv'
<1>1. request[r] \in RequestRecords /\ request[r].stage = "hashing"
  BY DEF Inv, TypeOK, Hashed
<1>2. RequestOK(r, request[r])
  BY DEF Inv
<1>3. /\ request[r].op \in Signups
      /\ request[r].email \in Emails /\ request[r].secret \in Secrets
  BY <1>1, <1>2 DEF RequestOK
<1> QED BY <1>1, <1>3, CreateInv DEF Hashed

\* An account that conflicts with none leaves the rows unique.
LEMMA InsertUnique ==
  ASSUME RowsUnique, NEW u, ~Conflict(u), users' = users \cup {u}, UNCHANGED store
  PROVE  RowsUnique'
<1> SUFFICES ASSUME store = "postgres", NEW v \in users', NEW w \in users',
                    \/ v.email = w.email
                    \/ /\ v.provider = "google" /\ w.provider = "google"
                       /\ v.secret = w.secret
             PROVE  v = w
  BY DEF RowsUnique, OneAccountPerIdentity
<1>1. CASE v \in users /\ w \in users
  BY <1>1 DEF RowsUnique, OneAccountPerIdentity
<1>2. CASE v = u \/ w = u
  BY <1>2 DEF Conflict
<1> QED BY <1>1, <1>2

\* The insert, accepted or refused by the unique constraint, keeps the invariant.
LEMMA InsertedInv ==
  ASSUME Inv, NEW r \in Requests, Inserted(r)
  PROVE  Inv'
<1>1. /\ request \in [Requests -> RequestRecords] /\ request[r].stage = "saving"
      /\ UNCHANGED <<store, byEmail>>
  BY DEF Inv, TypeOK, Inserted
<1>2. RequestOK(r, request[r])
  BY DEF Inv
<1>3. /\ request[r] \in RequestRecords /\ request[r].op \in Signups
      /\ request[r].email \in Emails /\ request[r].secret \in Secrets
      /\ ~Made(request[r])
  BY <1>1, <1>2 DEF RequestOK, Made
<1>4. PICK u : u = Account(r, request[r])
  OBVIOUS
<1>5. u \in Users /\ u.id = r
  BY <1>3, <1>4 DEF Account, Users, Provider
<1>6. CASE /\ ~Conflict(u) /\ users' = users \cup {u}
           /\ request' = [request EXCEPT ![r].stage = "stored"]
  <2>1. PICK new : new = [request[r] EXCEPT !.stage = "stored"]
    OBVIOUS
  <2>2. /\ new \in RequestRecords /\ new.stage = "stored" /\ new.op = request[r].op
        /\ new.email = request[r].email /\ new.secret = request[r].secret
    BY <1>3, <2>1 DEF RequestRecords
  <2>3. request' = [request EXCEPT ![r] = new]
    BY <1>6, <2>1
  <2>4. Account(r, new) = u /\ Made(new)
    BY <1>3, <1>4, <2>2 DEF Account, Made
  <2>5. users \subseteq users' /\ users' \in SUBSET Users
        /\ \A v \in users' \ users : v = Account(r, new) /\ Made(new) /\ v.id = r
    BY <1>5, <1>6, <2>4 DEF Inv, TypeOK
  <2>6. byEmail' \in [Emails -> Requests \cup {None}]
        /\ \A e \in Emails : byEmail'[e] = byEmail[e]
    BY <1>1 DEF Inv, TypeOK
  <2>7. RequestOK(r, new)'
    BY <1>3, <1>6, <2>2, <2>4 DEF RequestOK
  <2>8. RowsUnique'
    BY <1>1, <1>6, InsertUnique DEF Inv
  <2> QED BY <1>1, <1>3, <2>2, <2>3, <2>5, <2>6, <2>7, <2>8, StepOfOne
<1>7. CASE /\ request' = [request EXCEPT ![r].stage = "failed"]
           /\ UNCHANGED users
  <2>1. PICK new : new = [request[r] EXCEPT !.stage = "failed"]
    OBVIOUS
  <2>2. /\ new \in RequestRecords /\ new.stage = "failed"
        /\ new.email = request[r].email /\ new.secret = request[r].secret
    BY <1>3, <2>1 DEF RequestRecords
  <2>3. request' = [request EXCEPT ![r] = new]
    BY <1>7, <2>1
  <2>4. RequestOK(r, new)'
    BY <1>3, <2>2 DEF RequestOK
  <2> QED BY <1>1, <1>3, <1>7, <2>2, <2>3, <2>4, StepAside
<1> QED BY <1>4, <1>6, <1>7 DEF Inserted

\* A stored account is answered for.
LEMMA AnsweredInv ==
  ASSUME Inv, NEW r \in Requests, Answered(r)
  PROVE  Inv'
<1>1. /\ request \in [Requests -> RequestRecords] /\ request[r].stage = "stored"
      /\ UNCHANGED <<store, users, byEmail>>
  BY DEF Inv, TypeOK, Answered
<1>2. RequestOK(r, request[r])
  BY DEF Inv
<1>3. /\ request[r] \in RequestRecords /\ request[r].op \in Signups
      /\ request[r].email \in Emails /\ request[r].secret \in Secrets
      /\ Account(r, request[r]) \in users
  BY <1>1, <1>2 DEF RequestOK
<1>4. PICK new : new = [request[r] EXCEPT !.stage = "done", !.account = r]
  OBVIOUS
<1>5. /\ new \in RequestRecords /\ new.stage = "done" /\ new.account = r
      /\ new.op = request[r].op /\ new.email = request[r].email
      /\ new.secret = request[r].secret
  BY <1>3, <1>4 DEF RequestRecords
<1>6. request' = [request EXCEPT ![r] = new] /\ request'[r] = new
  BY <1>1, <1>4 DEF Answered
<1>7. Made(new) /\ Account(r, new) = Account(r, request[r])
  BY <1>3, <1>5 DEF Made, Account
<1>8. LetIn(new)'
  BY <1>1, <1>3, <1>5, <1>6, <1>7 DEF LetIn
<1>9. RequestOK(r, new)'
  BY <1>3, <1>5, <1>8 DEF RequestOK, Signups
<1> QED BY <1>1, <1>5, <1>6, <1>7, <1>9, StepAside DEF SameQuestion

\* A connection lost, before or after the insert, keeps the invariant.
LEMMA ConnectionLostInv ==
  ASSUME Inv, NEW r \in Requests, ConnectionLost(r)
  PROVE  Inv'
<1>1. /\ request \in [Requests -> RequestRecords]
      /\ request[r].stage \in {"saving", "stored"}
      /\ UNCHANGED <<store, users, byEmail>>
  BY DEF Inv, TypeOK, ConnectionLost
<1>2. RequestOK(r, request[r])
  BY DEF Inv
<1>3. /\ request[r] \in RequestRecords /\ request[r].op \in Signups
      /\ request[r].email \in Emails /\ request[r].secret \in Secrets
  BY <1>1, <1>2 DEF RequestOK
<1>4. PICK new : new = [request[r] EXCEPT !.stage = "failed"]
  OBVIOUS
<1>5. /\ new \in RequestRecords /\ new.stage = "failed" /\ new.op = request[r].op
      /\ new.email = request[r].email /\ new.secret = request[r].secret
  BY <1>3, <1>4 DEF RequestRecords
<1>6. request' = [request EXCEPT ![r] = new]
  BY <1>4 DEF ConnectionLost
<1>7. Made(new) /\ SameQuestion(request[r], new)
  BY <1>3, <1>5 DEF Made, SameQuestion
<1>8. RequestOK(r, new)'
  BY <1>3, <1>5 DEF RequestOK
<1> QED BY <1>1, <1>5, <1>6, <1>7, <1>8, StepAside

\* A login that has found its account, or has not.
LEMMA LoginInv ==
  ASSUME Inv, NEW r \in Requests, NEW op \in {"loginEmail", "loginGoogle"},
         NEW email \in Emails, NEW secret \in Secrets, request[r].stage = "idle",
         NEW stage \in {"comparing", "done", "refused"},
         NEW account \in Requests \cup {None},
         stage = "comparing" => op = "loginEmail",
         stage = "done" => op = "loginGoogle",
         stage # "refused" =>
           \E u \in FindByEmail(email) : u.id = account /\ u.provider = Provider(op),
         request' = [request EXCEPT ![r] = Asked(op, email, secret, stage, account)],
         UNCHANGED <<store, users, byEmail>>
  PROVE  Inv'
<1>1. PICK new : new = Asked(op, email, secret, stage, account)
  OBVIOUS
<1>2. /\ new \in RequestRecords /\ new.op = op /\ new.email = email
      /\ new.secret = secret /\ new.stage = stage /\ new.account = account
  BY <1>1, AskedRecord DEF Operations
<1>3. ~Made(request[r]) /\ request \in [Requests -> RequestRecords]
  BY DEF Made, Inv, TypeOK
<1>4. ASSUME stage # "refused" PROVE LetIn(new)'
  <2>1. PICK u \in FindByEmail(email) : u.id = account /\ u.provider = Provider(op)
    BY <1>4
  <2>2. /\ u \in users /\ u.id \in Requests /\ u.email = email
        /\ Made(request[u.id]) /\ u = Account(u.id, request[u.id])
    BY Found
  <2>3. u.id # r /\ request'[u.id] = request[u.id]
    BY <1>3, <2>2
  <2>4. u.email = request[u.id].email /\ u.provider = Provider(request[u.id].op)
    BY <2>2 DEF Account
  <2> QED BY <1>2, <2>1, <2>2, <2>3, <2>4 DEF LetIn
<1>5. RequestOK(r, new)'
  BY <1>2, <1>4 DEF RequestOK, Signups
<1> QED BY <1>1, <1>2, <1>3, <1>5, StepAside

\* loginEmail up to the comparison of hashes keeps the invariant.
LEMMA LoginEmailInv ==
  ASSUME Inv, NEW r \in Requests, NEW email \in Emails, NEW secret \in Secrets,
         LoginEmail(r, email, secret)
  PROVE  Inv'
<1>1. request[r].stage = "idle" /\ UNCHANGED <<store, users, byEmail>>
  BY DEF LoginEmail
<1>2. ASSUME NEW u \in FindByEmail(email), u.provider = "email",
             request' = [request EXCEPT ![r] =
                           Asked("loginEmail", email, secret, "comparing", u.id)]
      PROVE  Inv'
  <2>1. u.id \in Requests
    BY Found
  <2> QED BY <1>1, <1>2, <2>1, LoginInv DEF Provider
<1>3. CASE request' = [request EXCEPT ![r] =
                         Asked("loginEmail", email, secret, "refused", None)]
  BY <1>1, <1>3, LoginInv
<1> QED BY <1>2, <1>3 DEF LoginEmail

\* loginGoogle, which compares no password, keeps the invariant.
LEMMA LoginGoogleInv ==
  ASSUME Inv, NEW r \in Requests, NEW email \in Emails, NEW secret \in Secrets,
         LoginGoogle(r, email, secret)
  PROVE  Inv'
<1>1. request[r].stage = "idle" /\ UNCHANGED <<store, users, byEmail>>
  BY DEF LoginGoogle
<1>2. ASSUME NEW u \in FindByEmail(email), u.provider = "google",
             request' = [request EXCEPT ![r] =
                           Asked("loginGoogle", email, secret, "done", u.id)]
      PROVE  Inv'
  <2>1. u.id \in Requests
    BY Found
  <2> QED BY <1>1, <1>2, <2>1, LoginInv DEF Provider
<1>3. CASE request' = [request EXCEPT ![r] =
                         Asked("loginGoogle", email, secret, "refused", None)]
  BY <1>1, <1>3, LoginInv
<1> QED BY <1>2, <1>3 DEF LoginGoogle

\* The continuation of loginEmail after the comparison keeps the invariant.
LEMMA ComparedInv ==
  ASSUME Inv, NEW r \in Requests, Compared(r)
  PROVE  Inv'
<1>1. /\ request \in [Requests -> RequestRecords] /\ request[r].stage = "comparing"
      /\ UNCHANGED <<store, users, byEmail>>
  BY DEF Inv, TypeOK, Compared
<1>2. RequestOK(r, request[r])
  BY DEF Inv
<1>3. /\ request[r] \in RequestRecords /\ request[r].op = "loginEmail"
      /\ request[r].email \in Emails /\ request[r].secret \in Secrets
      /\ LetIn(request[r]) /\ ~Made(request[r])
  BY <1>1, <1>2 DEF RequestOK, Made
<1>4. PICK valid \in BOOLEAN :
        valid = (request[request[r].account].secret = request[r].secret)
  OBVIOUS
<1>5. PICK new : new = [request[r] EXCEPT !.stage = IF valid THEN "done" ELSE "refused"]
  OBVIOUS
<1>6. /\ new \in RequestRecords /\ new.stage = IF valid THEN "done" ELSE "refused"
      /\ new.op = "loginEmail" /\ new.email = request[r].email /\ new.old = request[r].old
      /\ new.secret = request[r].secret /\ new.account = request[r].account
  BY <1>3, <1>5 DEF RequestRecords
<1>7. request' = [request EXCEPT ![r] = new]
  BY <1>4, <1>5 DEF Compared
<1>8. new.account \in Requests /\ new.account # r
      /\ request'[new.account] = request[new.account]
  BY <1>1, <1>3, <1>6, <1>7 DEF LetIn
<1>9. LetIn(new)'
  BY <1>1, <1>3, <1>6, <1>8 DEF LetIn
<1>10. RequestOK(r, new)'
  BY <1>3, <1>4, <1>6, <1>8, <1>9 DEF RequestOK, Signups
<1> QED BY <1>1, <1>3, <1>6, <1>7, <1>10, StepAside

\* A restart leaves every request at rest, with the question it asked.
LEMMA RestartInv ==
  ASSUME Inv, Restart
  PROVE  Inv'
<1>0. TypeOK /\ Origin /\ \A r \in Requests : RequestOK(r, request[r])
  BY DEF Inv
<1>1. /\ UNCHANGED store /\ byEmail' = [e \in Emails |-> None]
      /\ users' = IF store = "memory" THEN {} ELSE users
      /\ users' \subseteq users
  BY DEF Restart
<1>2. ASSUME NEW r \in Requests
      PROVE  /\ request'[r] \in RequestRecords
             /\ SameQuestion(request[r], request'[r])
             /\ request'[r].account = request[r].account
             /\ \/ request'[r] = request[r] /\ request[r].stage = "idle"
                \/ request'[r].old /\ request'[r].stage = "failed"
                \/ /\ request'[r].old /\ request'[r].stage = request[r].stage
                   /\ request[r].stage \in {"done", "refused", "failed"}
             /\ Made(request[r]) => Made(request'[r])
  <2>1. request[r] \in RequestRecords
    BY <1>0 DEF TypeOK
  <2>2. CASE request[r].stage = "idle"
    <3>1. request'[r] = request[r]
      BY <2>2 DEF Restart
    <3> QED BY <2>1, <2>2, <3>1 DEF SameQuestion, Made
  <2>3. CASE request[r].stage # "idle" /\ Waiting(r)
    <3>1. request'[r] = [request[r] EXCEPT !.old = TRUE, !.stage = "failed"]
      BY <2>3 DEF Restart
    <3> QED BY <2>1, <3>1 DEF RequestRecords, SameQuestion, Made
  <2>4. CASE request[r].stage # "idle" /\ ~Waiting(r)
    <3>1. request'[r] = [request[r] EXCEPT !.old = TRUE, !.stage = @]
      BY <2>4 DEF Restart
    <3>2. request[r].stage \in {"done", "refused", "failed"}
      BY <2>1, <2>4 DEF RequestRecords, Waiting
    <3> QED BY <2>1, <3>1, <3>2 DEF RequestRecords, SameQuestion, Made
  <2> QED BY <2>2, <2>3, <2>4
<1>3. \A r \in Requests : Account(r, request'[r]) = Account(r, request[r])
  BY <1>2 DEF Account, SameQuestion
<1>4. TypeOK'
  <2>1. request' \in [Requests -> RequestRecords]
    <3>1. request' = [r \in Requests |-> request'[r]]
      BY DEF Restart
    <3> QED BY <1>2, <3>1
  <2> QED BY <1>0, <1>1, <2>1 DEF TypeOK
<1>5. Origin'
  <2> SUFFICES ASSUME NEW u \in users'
               PROVE  Made(request'[u.id]) /\ u = Account(u.id, request'[u.id])
    BY DEF Origin
  <2>1. u.id \in Requests /\ Made(request[u.id]) /\ u = Account(u.id, request[u.id])
    BY <1>0, <1>1 DEF Origin, TypeOK, Users
  <2> QED BY <2>1, <1>2, <1>3
<1>6. Directory'
  BY <1>1 DEF Directory
<1>7. ASSUME NEW r \in Requests PROVE RequestOK(r, request[r])'
  <2>1. PICK old : old = request[r]
    OBVIOUS
  <2>2. PICK new : new = request'[r]
    OBVIOUS
  <2>3. RequestOK(r, old)
    BY <1>0, <2>1
  <2>4. /\ SameQuestion(old, new) /\ new.account = old.account
        /\ \/ new = old /\ old.stage = "idle"
           \/ new.old /\ new.stage = "failed"
           \/ /\ new.old /\ new.stage = old.stage
              /\ old.stage \in {"done", "refused", "failed"}
    BY <1>2, <2>1, <2>2
  <2>5. ASSUME new.stage = "done" PROVE LetIn(new)'
    <3>1. old.stage = "done" /\ new.old /\ LetIn(old)
      BY <2>3, <2>4, <2>5 DEF RequestOK
    <3>2. /\ new.account \in Requests /\ Made(request'[new.account])
          /\ request'[new.account].email = new.email
          /\ Provider(request'[new.account].op) = Provider(new.op)
      BY <1>2, <2>4, <3>1 DEF LetIn, SameQuestion
    <3>3. store = "postgres" => Account(new.account, request'[new.account]) \in users'
      BY <1>1, <1>3, <2>4, <3>1 DEF LetIn
    <3> QED BY <1>1, <3>1, <3>2, <3>3 DEF LetIn
  <2>6. new.stage # "idle" => new.email \in Emails /\ new.secret \in Secrets
    <3>1. request[r] \in RequestRecords
      BY <1>0 DEF TypeOK
    <3>2. CASE old.stage = "idle"
      BY <3>2, <2>1, <2>2, <2>4 DEF Restart
    <3>3. CASE old.stage # "idle"
      BY <3>3, <2>3, <2>4 DEF RequestOK, SameQuestion
    <3> QED BY <3>2, <3>3
  <2>7. /\ new.stage = "done" /\ new.op = "loginEmail" =>
             request'[new.account].secret = new.secret
        /\ new.stage = "done" /\ new.op \in Signups => new.account = r
    <3> SUFFICES ASSUME new.stage = "done"
                 PROVE  /\ new.op = "loginEmail" => request'[new.account].secret = new.secret
                        /\ new.op \in Signups => new.account = r
      OBVIOUS
    <3>1. old.stage = "done" /\ LetIn(old)
      BY <2>3, <2>4 DEF RequestOK
    <3>2. request'[new.account].secret = request[old.account].secret
      BY <1>2, <2>4, <3>1 DEF LetIn, SameQuestion
    <3> QED BY <2>3, <2>4, <3>1, <3>2 DEF RequestOK, SameQuestion
  <2>8. new.stage \notin {"hashing", "saving", "stored", "comparing"}
    BY <2>4
  <2>9. RequestOK(r, new)'
    BY <2>5, <2>6, <2>7, <2>8 DEF RequestOK
  <2> QED BY <2>2, <2>9
<1>8. RowsUnique'
  BY <1>1 DEF Inv, RowsUnique, OneAccountPerIdentity
<1> QED BY <1>4, <1>5, <1>6, <1>7, <1>8 DEF Inv

-----------------------------------------------------------------------------
\* No account and no request satisfies the invariant.
LEMMA InitInv == Init => Inv
<1> SUFFICES ASSUME Init PROVE Inv
  OBVIOUS
<1>1. TypeOK
  BY AccountsAssumption DEF Init, TypeOK, RequestRecords
<1>2. Origin /\ Directory /\ RowsUnique
  BY DEF Init, Origin, Directory, RowsUnique, OneAccountPerIdentity
<1>3. \A r \in Requests : RequestOK(r, request[r])
  BY DEF Init, RequestOK
<1> QED BY <1>1, <1>2, <1>3 DEF Inv

\* Every step of the accounts, and every stutter, keeps the invariant.
LEMMA NextInv == Inv /\ [Next]_vars => Inv'
<1> SUFFICES ASSUME Inv, [Next]_vars PROVE Inv'
  OBVIOUS
<1>1. ASSUME NEW r \in Requests, NEW email \in Emails, NEW secret \in Secrets,
             \/ SignupEmail(r, email, secret) \/ SignupGoogle(r, email, secret)
             \/ LoginEmail(r, email, secret) \/ LoginGoogle(r, email, secret)
      PROVE  Inv'
  BY <1>1, SignupEmailInv, SignupGoogleInv, LoginEmailInv, LoginGoogleInv
<1>2. ASSUME NEW r \in Requests,
             Hashed(r) \/ Inserted(r) \/ Answered(r) \/ ConnectionLost(r) \/ Compared(r)
      PROVE  Inv'
  BY <1>2, HashedInv, InsertedInv, AnsweredInv, ConnectionLostInv, ComparedInv
<1>3. CASE Restart
  BY <1>3, RestartInv
<1>4. CASE UNCHANGED vars
  BY <1>4 DEF vars, Inv, TypeOK, Origin, Directory, RequestOK, LetIn, RowsUnique,
              OneAccountPerIdentity
<1> QED BY <1>1, <1>2, <1>3, <1>4 DEF Next

\* The invariant holds in every reachable state.
LEMMA AlwaysInv == Spec => []Inv
  BY InitInv, NextInv, PTL DEF Spec

-----------------------------------------------------------------------------
\* The accounts, the directory, the requests and the store keep their types.
THEOREM TypeCorrect == Spec => []TypeOK
<1>1. Inv => TypeOK
  BY DEF Inv
<1> QED BY <1>1, AlwaysInv, PTL

\* With Postgres, a login with the address of a signup that was answered for
\* finds the account of that signup, and no other; the same goes for a Google
\* identity that signs up under a second address.
THEOREM SignupsAlwaysLogIn == Spec => []SignupsLogIn
<1>1. Inv => SignupsLogIn
  <2> SUFFICES ASSUME Inv, store = "postgres", NEW r \in Requests, SignedUp(r)
               PROVE  /\ FindByEmail(request[r].email) = {Account(r, request[r])}
                      /\ request[r].op = "signupGoogle" =>
                           GoogleAccounts(request[r].secret) = {Account(r, request[r])}
    BY DEF SignupsLogIn
  <2>1. RequestOK(r, request[r]) /\ request[r].op \in Signups /\ request[r].stage = "done"
    BY DEF Inv, SignedUp, Signups
  <2>2. request[r].account = r /\ LetIn(request[r])
    BY <2>1 DEF RequestOK
  <2>3. Account(r, request[r]) \in users
    BY <2>2 DEF LetIn
  <2>4. /\ Account(r, request[r]).email = request[r].email
        /\ Account(r, request[r]).secret = request[r].secret
        /\ request[r].op = "signupGoogle" => Account(r, request[r]).provider = "google"
    BY DEF Account, Provider
  <2>5. \A u \in users : u.email = request[r].email => u = Account(r, request[r])
    BY <2>3, <2>4 DEF Inv, RowsUnique, OneAccountPerIdentity
  <2>6. ASSUME request[r].op = "signupGoogle", NEW u \in GoogleAccounts(request[r].secret)
        PROVE  u = Account(r, request[r])
    BY <2>3, <2>4, <2>6 DEF GoogleAccounts, Inv, RowsUnique, OneAccountPerIdentity
  <2>7. request[r].op = "signupGoogle" =>
          Account(r, request[r]) \in GoogleAccounts(request[r].secret)
    BY <2>3, <2>4 DEF GoogleAccounts
  <2>8. FindByEmail(request[r].email) = {Account(r, request[r])}
    BY <2>3, <2>4, <2>5 DEF FindByEmail
  <2> QED BY <2>6, <2>7, <2>8
<1> QED BY <1>1, AlwaysInv, PTL

\* A token resolves to the account it was issued for, unless that account was
\* in the memory of a process that is no more.
THEOREM TokensAlwaysResolve == Spec => []TokensResolve
<1>1. Inv => TokensResolve
  <2> SUFFICES ASSUME Inv, NEW r \in Requests, request[r].stage = "done",
                      store = "memory" => ~request[r].old
               PROVE  \E u \in FindById(request[r].account) : u.email = request[r].email
    BY DEF TokensResolve
  <2>1. LetIn(request[r]) /\ store \in {"memory", "postgres"}
    BY DEF Inv, RequestOK, TypeOK
  <2>2. PICK u : u = Account(request[r].account, request[request[r].account])
    OBVIOUS
  <2>3. u \in users /\ u.email = request[r].email
    BY <2>1, <2>2 DEF LetIn, Account
  <2>4. u.id = request[r].account
    BY <2>2 DEF Account
  <2> QED BY <2>3, <2>4 DEF FindById
<1> QED BY <1>1, AlwaysInv, PTL

\* A login is let into an account of its own address, provider and password.
THEOREM LoginsAlwaysHonest == Spec => []LoginsHonest
<1>1. Inv => LoginsHonest
  <2> SUFFICES ASSUME Inv, NEW r \in Requests, request[r].stage = "done"
               PROVE  /\ request[request[r].account].op \in Signups
                      /\ request[request[r].account].email = request[r].email
                      /\ Provider(request[request[r].account].op) = Provider(request[r].op)
                      /\ request[r].op = "loginEmail" =>
                           request[request[r].account].secret = request[r].secret
    BY DEF LoginsHonest, Signups
  <2>1. RequestOK(r, request[r])
    BY DEF Inv
  <2> QED BY <2>1 DEF RequestOK, LetIn, Made
<1> QED BY <1>1, AlwaysInv, PTL

\* No step removes or rewrites an account, except that a restart empties the
\* store in memory.
THEOREM AccountsAlwaysKept == Spec => AccountsKept
<1>1. Next => users \subseteq users' \/ (store = "memory" /\ users' = {})
  <2> SUFFICES ASSUME Next
               PROVE  users \subseteq users' \/ (store = "memory" /\ users' = {})
    OBVIOUS
  <2>1. \A r, req : Create(r, req) \/ Refuse(r, req) => users \subseteq users'
    BY DEF Create, Refuse, Save
  <2>2. ASSUME NEW r \in Requests, NEW email \in Emails, NEW secret \in Secrets,
               \/ SignupEmail(r, email, secret) \/ SignupGoogle(r, email, secret)
               \/ LoginEmail(r, email, secret) \/ LoginGoogle(r, email, secret)
        PROVE  users \subseteq users'
    <3>1. CASE SignupEmail(r, email, secret)
      BY <2>1, <3>1 DEF SignupEmail
    <3>2. CASE SignupGoogle(r, email, secret)
      BY <2>1, <3>2 DEF SignupGoogle
    <3>3. CASE LoginEmail(r, email, secret) \/ LoginGoogle(r, email, secret)
      BY <3>3 DEF LoginEmail, LoginGoogle
    <3> QED BY <2>2, <3>1, <3>2, <3>3
  <2>3. ASSUME NEW r \in Requests,
               Hashed(r) \/ Inserted(r) \/ Answered(r) \/ ConnectionLost(r) \/ Compared(r)
        PROVE  users \subseteq users'
    <3>1. CASE Hashed(r)
      BY <2>1, <3>1 DEF Hashed
    <3>2. CASE Inserted(r)
      BY <3>2 DEF Inserted
    <3>3. CASE Answered(r) \/ ConnectionLost(r) \/ Compared(r)
      BY <3>3 DEF Answered, ConnectionLost, Compared
    <3> QED BY <2>3, <3>1, <3>2, <3>3
  <2>4. CASE Restart
    BY <2>4 DEF Restart
  <2> QED BY <2>2, <2>3, <2>4 DEF Next
<1>2. [Next]_vars => [users \subseteq users' \/ (store = "memory" /\ users' = {})]_vars
  BY <1>1
<1> QED BY <1>2, PTL DEF Spec, AccountsKept
=============================================================================
