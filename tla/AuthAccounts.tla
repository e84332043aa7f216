----------------------------- MODULE AuthAccounts -----------------------------
(***************************************************************************)
(* Accounts: AuthService with its AuthStoreService.  A signup looks its    *)
(* email up, makes an account and saves it; between the look and the save  *)
(* it awaits a password hash, and with Postgres also the database, so      *)
(* other requests run in between.                                          *)
(*                                                                         *)
(* The store is two Maps in memory or the table auth_users; which one is   *)
(* fixed by the environment.  A query of the store in memory is awaited    *)
(* too, but such an await lets no other request in.                        *)
(*                                                                         *)
(* The random id of an account is taken to be fresh: the request that made *)
(* the account stands for it.  A password and its hash, and the subject of *)
(* a Google identity, are the account's secret.                            *)
(***************************************************************************)
CONSTANTS
  Emails,        \* addresses, trimmed and in lower case
  Secrets,       \* passwords, and subjects of Google identities
  Requests,      \* HTTP requests that sign up or log in
  Stores,        \* the stores to consider, among "memory" and "postgres"
  None

ASSUME AccountsAssumption ==
  /\ Stores \subseteq {"memory", "postgres"}
  /\ None \notin Requests \cup Secrets \cup Emails

VARIABLES
  store,       \* isPostgresEnabled(), read once when the process starts
  users,       \* the values of usersById, or the rows of auth_users
  byEmail,     \* usersByEmail: the id under which an email was saved last
  request      \* what each request asked for, where it stands, what it got

vars == <<store, users, byEmail, request>>

-----------------------------------------------------------------------------
(* Data *)

Operations == {"signupEmail", "signupGoogle", "loginEmail", "loginGoogle"}

Provider(op) == IF op \in {"signupEmail", "loginEmail"} THEN "email" ELSE "google"

Users ==
  [id : Requests, email : Emails, provider : {"email", "google"}, secret : Secrets]

\* account is the sub of the token that a request done has answered with; a
\* login holds the account it found in it while it compares passwords.  A
\* request is old when the process that served it is no more.
RequestRecords ==
  [op      : Operations \cup {"none"},
   email   : Emails \cup {None},
   secret  : Secrets \cup {None},
   account : Requests \cup {None},
   old     : BOOLEAN,
   stage   : {"idle", "hashing", "saving", "stored", "comparing",
              "done", "refused", "failed"}]

FindByEmail(email) ==
  IF store = "memory" THEN {u \in users : u.id = byEmail[email]}
                      ELSE {u \in users : u.email = email}

FindById(id) == {u \in users : u.id = id}

\* Mutant: the hash of the password is lost on the way to the record.
AccountUnhashed(r, req) ==
  [id |-> r, email |-> req.email, provider |-> Provider(req.op),
   secret |-> IF req.op = "signupEmail" THEN None ELSE req.secret]

\* createUserRecord, with the wallet it makes left out.
Account(r, req) ==
  [id |-> r, email |-> req.email, provider |-> Provider(req.op),
   secret |-> req.secret]

Waiting(r) == request[r].stage \in {"hashing", "saving", "stored", "comparing"}

Asked(op, email, secret, stage, account) ==
  [op |-> op, email |-> email, secret |-> secret, stage |-> stage,
   account |-> account, old |-> FALSE]

\* INSERT fails when it would repeat an email or a Google subject.
Conflict(u) ==
  \E v \in users :
    \/ v.email = u.email
    \/ u.provider = "google" /\ v.provider = "google" /\ v.secret = u.secret

-----------------------------------------------------------------------------
Init ==
  /\ store \in Stores
  /\ users = {}
  /\ byEmail = [e \in Emails |-> None]
  /\ request = [r \in Requests |-> [op |-> "none", email |-> None, secret |-> None,
                                    account |-> None, old |-> FALSE, stage |-> "idle"]]

\* Mutant: save in memory forgets one of the two Maps.
SaveHalf(u) ==
  /\ byEmail' = [byEmail EXCEPT ![u.email] = u.id]
  /\ UNCHANGED users

\* save in memory: both Maps take the account, whatever they held.
Save(u) ==
  /\ users' = users \cup {u}
  /\ byEmail' = [byEmail EXCEPT ![u.email] = u.id]

\* What follows the lookup once the account is made: in memory the account is
\* saved and answered for at once, with Postgres the INSERT is sent.
Create(r, req) ==
  IF store = "memory"
  THEN /\ Save(Account(r, req))
       /\ request' = [request EXCEPT ![r] = [req EXCEPT !.stage = "done", !.account = r]]
  ELSE /\ request' = [request EXCEPT ![r] = [req EXCEPT !.stage = "saving"]]
       /\ UNCHANGED <<users, byEmail>>

\* The lookup of a signup found an account.
Refuse(r, req) ==
  /\ request' = [request EXCEPT ![r] = [req EXCEPT !.stage = "refused"]]
  /\ UNCHANGED <<users, byEmail>>

\* signupEmail up to its await of the hash.
SignupEmail(r, email, password) ==
  LET req == Asked("signupEmail", email, password, "hashing", None)
  IN  /\ request[r].stage = "idle"
      /\ \/ /\ FindByEmail(email) # {}
            /\ Refuse(r, req)
         \/ /\ FindByEmail(email) = {}
            /\ request' = [request EXCEPT ![r] = req]
            /\ UNCHANGED <<users, byEmail>>
      /\ UNCHANGED store

\* signupEmail from the hash on.
Hashed(r) ==
  /\ request[r].stage = "hashing"
  /\ Create(r, request[r])
  /\ UNCHANGED store

\* signupGoogle from the moment Google has vouched for the identity.
SignupGoogle(r, email, subject) ==
  LET req == Asked("signupGoogle", email, subject, "saving", None)
  IN  /\ request[r].stage = "idle"
      /\ \/ FindByEmail(email) # {} /\ Refuse(r, req)
         \/ FindByEmail(email) = {} /\ Create(r, req)
      /\ UNCHANGED store

\* Mutant: the handler does not await save.
InsertedUnawaited(r) ==
  LET u == Account(r, request[r])
  IN  /\ request[r].stage = "saving"
      /\ users' = IF Conflict(u) THEN users ELSE users \cup {u}
      /\ request' = [request EXCEPT ![r].stage = "stored"]
      /\ UNCHANGED <<store, byEmail>>

\* Mutant: the row of an email is updated instead of a second one refused.
InsertedUpsert(r) ==
  LET u == Account(r, request[r])
  IN  /\ request[r].stage = "saving"
      /\ users' = {v \in users : v.email # u.email} \cup {u}
      /\ request' = [request EXCEPT ![r].stage = "stored"]
      /\ UNCHANGED <<store, byEmail>>

\* Postgres executes the INSERT, or refuses it for good.
Inserted(r) ==
  LET u == Account(r, request[r])
  IN  /\ request[r].stage = "saving"
      /\ \/ /\ ~Conflict(u)
            /\ users' = users \cup {u}
            /\ request' = [request EXCEPT ![r].stage = "stored"]
         \/ /\ Conflict(u)
            /\ request' = [request EXCEPT ![r].stage = "failed"]
            /\ UNCHANGED users
      /\ UNCHANGED <<store, byEmail>>

\* The answer of the INSERT arrives and the client gets its token.
Answered(r) ==
  /\ request[r].stage = "stored"
  /\ request' = [request EXCEPT ![r].stage = "done", ![r].account = r]
  /\ UNCHANGED <<store, users, byEmail>>

\* The database cannot be reached, before or after it executed the INSERT.
ConnectionLost(r) ==
  /\ request[r].stage \in {"saving", "stored"}
  /\ request' = [request EXCEPT ![r].stage = "failed"]
  /\ UNCHANGED <<store, users, byEmail>>

\* loginEmail up to its await of compare.
LoginEmail(r, email, password) ==
  /\ request[r].stage = "idle"
  /\ \/ \E u \in FindByEmail(email) :
          /\ u.provider = "email"
          /\ request' = [request EXCEPT ![r] =
                           Asked("loginEmail", email, password, "comparing", u.id)]
     \/ /\ \A u \in FindByEmail(email) : u.provider # "email"
        /\ request' = [request EXCEPT ![r] =
                         Asked("loginEmail", email, password, "refused", None)]
  /\ UNCHANGED <<store, users, byEmail>>

\* loginEmail from compare on.  The account found does not change, and its
\* password is the one its signup was made with.
Compared(r) ==
  LET valid == request[request[r].account].secret = request[r].secret
  IN  /\ request[r].stage = "comparing"
      /\ request' = [request EXCEPT ![r].stage = IF valid THEN "done" ELSE "refused"]
      /\ UNCHANGED <<store, users, byEmail>>

\* Mutant: any account with the email will do.
LoginGoogleAnyProvider(r, email, subject) ==
  /\ request[r].stage = "idle"
  /\ \E u \in FindByEmail(email) :
       request' = [request EXCEPT ![r] =
                     Asked("loginGoogle", email, subject, "done", u.id)]
  /\ UNCHANGED <<store, users, byEmail>>

\* loginGoogle from the moment Google has vouched for the identity.
LoginGoogle(r, email, subject) ==
  /\ request[r].stage = "idle"
  /\ \/ \E u \in FindByEmail(email) :
          /\ u.provider = "google"
          /\ request' = [request EXCEPT ![r] =
                           Asked("loginGoogle", email, subject, "done", u.id)]
     \/ /\ \A u \in FindByEmail(email) : u.provider # "google"
        /\ request' = [request EXCEPT ![r] =
                         Asked("loginGoogle", email, subject, "refused", None)]
  /\ UNCHANGED <<store, users, byEmail>>

\* The process dies and starts again: what was in memory is gone, what was
\* in the table is still there, and no client waiting gets an answer.
Restart ==
  /\ users' = IF store = "memory" THEN {} ELSE users
  /\ byEmail' = [e \in Emails |-> None]
  /\ request' = [r \in Requests |->
                   IF request[r].stage = "idle" THEN request[r]
                   ELSE [request[r] EXCEPT !.old = TRUE,
                           !.stage = IF Waiting(r) THEN "failed" ELSE @]]
  /\ UNCHANGED store

Next ==
  \/ \E r \in Requests :
       \/ \E email \in Emails, secret \in Secrets :
            \/ SignupEmail(r, email, secret)
            \/ SignupGoogle(r, email, secret)
            \/ LoginEmail(r, email, secret)
            \/ LoginGoogle(r, email, secret)
       \/ Hashed(r) \/ Inserted(r) \/ Answered(r) \/ ConnectionLost(r) \/ Compared(r)
  \/ Restart

Spec == Init /\ [][Next]_vars
-----------------------------------------------------------------------------
(* What the handlers maintain *)

TypeOK ==
  /\ store \in {"memory", "postgres"}
  /\ users \in SUBSET Users
  /\ byEmail \in [Emails -> Requests \cup {None}]
  /\ request \in [Requests -> RequestRecords]

SignedUp(r) ==
  request[r].op \in {"signupEmail", "signupGoogle"} /\ request[r].stage = "done"

GoogleAccounts(subject) == {u \in users : u.provider = "google" /\ u.secret = subject}

\* With Postgres a signup that was answered for is an account for good: a
\* login with the email finds that account and no other, and a Google
\* identity has it alone, under whatever address it tried to sign up again;
\* whatever raced with the signup, and also after a restart.
SignupsLogIn ==
  store = "postgres" =>
    \A r \in Requests :
      SignedUp(r) =>
        /\ FindByEmail(request[r].email) = {Account(r, request[r])}
        /\ request[r].op = "signupGoogle" =>
             GoogleAccounts(request[r].secret) = {Account(r, request[r])}

\* A token leads getProfile to the account it was issued for, with the
\* address it was issued to.  A store in memory forgets the accounts, not the
\* tokens, that are older than the process.
TokensResolve ==
  \A r \in Requests :
    request[r].stage = "done" /\ (store = "memory" => ~request[r].old) =>
      \E u \in FindById(request[r].account) : u.email = request[r].email

\* A login is let into an account of its own address and its own provider,
\* made with the same password if there is one, however long it compared
\* while other signups saved.
LoginsHonest ==
  \A r \in Requests :
    request[r].stage = "done" =>
      LET signup == request[request[r].account]
      IN  /\ signup.op \in {"signupEmail", "signupGoogle"}
          /\ signup.email = request[r].email
          /\ Provider(signup.op) = Provider(request[r].op)
          /\ request[r].op = "loginEmail" => signup.secret = request[r].secret

\* An account once saved is neither removed nor rewritten, except that a
\* restart empties a store in memory, and then it does so altogether.
AccountsKept ==
  [][users \subseteq users' \/ (store = "memory" /\ users' = {})]_vars

\* What the code says and a store in memory does not do.  auth.service.ts:44,
\* "User already exists for this email": two signups that were both answered
\* for, with no restart in between, have different emails.
OneSignupPerEmail ==
  \A r, s \in Requests :
    /\ SignedUp(r) /\ ~request[r].old
    /\ SignedUp(s) /\ ~request[s].old
    /\ request[r].email = request[s].email
    => r = s
=============================================================================
