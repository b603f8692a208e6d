----------------------------- MODULE Namespace -----------------------------
(***************************************************************************)
(* How a group comes to share one namespace key: the start of the           *)
(* coordinator (app.py, settings.py), accounts and sessions (auth.py,       *)
(* App.tsx, AuthScreen.tsx), the passphrase form (SettingsPage.tsx,         *)
(* namespaceKey.ts) and the verifier the coordinator keeps for it.          *)
(*                                                                         *)
(* The coordinator serves every request in a thread of its own.  SQLite     *)
(* begins a transaction at the first write only, so each SELECT sees the    *)
(* last commit: a handler is one step per SELECT and one for the write and  *)
(* its commit.  A browser goes from one await to the next; it runs one      *)
(* form handler at a time.  A derived key is the passphrase and the salt it *)
(* was derived with, and a verifier is the key it was encrypted under.      *)
(***************************************************************************)
EXTENDS Naturals, FiniteSets

CONSTANTS
    Browser,     \* browsers, each with its cookie and its key store
    Thread,      \* coordinator threads that serve a POST /register or a PUT
    Name,        \* user names
    Passphrase,  \* what users type as the namespace passphrase
    NoKey,       \* no derived key, no verifier
    Nobody,      \* nobody waits for the answer
    MaxBoots     \* bound on the starts of the coordinator

ASSUME NamespaceAssumption ==
    /\ NoKey \notin Passphrase \X Nat
    /\ Nobody \notin Browser
    /\ MaxBoots \in Nat

VARIABLES
    boot,      \* the coordinator process: "down", "seeded", "up"
    boots,     \* how often it was started
    salt,      \* the start that drew the namespace salt (0: there is none)
    accounts,  \* rows of a user name
    verifier,  \* the key the stored verifier was encrypted under
    step,      \* what a thread does next
    arg,       \* the name or the verifier its request carries
    client,    \* who waits for its answer
    account,   \* the dashboard shows an account
    cookie,    \* the browser has a session that the coordinator accepts
    at,        \* what the form handler of a browser awaits
    key,       \* the key it derived
    seen,      \* the verifier it was answered
    stored,    \* the derived key in IndexedDB
    unlocked,  \* the flag in localStorage
    past,      \* history: every key the verifier ever stood for
    crossed    \* history: a PUT was let past its check, while another was past
               \* it and had not committed

bootVars == <<boot, boots, salt>>
settingVars == <<verifier, past, crossed>>
threadVars == <<step, arg, client>>
sessionVars == <<account, cookie>>
formVars == <<key, seen>>
keyVars == <<stored, unlocked>>
vars == <<bootVars, accounts, settingVars, threadVars, sessionVars, at,
          formVars, keyVars>>

Key == Passphrase \X (1..MaxBoots)

Init ==
    /\ boot = "down" /\ boots = 0 /\ salt = 0
    /\ accounts = [n \in Name |-> 0]
    /\ verifier = NoKey /\ past = {} /\ crossed = FALSE
    /\ step = [t \in Thread |-> "free"] /\ arg = [t \in Thread |-> NoKey]
    /\ client = [t \in Thread |-> Nobody]
    /\ account = [b \in Browser |-> FALSE]
    /\ cookie = [b \in Browser |-> FALSE]
    /\ at = [b \in Browser |-> "idle"]
    /\ key = [b \in Browser |-> NoKey] /\ seen = [b \in Browser |-> NoKey]
    /\ stored = [b \in Browser |-> NoKey]
    /\ unlocked = [b \in Browser |-> FALSE]
-----------------------------------------------------------------------------
(* The coordinator starts, and stops at any time. *)

\* seed_settings: what is missing is drawn, and committed at once.
SeedNothing ==
    /\ boot = "down" /\ boots < MaxBoots
    /\ boot' = "seeded" /\ boots' = boots + 1
    /\ UNCHANGED <<salt, accounts, settingVars, threadVars, sessionVars, at,
                   formVars, keyVars>>
SeedAnew ==
    /\ boot = "down" /\ boots < MaxBoots
    /\ boot' = "seeded" /\ boots' = boots + 1 /\ salt' = boots + 1
    /\ UNCHANGED <<accounts, settingVars, threadVars, sessionVars, at,
                   formVars, keyVars>>
Seed ==
    /\ boot = "down" /\ boots < MaxBoots
    /\ boot' = "seeded" /\ boots' = boots + 1
    /\ salt' = IF salt = 0 THEN boots + 1 ELSE salt
    /\ UNCHANGED <<accounts, settingVars, threadVars, sessionVars, at,
                   formVars, keyVars>>

\* The replication and size limits in the environment are valid, or the
\* process ends.
LoadConfig ==
    /\ boot = "seeded" /\ boot' \in {"up", "down"}
    /\ UNCHANGED <<boots, salt, accounts, settingVars, threadVars,
                   sessionVars, at, formVars, keyVars>>

\* Handlers of the browsers in B end, and what they had derived is gone.
Forget(B) ==
    /\ key' = [b \in Browser |-> IF b \in B THEN NoKey ELSE key[b]]
    /\ seen' = [b \in Browser |-> IF b \in B THEN NoKey ELSE seen[b]]

\* Requests that are not committed are lost, and nobody is answered.
Stop ==
    /\ boot = "up" /\ boot' = "down"
    /\ step' = [t \in Thread |-> "free"] /\ arg' = [t \in Thread |-> NoKey]
    /\ client' = [t \in Thread |-> Nobody]
    /\ LET waiting == {b \in Browser : \E t \in Thread : client[t] = b}
       IN  /\ at' = [b \in Browser |-> IF b \in waiting THEN "idle" ELSE at[b]]
           /\ Forget(waiting)
    /\ UNCHANGED <<boots, salt, accounts, settingVars, sessionVars, keyVars>>
-----------------------------------------------------------------------------
(* Requests of several steps. *)

\* A request of browser b is given to thread t.
Serve(t, b, s, a) ==
    /\ boot = "up" /\ step[t] = "free"
    /\ step' = [step EXCEPT ![t] = s]
    /\ arg' = [arg EXCEPT ![t] = a]
    /\ client' = [client EXCEPT ![t] = b]

\* It is answered; who waits goes on at p.
Answer(t, p) ==
    /\ step' = [step EXCEPT ![t] = "free"]
    /\ arg' = [arg EXCEPT ![t] = NoKey]
    /\ client' = [client EXCEPT ![t] = Nobody]
    /\ at' = [b \in Browser |-> IF client[t] = b THEN p ELSE at[b]]
    /\ Forget(IF p = "idle" THEN {client[t]} ELSE {})

GoOn(t, s) ==
    /\ step' = [step EXCEPT ![t] = s]
    /\ UNCHANGED <<arg, client, at, formVars>>
-----------------------------------------------------------------------------
(* Accounts and sessions. *)

Ready(b) == at[b] = "idle" /\ ~account[b]

\* POST /register.  A wrong namespace passphrase, or too many attempts, changes
\* nothing.
Register(b, n) ==
    /\ Ready(b)
    /\ \E t \in Thread : Serve(t, b, "lookup", n)
    /\ at' = [at EXCEPT ![b] = "joining"]
    /\ UNCHANGED <<bootVars, accounts, settingVars, sessionVars, formVars,
                   keyVars>>

\* Is the name taken?
Lookup(t) ==
    /\ step[t] = "lookup"
    /\ IF accounts[arg[t]] > 0 THEN Answer(t, "idle") ELSE GoOn(t, "join")
    /\ UNCHANGED <<bootVars, accounts, settingVars, sessionVars, keyVars>>

SignIn(b) ==
    /\ account' = [account EXCEPT ![b] = TRUE]
    /\ cookie' = [cookie EXCEPT ![b] = TRUE]

\* The account is committed.  The column is unique: the second of two is an
\* IntegrityError, which nothing catches.
JoinTwice(t) ==
    /\ step[t] = "join"
    /\ accounts' = [accounts EXCEPT ![arg[t]] = @ + 1]
    /\ Answer(t, "idle")
    /\ IF client[t] = Nobody THEN UNCHANGED sessionVars ELSE SignIn(client[t])
    /\ UNCHANGED <<bootVars, settingVars, keyVars>>
Join(t) ==
    /\ step[t] = "join"
    /\ Answer(t, "idle")
    /\ IF accounts[arg[t]] > 0
       THEN UNCHANGED <<accounts, sessionVars>>
       ELSE /\ accounts' = [accounts EXCEPT ![arg[t]] = @ + 1]
            /\ IF client[t] = Nobody
               THEN UNCHANGED sessionVars ELSE SignIn(client[t])
    /\ UNCHANGED <<bootVars, settingVars, keyVars>>

\* POST /login with the password of an account.
Login(b, n) ==
    /\ Ready(b) /\ boot = "up" /\ accounts[n] > 0
    /\ SignIn(b)
    /\ UNCHANGED <<bootVars, accounts, settingVars, threadVars, at, formVars,
                   keyVars>>

\* handleLogout does not wait for the answer of POST /logout.
Logout(b) ==
    /\ account[b]
    /\ account' = [account EXCEPT ![b] = FALSE]
    /\ UNCHANGED <<bootVars, accounts, settingVars, threadVars, cookie, at,
                   formVars, keyVars>>

\* SESSION_LIFETIME_DAYS have passed, or POST /logout is answered: late enough,
\* it takes the cookie of a session begun since then.
EndSession(b) ==
    /\ cookie[b]
    /\ cookie' = [cookie EXCEPT ![b] = FALSE]
    /\ UNCHANGED <<bootVars, accounts, settingVars, threadVars, account, at,
                   formVars, keyVars>>
-----------------------------------------------------------------------------
(* The passphrase form.  Every request of it needs a session. *)

Asks(b) == boot = "up" /\ cookie[b]

\* The salt is fetched and the key derived.
Submit(b, p) ==
    /\ at[b] = "idle" /\ account[b] /\ ~unlocked[b] /\ Asks(b)
    /\ key' = [key EXCEPT ![b] = <<p, salt>>]
    /\ at' = [at EXCEPT ![b] = "derived"]
    /\ UNCHANGED <<bootVars, accounts, settingVars, threadVars, sessionVars,
                   seen, keyVars>>

GetVerifier(b) ==
    /\ at[b] \in {"derived", "conflict"} /\ Asks(b)
    /\ seen' = [seen EXCEPT ![b] = verifier]
    /\ at' = [at EXCEPT ![b] = IF verifier = NoKey THEN "create" ELSE "verify"]
    /\ UNCHANGED <<bootVars, accounts, settingVars, threadVars, sessionVars,
                   key, keyVars>>

PutVerifier(b) ==
    /\ at[b] = "create" /\ Asks(b)
    /\ \E t \in Thread : Serve(t, b, "check", key[b])
    /\ at' = [at EXCEPT ![b] = "putting"]
    /\ UNCHANGED <<bootVars, accounts, settingVars, sessionVars, formVars,
                   keyVars>>

PastCheck(t) == step[t] \in {"merge", "insert", "update"}
Crosses(t) ==
    crossed' = \/ crossed
               \/ verifier = NoKey /\ \E u \in Thread \ {t} : PastCheck(u)

\* put_namespace_verifier: 409 if there is one already.
CheckAndStore(t) ==
    /\ step[t] = "check"
    /\ IF verifier = NoKey THEN GoOn(t, "merge") ELSE Answer(t, "store")
    /\ Crosses(t)
    /\ UNCHANGED <<bootVars, accounts, verifier, past, sessionVars, keyVars>>
Check(t) ==
    /\ step[t] = "check"
    /\ IF verifier = NoKey THEN GoOn(t, "merge") ELSE Answer(t, "conflict")
    /\ Crosses(t)
    /\ UNCHANGED <<bootVars, accounts, verifier, past, sessionVars, keyVars>>

\* set_setting merges: it looks for the row once more ...
Merge(t) ==
    /\ step[t] = "merge"
    /\ GoOn(t, IF verifier = NoKey THEN "insert" ELSE "update")
    /\ UNCHANGED <<bootVars, accounts, settingVars, sessionVars, keyVars>>

\* ... and the commit inserts it, which fails when it is there by now, ...
Insert(t) ==
    /\ step[t] = "insert"
    /\ IF verifier = NoKey
       THEN /\ verifier' = arg[t] /\ past' = past \cup {arg[t]}
            /\ Answer(t, "store")
       ELSE Answer(t, "idle") /\ UNCHANGED <<verifier, past>>
    /\ UNCHANGED <<bootVars, accounts, crossed, sessionVars, keyVars>>

\* ... or replaces what it holds.
Update(t) ==
    /\ step[t] = "update"
    /\ verifier' = arg[t] /\ past' = past \cup {arg[t]}
    /\ Answer(t, "store")
    /\ UNCHANGED <<bootVars, accounts, crossed, sessionVars, keyVars>>

\* Does the key decrypt the verifier?
VerifyNothing(b) ==
    /\ at[b] = "verify"
    /\ at' = [at EXCEPT ![b] = "store"]
    /\ UNCHANGED <<bootVars, accounts, settingVars, threadVars, sessionVars,
                   formVars, keyVars>>
Verify(b) ==
    /\ at[b] = "verify"
    /\ IF key[b] = seen[b]
       THEN at' = [at EXCEPT ![b] = "store"] /\ UNCHANGED formVars
       ELSE at' = [at EXCEPT ![b] = "idle"] /\ Forget({b})
    /\ UNCHANGED <<bootVars, accounts, settingVars, threadVars, sessionVars,
                   keyVars>>

Unlock(b) ==
    /\ at[b] = "store"
    /\ stored' = [stored EXCEPT ![b] = key[b]]
    /\ unlocked' = [unlocked EXCEPT ![b] = TRUE]
    /\ at' = [at EXCEPT ![b] = "idle"] /\ Forget({b})
    /\ UNCHANGED <<bootVars, accounts, settingVars, threadVars, sessionVars>>

\* "Re-enter passphrase".  The key store runs its transactions in order, so
\* that the deletion comes before what a later submission stores.
Relock(b) ==
    /\ at[b] = "idle" /\ account[b] /\ unlocked[b]
    /\ stored' = [stored EXCEPT ![b] = NoKey]
    /\ unlocked' = [unlocked EXCEPT ![b] = FALSE]
    /\ UNCHANGED <<bootVars, accounts, settingVars, threadVars, sessionVars,
                   at, formVars>>

\* A handler ends with an error, or with its tab: no connection, 401, a key
\* store that refuses.  What it asked the coordinator for is done all the same.
Abandon(b) ==
    /\ at[b] # "idle"
    /\ at' = [at EXCEPT ![b] = "idle"] /\ Forget({b})
    /\ client' = [t \in Thread |->
                     IF client[t] = b THEN Nobody ELSE client[t]]
    /\ UNCHANGED <<bootVars, accounts, settingVars, step, arg, sessionVars,
                   keyVars>>

\* The tab is opened again: GET /me says whether there is a session.
Reload(b) ==
    /\ at[b] = "idle" /\ boot = "up" /\ account[b] # cookie[b]
    /\ account' = [account EXCEPT ![b] = cookie[b]]
    /\ UNCHANGED <<bootVars, accounts, settingVars, threadVars, cookie, at,
                   formVars, keyVars>>
-----------------------------------------------------------------------------
Start == Seed \/ LoadConfig \/ Stop

Work(t) == Lookup(t) \/ Join(t) \/ Check(t) \/ Merge(t) \/ Insert(t) \/ Update(t)

Session(b) ==
    \/ \E n \in Name : Register(b, n) \/ Login(b, n)
    \/ Logout(b) \/ EndSession(b) \/ Reload(b)

Form(b) ==
    \/ \E p \in Passphrase : Submit(b, p)
    \/ GetVerifier(b) \/ PutVerifier(b) \/ Verify(b) \/ Unlock(b)
    \/ Relock(b) \/ Abandon(b)

Next ==
    \/ Start
    \/ \E t \in Thread : Work(t)
    \/ \E b \in Browser : Session(b) \/ Form(b)

Spec == Init /\ [][Next]_vars
-----------------------------------------------------------------------------
(* Properties. *)

TypeOK ==
    /\ boot \in {"down", "seeded", "up"}
    /\ boots \in 0..MaxBoots /\ salt \in 0..boots
    /\ boot # "down" => salt # 0
    /\ accounts \in [Name -> Nat]
    /\ verifier \in Key \cup {NoKey} /\ past \subseteq Key
    /\ crossed \in BOOLEAN
    /\ step \in [Thread -> {"free", "lookup", "join", "check", "merge",
                            "insert", "update"}]
    /\ arg \in [Thread -> Name \cup Key \cup {NoKey}]
    /\ \A t \in Thread :
          /\ step[t] \in {"lookup", "join"} => arg[t] \in Name
          /\ step[t] \in {"check", "merge", "insert", "update"} => arg[t] \in Key
    /\ client \in [Thread -> Browser \cup {Nobody}]
    /\ account \in [Browser -> BOOLEAN] /\ cookie \in [Browser -> BOOLEAN]
    /\ at \in [Browser -> {"idle", "joining", "derived", "create", "putting",
                           "conflict", "verify", "store"}]
    /\ key \in [Browser -> Key \cup {NoKey}]
    /\ seen \in [Browser -> Key \cup {NoKey}]
    /\ stored \in [Browser -> Key \cup {NoKey}]
    /\ unlocked \in [Browser -> BOOLEAN]

\* Two people who register one name at the same time do not both get it: the
\* look-up and the insert are two steps (auth.py:104-113).
OneAccountPerName == \A n \in Name : accounts[n] <= 1

\* Whatever a user mistypes, and whoever sets the verifier meanwhile, a browser
\* only ever unlocks with a key the group's verifier stood for, then or earlier:
\* 409, 500 and lost answers included (SettingsPage.tsx:44-58).
UnlockedWasShared ==
    \A b \in Browser : /\ stored[b] # NoKey => stored[b] \in past
                       /\ unlocked[b] => stored[b] # NoKey

\* One passphrase gives one key on every browser, before and after a restart
\* of the coordinator: all keys are derived with one salt (settings.py:42-59).
OneSalt ==
    LET keys == past \cup {key[b] : b \in Browser} \cup {seen[b] : b \in Browser}
    IN  \A k \in keys \ {NoKey} : k[2] = salt

\* First-write-wins (auth.py:171), as far as the code keeps it: the verifier is
\* never replaced, and whoever unlocks has its key, through mistyped passphrases,
\* lost answers and restarts, unless two PUTs both found none before either was
\* committed.  Then the later commit does replace the earlier one, and leaves
\* the browser that was first with a key nobody else has (auth.py:172-176).
FirstWriteWins ==
    ~crossed => /\ past \subseteq {verifier}
                /\ \A b \in Browser : stored[b] \in {NoKey, verifier}
=============================================================================
