-------------------------- MODULE Namespace_proofs --------------------------
(***************************************************************************)
(* For any number of browsers, threads, names and passphrases: a name has   *)
(* one account, a browser unlocks only with a key that the verifier stood   *)
(* for, all keys are derived with one salt, and the first verifier stays    *)
(* unless PUTs crossed.                                                     *)
(*                                                                         *)
(* The argument for the keys: a browser gets to "store" either from a       *)
(* verifier it has seen and that its key decrypts, or from the answer to    *)
(* its own PUT, which carries its key.  The latter needs that a browser     *)
(* waits for one thread at most, and for what it is going to do: a browser  *)
(* that gives up is forgotten by the thread before it asks again.           *)
(***************************************************************************)
EXTENDS Namespace, TLAPS

Joining == {"lookup", "join"}
Putting == {"check", "merge", "insert", "update"}

\* The type invariant in two parts.
Types ==
    /\ boot \in {"down", "seeded", "up"}
    /\ boots \in 0..MaxBoots /\ salt \in 0..boots
    /\ boot # "down" => salt # 0
    /\ accounts \in [Name -> Nat]
    /\ verifier \in Key \cup {NoKey} /\ past \subseteq Key
    /\ step \in [Thread -> {"free", "lookup", "join", "check", "merge",
                            "insert", "update"}]
    /\ arg \in [Thread -> Name \cup Key \cup {NoKey}]
    /\ \A t \in Thread : /\ step[t] \in Joining => arg[t] \in Name
                         /\ step[t] \in Putting => arg[t] \in Key
    /\ client \in [Thread -> Browser \cup {Nobody}]
    /\ at \in [Browser -> {"idle", "joining", "derived", "create", "putting",
                           "conflict", "verify", "store"}]
    /\ key \in [Browser -> Key \cup {NoKey}]
    /\ seen \in [Browser -> Key \cup {NoKey}]
    /\ stored \in [Browser -> Key \cup {NoKey}]
Flags ==
    /\ account \in [Browser -> BOOLEAN] /\ cookie \in [Browser -> BOOLEAN]
    /\ unlocked \in [Browser -> BOOLEAN] /\ crossed \in BOOLEAN

\* Who waits for what: a browser for one thread at most, which does what the
\* browser has asked for, with the key of the browser.
Waits ==
    /\ \A t \in Thread :
          client[t] # Nobody =>
             \/ step[t] \in Joining /\ at[client[t]] = "joining"
             \/ /\ step[t] \in Putting /\ at[client[t]] = "putting"
                /\ arg[t] = key[client[t]]
    /\ \A t, u \in Thread : client[t] # Nobody /\ client[t] = client[u] => t = u
    /\ \A b \in Browser : at[b] \notin {"idle", "joining"} => key[b] # NoKey

\* What a browser knows of the verifier, it was once.
Shared ==
    /\ verifier # NoKey => verifier \in past
    /\ \A b \in Browser : /\ seen[b] # NoKey => seen[b] \in past
                          /\ stored[b] # NoKey => stored[b] \in past
                          /\ at[b] = "verify" => seen[b] # NoKey
                          /\ at[b] = "store" => key[b] \in past
Unlocked == \A b \in Browser : unlocked[b] => stored[b] # NoKey

\* One salt is in every key, wherever it is.
Salted ==
    /\ \A k \in past : k[2] = salt
    /\ \A b \in Browser : key[b] # NoKey => key[b][2] = salt
    /\ \A t \in Thread : step[t] \in Putting => arg[t][2] = salt

Inv == /\ Types /\ Flags /\ Waits /\ Shared /\ Unlocked /\ Salted
       /\ OneAccountPerName

LEMMA KeysAreNotNoKey == \A k \in Key : k # NoKey /\ k[2] \in 1..MaxBoots
BY NamespaceAssumption DEF Key

LEMMA InitInv == Init => Inv
<1> SUFFICES ASSUME Init PROVE Inv
  OBVIOUS
<1> USE NamespaceAssumption DEF Init
<1>1. Types
  BY DEF Types, Joining, Putting
<1>2. Flags
  BY DEF Flags
<1>3. Waits /\ Shared /\ Unlocked /\ OneAccountPerName
  BY DEF Waits, Shared, Unlocked, OneAccountPerName
<1>4. Salted
  BY DEF Salted, Putting
<1> QED BY <1>1, <1>2, <1>3, <1>4 DEF Inv

LEMMA SeedInv == ASSUME Inv, Seed PROVE Inv'
<1> USE NamespaceAssumption DEF Inv, Seed,
        bootVars, settingVars, threadVars, sessionVars, formVars, keyVars
<1>1. Types'
  BY KeysAreNotNoKey DEF Types, Waits, Joining, Putting
<1>2. Flags'
  BY DEF Flags
<1>3. Waits'
  BY KeysAreNotNoKey DEF Waits, Types, Joining, Putting
<1>4. Shared'
  BY KeysAreNotNoKey DEF Shared, Waits, Types, Putting
<1>5. Unlocked'
  BY KeysAreNotNoKey DEF Unlocked, Flags, Types, Waits
<1>6. Salted'
  BY KeysAreNotNoKey DEF Salted, Types, Waits, Joining, Putting
<1>7. OneAccountPerName'
  BY DEF OneAccountPerName, Types, Joining
<1> QED BY <1>1, <1>2, <1>3, <1>4, <1>5, <1>6, <1>7

LEMMA LoadConfigInv == ASSUME Inv, LoadConfig PROVE Inv'
<1> USE NamespaceAssumption DEF Inv, LoadConfig,
        bootVars, settingVars, threadVars, sessionVars, formVars, keyVars
<1>1. Types'
  BY KeysAreNotNoKey DEF Types, Waits, Joining, Putting
<1>2. Flags'
  BY DEF Flags
<1>3. Waits'
  BY KeysAreNotNoKey DEF Waits, Types, Joining, Putting
<1>4. Shared'
  BY KeysAreNotNoKey DEF Shared, Waits, Types, Putting
<1>5. Unlocked'
  BY KeysAreNotNoKey DEF Unlocked, Flags, Types, Waits
<1>6. Salted'
  BY KeysAreNotNoKey DEF Salted, Types, Waits, Joining, Putting
<1>7. OneAccountPerName'
  BY DEF OneAccountPerName, Types, Joining
<1> QED BY <1>1, <1>2, <1>3, <1>4, <1>5, <1>6, <1>7

LEMMA StopInv == ASSUME Inv, Stop PROVE Inv'
<1> USE NamespaceAssumption DEF Inv, Stop, Forget,
        bootVars, settingVars, threadVars, sessionVars, formVars, keyVars
<1>1. Types'
  BY KeysAreNotNoKey DEF Types, Waits, Joining, Putting
<1>2. Flags'
  BY DEF Flags
<1>3. Waits'
  BY KeysAreNotNoKey DEF Waits, Types, Joining, Putting
<1>4. Shared'
  BY KeysAreNotNoKey DEF Shared, Waits, Types, Putting
<1>5. Unlocked'
  BY KeysAreNotNoKey DEF Unlocked, Flags, Types, Waits
<1>6. Salted'
  BY KeysAreNotNoKey DEF Salted, Types, Waits, Joining, Putting
<1>7. OneAccountPerName'
  BY DEF OneAccountPerName, Types, Joining
<1> QED BY <1>1, <1>2, <1>3, <1>4, <1>5, <1>6, <1>7

LEMMA RegisterInv == ASSUME NEW b \in Browser, NEW n \in Name, Inv, Register(b, n) PROVE Inv'
<1> USE NamespaceAssumption DEF Inv, Register, Ready, Serve,
        bootVars, settingVars, threadVars, sessionVars, formVars, keyVars
<1> PICK t \in Thread : Serve(t, b, "lookup", n)
  OBVIOUS
<1>1. Types'
  BY KeysAreNotNoKey DEF Types, Waits, Joining, Putting
<1>2. Flags'
  BY DEF Flags
<1>3. Waits'
  BY KeysAreNotNoKey DEF Waits, Types, Joining, Putting
<1>4. Shared'
  BY KeysAreNotNoKey DEF Shared, Waits, Types, Putting
<1>5. Unlocked'
  BY KeysAreNotNoKey DEF Unlocked, Flags, Types, Waits
<1>6. Salted'
  BY KeysAreNotNoKey DEF Salted, Types, Waits, Joining, Putting
<1>7. OneAccountPerName'
  BY DEF OneAccountPerName, Types, Joining
<1> QED BY <1>1, <1>2, <1>3, <1>4, <1>5, <1>6, <1>7

LEMMA LookupInv == ASSUME NEW t \in Thread, Inv, Lookup(t) PROVE Inv'
<1> USE NamespaceAssumption DEF Inv, Lookup, Answer, Forget, GoOn,
        bootVars, settingVars, threadVars, sessionVars, formVars, keyVars
<1>1. Types'
  BY KeysAreNotNoKey DEF Types, Waits, Joining, Putting
<1>2. Flags'
  BY DEF Flags
<1>3. Waits'
  BY KeysAreNotNoKey DEF Waits, Types, Joining, Putting
<1>4. Shared'
  BY KeysAreNotNoKey DEF Shared, Waits, Types, Putting
<1>5. Unlocked'
  BY KeysAreNotNoKey DEF Unlocked, Flags, Types, Waits
<1>6. Salted'
  BY KeysAreNotNoKey DEF Salted, Types, Waits, Joining, Putting
<1>7. OneAccountPerName'
  BY DEF OneAccountPerName, Types, Joining
<1> QED BY <1>1, <1>2, <1>3, <1>4, <1>5, <1>6, <1>7

LEMMA JoinInv == ASSUME NEW t \in Thread, Inv, Join(t) PROVE Inv'
<1> USE NamespaceAssumption DEF Inv, Join, Answer, Forget, SignIn,
        bootVars, settingVars, threadVars, sessionVars, formVars, keyVars
<1>1. Types'
  BY KeysAreNotNoKey DEF Types, Waits, Joining, Putting
<1>2. Flags'
  BY DEF Flags
<1>3. Waits'
  BY KeysAreNotNoKey DEF Waits, Types, Joining, Putting
<1>4. Shared'
  BY KeysAreNotNoKey DEF Shared, Waits, Types, Putting
<1>5. Unlocked'
  BY KeysAreNotNoKey DEF Unlocked, Flags, Types, Waits
<1>6. Salted'
  BY KeysAreNotNoKey DEF Salted, Types, Waits, Joining, Putting
<1>7. OneAccountPerName'
  BY DEF OneAccountPerName, Types, Joining
<1> QED BY <1>1, <1>2, <1>3, <1>4, <1>5, <1>6, <1>7

LEMMA LoginInv == ASSUME NEW b \in Browser, NEW n \in Name, Inv, Login(b, n) PROVE Inv'
<1> USE NamespaceAssumption DEF Inv, Login, Ready, SignIn,
        bootVars, settingVars, threadVars, sessionVars, formVars, keyVars
<1>1. Types'
  BY KeysAreNotNoKey DEF Types, Waits, Joining, Putting
<1>2. Flags'
  BY DEF Flags
<1>3. Waits'
  BY KeysAreNotNoKey DEF Waits, Types, Joining, Putting
<1>4. Shared'
  BY KeysAreNotNoKey DEF Shared, Waits, Types, Putting
<1>5. Unlocked'
  BY KeysAreNotNoKey DEF Unlocked, Flags, Types, Waits
<1>6. Salted'
  BY KeysAreNotNoKey DEF Salted, Types, Waits, Joining, Putting
<1>7. OneAccountPerName'
  BY DEF OneAccountPerName, Types, Joining
<1> QED BY <1>1, <1>2, <1>3, <1>4, <1>5, <1>6, <1>7

LEMMA LogoutInv == ASSUME NEW b \in Browser, Inv, Logout(b) PROVE Inv'
<1> USE NamespaceAssumption DEF Inv, Logout,
        bootVars, settingVars, threadVars, sessionVars, formVars, keyVars
<1>1. Types'
  BY KeysAreNotNoKey DEF Types, Waits, Joining, Putting
<1>2. Flags'
  BY DEF Flags
<1>3. Waits'
  BY KeysAreNotNoKey DEF Waits, Types, Joining, Putting
<1>4. Shared'
  BY KeysAreNotNoKey DEF Shared, Waits, Types, Putting
<1>5. Unlocked'
  BY KeysAreNotNoKey DEF Unlocked, Flags, Types, Waits
<1>6. Salted'
  BY KeysAreNotNoKey DEF Salted, Types, Waits, Joining, Putting
<1>7. OneAccountPerName'
  BY DEF OneAccountPerName, Types, Joining
<1> QED BY <1>1, <1>2, <1>3, <1>4, <1>5, <1>6, <1>7

LEMMA EndSessionInv == ASSUME NEW b \in Browser, Inv, EndSession(b) PROVE Inv'
<1> USE NamespaceAssumption DEF Inv, EndSession,
        bootVars, settingVars, threadVars, sessionVars, formVars, keyVars
<1>1. Types'
  BY KeysAreNotNoKey DEF Types, Waits, Joining, Putting
<1>2. Flags'
  BY DEF Flags
<1>3. Waits'
  BY KeysAreNotNoKey DEF Waits, Types, Joining, Putting
<1>4. Shared'
  BY KeysAreNotNoKey DEF Shared, Waits, Types, Putting
<1>5. Unlocked'
  BY KeysAreNotNoKey DEF Unlocked, Flags, Types, Waits
<1>6. Salted'
  BY KeysAreNotNoKey DEF Salted, Types, Waits, Joining, Putting
<1>7. OneAccountPerName'
  BY DEF OneAccountPerName, Types, Joining
<1> QED BY <1>1, <1>2, <1>3, <1>4, <1>5, <1>6, <1>7

LEMMA SubmitInv == ASSUME NEW b \in Browser, NEW p \in Passphrase, Inv, Submit(b, p) PROVE Inv'
<1> USE NamespaceAssumption DEF Inv, Submit, Asks,
        bootVars, settingVars, threadVars, sessionVars, formVars, keyVars
<1>0. <<p, salt>> \in Key
  BY DEF Types, Key
<1>1. Types'
  BY <1>0, KeysAreNotNoKey DEF Types, Waits, Joining, Putting
<1>2. Flags'
  BY DEF Flags
<1>3. Waits'
  BY KeysAreNotNoKey DEF Waits, Types, Joining, Putting
<1>4. Shared'
  BY KeysAreNotNoKey DEF Shared, Waits, Types, Putting
<1>5. Unlocked'
  BY KeysAreNotNoKey DEF Unlocked, Flags, Types, Waits
<1>6. Salted'
  BY KeysAreNotNoKey DEF Salted, Types, Waits, Joining, Putting
<1>7. OneAccountPerName'
  BY DEF OneAccountPerName, Types, Joining
<1> QED BY <1>1, <1>2, <1>3, <1>4, <1>5, <1>6, <1>7

LEMMA GetVerifierInv == ASSUME NEW b \in Browser, Inv, GetVerifier(b) PROVE Inv'
<1> USE NamespaceAssumption DEF Inv, GetVerifier, Asks,
        bootVars, settingVars, threadVars, sessionVars, formVars, keyVars
<1>1. Types'
  BY KeysAreNotNoKey DEF Types, Waits, Joining, Putting
<1>2. Flags'
  BY DEF Flags
<1>3. Waits'
  BY KeysAreNotNoKey DEF Waits, Types, Joining, Putting
<1>4. Shared'
  BY KeysAreNotNoKey DEF Shared, Waits, Types, Putting
<1>5. Unlocked'
  BY KeysAreNotNoKey DEF Unlocked, Flags, Types, Waits
<1>6. Salted'
  BY KeysAreNotNoKey DEF Salted, Types, Waits, Joining, Putting
<1>7. OneAccountPerName'
  BY DEF OneAccountPerName, Types, Joining
<1> QED BY <1>1, <1>2, <1>3, <1>4, <1>5, <1>6, <1>7

LEMMA PutVerifierInv == ASSUME NEW b \in Browser, Inv, PutVerifier(b) PROVE Inv'
<1> USE NamespaceAssumption DEF Inv, PutVerifier, Asks, Serve,
        bootVars, settingVars, threadVars, sessionVars, formVars, keyVars
<1> PICK t \in Thread : Serve(t, b, "check", key[b])
  OBVIOUS
<1>1. Types'
  BY KeysAreNotNoKey DEF Types, Waits, Joining, Putting
<1>2. Flags'
  BY DEF Flags
<1>3. Waits'
  BY KeysAreNotNoKey DEF Waits, Types, Joining, Putting
<1>4. Shared'
  BY KeysAreNotNoKey DEF Shared, Waits, Types, Putting
<1>5. Unlocked'
  BY KeysAreNotNoKey DEF Unlocked, Flags, Types, Waits
<1>6. Salted'
  BY KeysAreNotNoKey DEF Salted, Types, Waits, Joining, Putting
<1>7. OneAccountPerName'
  BY DEF OneAccountPerName, Types, Joining
<1> QED BY <1>1, <1>2, <1>3, <1>4, <1>5, <1>6, <1>7

LEMMA CheckInv == ASSUME NEW t \in Thread, Inv, Check(t) PROVE Inv'
<1> USE NamespaceAssumption DEF Inv, Check, Answer, Forget, GoOn,
        bootVars, settingVars, threadVars, sessionVars, formVars, keyVars
<1>1. Types'
  BY KeysAreNotNoKey DEF Types, Waits, Joining, Putting
<1>2. Flags'
  BY DEF Flags, Crosses
<1>3. Waits'
  BY KeysAreNotNoKey DEF Waits, Types, Joining, Putting
<1>4. Shared'
  BY KeysAreNotNoKey DEF Shared, Waits, Types, Putting
<1>5. Unlocked'
  BY KeysAreNotNoKey DEF Unlocked, Flags, Types, Waits
<1>6. Salted'
  BY KeysAreNotNoKey DEF Salted, Types, Waits, Joining, Putting
<1>7. OneAccountPerName'
  BY DEF OneAccountPerName, Types, Joining
<1> QED BY <1>1, <1>2, <1>3, <1>4, <1>5, <1>6, <1>7

LEMMA MergeInv == ASSUME NEW t \in Thread, Inv, Merge(t) PROVE Inv'
<1> USE NamespaceAssumption DEF Inv, Merge, GoOn,
        bootVars, settingVars, threadVars, sessionVars, formVars, keyVars
<1>1. Types'
  BY KeysAreNotNoKey DEF Types, Waits, Joining, Putting
<1>2. Flags'
  BY DEF Flags
<1>3. Waits'
  BY KeysAreNotNoKey DEF Waits, Types, Joining, Putting
<1>4. Shared'
  BY KeysAreNotNoKey DEF Shared, Waits, Types, Putting
<1>5. Unlocked'
  BY KeysAreNotNoKey DEF Unlocked, Flags, Types, Waits
<1>6. Salted'
  BY KeysAreNotNoKey DEF Salted, Types, Waits, Joining, Putting
<1>7. OneAccountPerName'
  BY DEF OneAccountPerName, Types, Joining
<1> QED BY <1>1, <1>2, <1>3, <1>4, <1>5, <1>6, <1>7

LEMMA InsertInv == ASSUME NEW t \in Thread, Inv, Insert(t) PROVE Inv'
<1> USE NamespaceAssumption DEF Inv, Insert, Answer, Forget,
        bootVars, settingVars, threadVars, sessionVars, formVars, keyVars
<1>1. Types'
  BY KeysAreNotNoKey DEF Types, Waits, Joining, Putting
<1>2. Flags'
  BY DEF Flags
<1>3. Waits'
  BY KeysAreNotNoKey DEF Waits, Types, Joining, Putting
<1>4. Shared'
  <2>1. CASE verifier = NoKey
    BY <2>1, KeysAreNotNoKey DEF Shared, Types, Waits, Joining, Putting
  <2>2. CASE verifier # NoKey
    BY <2>2, KeysAreNotNoKey DEF Shared, Types, Waits, Joining, Putting
  <2> QED BY <2>1, <2>2
<1>5. Unlocked'
  BY KeysAreNotNoKey DEF Unlocked, Flags, Types, Waits
<1>6. Salted'
  BY KeysAreNotNoKey DEF Salted, Types, Waits, Joining, Putting
<1>7. OneAccountPerName'
  BY DEF OneAccountPerName, Types, Joining
<1> QED BY <1>1, <1>2, <1>3, <1>4, <1>5, <1>6, <1>7

LEMMA UpdateInv == ASSUME NEW t \in Thread, Inv, Update(t) PROVE Inv'
<1> USE NamespaceAssumption DEF Inv, Update, Answer, Forget,
        bootVars, settingVars, threadVars, sessionVars, formVars, keyVars
<1>1. Types'
  BY KeysAreNotNoKey DEF Types, Waits, Joining, Putting
<1>2. Flags'
  BY DEF Flags
<1>3. Waits'
  BY KeysAreNotNoKey DEF Waits, Types, Joining, Putting
<1>4. Shared'
  <2>1. arg[t] \in Key /\ past' = past \cup {arg[t]}
    BY DEF Types, Putting
  <2>2. verifier' # NoKey => verifier' \in past'
    BY <2>1
  <2>3. key' = key /\ seen' = seen /\ stored' = stored
    BY DEF Types
  <2>4. ASSUME NEW b \in Browser, at'[b] = "store" PROVE key[b] \in past'
    <3>1. CASE client[t] = b
      <4>1. client[t] # Nobody /\ step[t] \notin Joining
        BY <3>1 DEF Joining
      <4>2. arg[t] = key[b]
        BY <3>1, <4>1 DEF Waits
      <4> QED BY <2>1, <4>2
    <3>2. CASE client[t] # b
      <4>1. at[b] = "store"
        BY <2>4, <3>2 DEF Types
      <4> QED BY <2>1, <4>1 DEF Shared
    <3> QED BY <3>1, <3>2
  <2>5. ASSUME NEW b \in Browser, at'[b] = "verify" PROVE seen[b] # NoKey
    BY <2>5 DEF Shared, Types
  <2> QED BY <2>1, <2>2, <2>3, <2>4, <2>5 DEF Shared
<1>5. Unlocked'
  BY KeysAreNotNoKey DEF Unlocked, Flags, Types, Waits
<1>6. Salted'
  BY KeysAreNotNoKey DEF Salted, Types, Waits, Joining, Putting
<1>7. OneAccountPerName'
  BY DEF OneAccountPerName, Types, Joining
<1> QED BY <1>1, <1>2, <1>3, <1>4, <1>5, <1>6, <1>7

LEMMA VerifyInv == ASSUME NEW b \in Browser, Inv, Verify(b) PROVE Inv'
<1> USE NamespaceAssumption DEF Inv, Verify, Forget,
        bootVars, settingVars, threadVars, sessionVars, formVars, keyVars
<1>1. Types'
  BY KeysAreNotNoKey DEF Types, Waits, Joining, Putting
<1>2. Flags'
  BY DEF Flags
<1>3. Waits'
  BY KeysAreNotNoKey DEF Waits, Types, Joining, Putting
<1>4. Shared'
  BY KeysAreNotNoKey DEF Shared, Waits, Types, Putting
<1>5. Unlocked'
  BY KeysAreNotNoKey DEF Unlocked, Flags, Types, Waits
<1>6. Salted'
  BY KeysAreNotNoKey DEF Salted, Types, Waits, Joining, Putting
<1>7. OneAccountPerName'
  BY DEF OneAccountPerName, Types, Joining
<1> QED BY <1>1, <1>2, <1>3, <1>4, <1>5, <1>6, <1>7

LEMMA UnlockInv == ASSUME NEW b \in Browser, Inv, Unlock(b) PROVE Inv'
<1> USE NamespaceAssumption DEF Inv, Unlock, Forget,
        bootVars, settingVars, threadVars, sessionVars, formVars, keyVars
<1>1. Types'
  BY KeysAreNotNoKey DEF Types, Waits, Joining, Putting
<1>2. Flags'
  BY DEF Flags
<1>3. Waits'
  BY KeysAreNotNoKey DEF Waits, Types, Joining, Putting
<1>4. Shared'
  BY KeysAreNotNoKey DEF Shared, Waits, Types, Putting
<1>5. Unlocked'
  BY KeysAreNotNoKey DEF Unlocked, Flags, Types, Waits
<1>6. Salted'
  BY KeysAreNotNoKey DEF Salted, Types, Waits, Joining, Putting
<1>7. OneAccountPerName'
  BY DEF OneAccountPerName, Types, Joining
<1> QED BY <1>1, <1>2, <1>3, <1>4, <1>5, <1>6, <1>7

LEMMA RelockInv == ASSUME NEW b \in Browser, Inv, Relock(b) PROVE Inv'
<1> USE NamespaceAssumption DEF Inv, Relock,
        bootVars, settingVars, threadVars, sessionVars, formVars, keyVars
<1>1. Types'
  BY KeysAreNotNoKey DEF Types, Waits, Joining, Putting
<1>2. Flags'
  BY DEF Flags
<1>3. Waits'
  BY KeysAreNotNoKey DEF Waits, Types, Joining, Putting
<1>4. Shared'
  BY KeysAreNotNoKey DEF Shared, Waits, Types, Putting
<1>5. Unlocked'
  BY KeysAreNotNoKey DEF Unlocked, Flags, Types, Waits
<1>6. Salted'
  BY KeysAreNotNoKey DEF Salted, Types, Waits, Joining, Putting
<1>7. OneAccountPerName'
  BY DEF OneAccountPerName, Types, Joining
<1> QED BY <1>1, <1>2, <1>3, <1>4, <1>5, <1>6, <1>7

LEMMA AbandonInv == ASSUME NEW b \in Browser, Inv, Abandon(b) PROVE Inv'
<1> USE NamespaceAssumption DEF Inv, Abandon, Forget,
        bootVars, settingVars, threadVars, sessionVars, formVars, keyVars
<1>1. Types'
  BY KeysAreNotNoKey DEF Types, Waits, Joining, Putting
<1>2. Flags'
  BY DEF Flags
<1>3. Waits'
  BY KeysAreNotNoKey DEF Waits, Types, Joining, Putting
<1>4. Shared'
  BY KeysAreNotNoKey DEF Shared, Waits, Types, Putting
<1>5. Unlocked'
  BY KeysAreNotNoKey DEF Unlocked, Flags, Types, Waits
<1>6. Salted'
  BY KeysAreNotNoKey DEF Salted, Types, Waits, Joining, Putting
<1>7. OneAccountPerName'
  BY DEF OneAccountPerName, Types, Joining
<1> QED BY <1>1, <1>2, <1>3, <1>4, <1>5, <1>6, <1>7

LEMMA ReloadInv == ASSUME NEW b \in Browser, Inv, Reload(b) PROVE Inv'
<1> USE NamespaceAssumption DEF Inv, Reload,
        bootVars, settingVars, threadVars, sessionVars, formVars, keyVars
<1>1. Types'
  BY KeysAreNotNoKey DEF Types, Waits, Joining, Putting
<1>2. Flags'
  BY DEF Flags
<1>3. Waits'
  BY KeysAreNotNoKey DEF Waits, Types, Joining, Putting
<1>4. Shared'
  BY KeysAreNotNoKey DEF Shared, Waits, Types, Putting
<1>5. Unlocked'
  BY KeysAreNotNoKey DEF Unlocked, Flags, Types, Waits
<1>6. Salted'
  BY KeysAreNotNoKey DEF Salted, Types, Waits, Joining, Putting
<1>7. OneAccountPerName'
  BY DEF OneAccountPerName, Types, Joining
<1> QED BY <1>1, <1>2, <1>3, <1>4, <1>5, <1>6, <1>7

LEMMA StepInv == Inv /\ [Next]_vars => Inv'
<1> SUFFICES ASSUME Inv, [Next]_vars PROVE Inv'
  OBVIOUS
<1>1. CASE Start
  BY <1>1, SeedInv, LoadConfigInv, StopInv DEF Start
<1>2. CASE \E t \in Thread : Work(t)
  BY <1>2, LookupInv, JoinInv, CheckInv, MergeInv, InsertInv, UpdateInv DEF Work
<1>3. CASE \E b \in Browser : Session(b)
  BY <1>3, RegisterInv, LoginInv, LogoutInv, EndSessionInv, ReloadInv DEF Session
<1>4. CASE \E b \in Browser : Form(b)
  BY <1>4, SubmitInv, GetVerifierInv, PutVerifierInv, VerifyInv, UnlockInv,
     RelockInv, AbandonInv DEF Form
<1>5. CASE UNCHANGED vars
  BY <1>5 DEF Inv, vars, bootVars, settingVars, threadVars, sessionVars,
     formVars, keyVars, Types, Flags, Waits, Shared, Unlocked, Salted,
     OneAccountPerName
<1> QED BY <1>1, <1>2, <1>3, <1>4, <1>5 DEF Next

LEMMA AlwaysInv == Spec => []Inv
BY InitInv, StepInv, PTL DEF Spec

\* Every reachable state of the shared namespace is well typed, and no
\* coordinator serves without a salt (settings.py:42-59).
THEOREM TypeCorrect == Spec => []TypeOK
<1>1. Inv => TypeOK
  BY DEF Inv, Types, Flags, TypeOK, Joining, Putting
<1> QED BY <1>1, AlwaysInv, PTL

\* However many registrations cross, a name has one account (auth.py:104-113).
THEOREM NamesAreUnique == Spec => []OneAccountPerName
<1>1. Inv => OneAccountPerName
  BY DEF Inv
<1> QED BY <1>1, AlwaysInv, PTL

\* However many PUTs cross, fail or go unanswered, and however often the
\* coordinator stops in between, a browser unlocks only with a key that the
\* verifier stood for (SettingsPage.tsx:44-58, auth.py:171-176).
THEOREM UnlocksAreShared == Spec => []UnlockedWasShared
<1>1. Inv => UnlockedWasShared
  BY DEF Inv, Shared, Unlocked, UnlockedWasShared
<1> QED BY <1>1, AlwaysInv, PTL

\* All keys that any browser holds or has proved are derived with the one salt
\* that the first start drew (settings.py:42-59).
THEOREM SaltStays == Spec => []OneSalt
<1>1. Inv => OneSalt
  BY DEF Inv, Shared, Salted, OneSalt
<1> QED BY <1>1, AlwaysInv, PTL

-----------------------------------------------------------------------------
(* First-write-wins, while no PUTs crossed. *)

\* One thread at most is past its check, and it found no verifier.
OnePut ==
    /\ \A t, u \in Thread : PastCheck(t) /\ PastCheck(u) => t = u
    /\ \A t \in Thread :
          PastCheck(t) => verifier = NoKey /\ step[t] # "update"
\* What a browser has seen, or is about to store, is the verifier.
OneVerifier ==
    /\ past \subseteq {verifier}
    /\ \A b \in Browser : /\ stored[b] \in {NoKey, verifier}
                          /\ seen[b] \in {NoKey, verifier}
                          /\ at[b] = "store" => key[b] = verifier
FirstInv == Inv /\ (~crossed => OnePut /\ OneVerifier)

LEMMA InitFirst == Init => FirstInv
<1> SUFFICES ASSUME Init PROVE FirstInv
  OBVIOUS
<1>1. Inv
  BY InitInv
<1>2. OnePut /\ OneVerifier
  BY DEF Init, OnePut, OneVerifier, PastCheck
<1> QED BY <1>1, <1>2 DEF FirstInv

\* A step that leaves the verifier alone, lets no thread past its check and
\* shows browsers the verifier only.
LEMMA QuietFirst ==
  ASSUME OnePut, OneVerifier, UNCHANGED <<verifier, past>>,
         \A t \in Thread : PastCheck(t)' => PastCheck(t) /\ step'[t] # "update",
         \A b \in Browser : /\ stored'[b] \in {NoKey, verifier}
                            /\ seen'[b] \in {NoKey, verifier}
                            /\ at'[b] = "store" => key'[b] = verifier
  PROVE  OnePut' /\ OneVerifier'
BY DEF OnePut, OneVerifier

LEMMA StartFirst ==
  ASSUME Inv, OnePut, OneVerifier, Start PROVE OnePut' /\ OneVerifier'
<1> USE DEF OneVerifier, OnePut, PastCheck, Inv, Types, bootVars, settingVars,
            threadVars, sessionVars, formVars, keyVars
<1>1. CASE Seed
  BY <1>1, QuietFirst DEF Seed
<1>2. CASE LoadConfig
  BY <1>2, QuietFirst DEF LoadConfig
<1>3. CASE Stop
  <2>1. \A t \in Thread : ~PastCheck(t)'
    BY <1>3 DEF Stop
  <2>2. \A b \in Browser : /\ stored'[b] \in {NoKey, verifier}
                           /\ seen'[b] \in {NoKey, verifier}
                           /\ at'[b] = "store" => key'[b] = verifier
    BY <1>3 DEF Stop, Forget
  <2>3. UNCHANGED <<verifier, past>>
    BY <1>3 DEF Stop
  <2> QED BY <2>1, <2>2, <2>3, QuietFirst
<1> QED BY <1>1, <1>2, <1>3 DEF Start

LEMMA WorkFirst ==
  ASSUME Inv, OnePut, OneVerifier, NEW t \in Thread, Work(t), ~crossed'
  PROVE  OnePut' /\ OneVerifier'
<1> USE KeysAreNotNoKey DEF OneVerifier, OnePut, PastCheck, Inv, Types, Waits,
        Joining, Putting, bootVars, settingVars, threadVars, sessionVars,
        formVars, keyVars, Answer, Forget, GoOn
<1>1. CASE Lookup(t)
  BY <1>1 DEF Lookup
<1>2. CASE Join(t)
  BY <1>2 DEF Join
<1>3. CASE Check(t)
  <2>1. CASE verifier = NoKey
    <3>1. \A u \in Thread \ {t} : ~PastCheck(u)
      BY <1>3, <2>1 DEF Check, Crosses
    <3>2. step' = [step EXCEPT ![t] = "merge"]
      BY <1>3, <2>1 DEF Check
    <3>3. OnePut'
      BY <1>3, <2>1, <3>1, <3>2 DEF Check
    <3>4. OneVerifier'
      BY <1>3, <2>1 DEF Check
    <3> QED BY <3>3, <3>4
  <2>2. CASE verifier # NoKey
    BY <1>3, <2>2 DEF Check
  <2> QED BY <2>1, <2>2
<1>4. CASE Merge(t)
  <2>1. verifier = NoKey
    BY <1>4 DEF Merge
  <2> QED BY <1>4, <2>1 DEF Merge
<1>5. CASE Insert(t)
  <2>1. verifier = NoKey /\ arg[t] \in Key
    BY <1>5 DEF Insert
  <2>2. past = {}
    BY <2>1
  <2>3. verifier' = arg[t] /\ past' = {arg[t]}
    BY <1>5, <2>1, <2>2 DEF Insert
  <2>4. \A u \in Thread : ~PastCheck(u)'
    BY <1>5, <2>1 DEF Insert
  <2>5. \A b \in Browser : stored'[b] = NoKey /\ seen'[b] = NoKey
    BY <1>5, <2>1 DEF Insert
  <2>6. \A b \in Browser : at[b] # "store"
    BY <2>1
  <2>7. \A b \in Browser : at'[b] = "store" => client[t] = b
    BY <1>5, <2>1, <2>6 DEF Insert
  <2>8. \A b \in Browser : client[t] = b => key'[b] = arg[t]
    BY <1>5, <2>1, NamespaceAssumption DEF Insert
  <2> QED BY <2>3, <2>4, <2>5, <2>7, <2>8
<1>6. CASE Update(t)
  BY <1>6 DEF Update
<1> QED BY <1>1, <1>2, <1>3, <1>4, <1>5, <1>6 DEF Work

LEMMA BrowserFirst ==
  ASSUME Inv, OnePut, OneVerifier, NEW b \in Browser, Session(b) \/ Form(b)
  PROVE  OnePut' /\ OneVerifier'
<1> USE DEF OneVerifier, OnePut, PastCheck, Inv, Types, bootVars, settingVars,
            threadVars, sessionVars, formVars, keyVars, Forget, Serve
<1>1. ASSUME NEW n \in Name, Register(b, n) PROVE OnePut' /\ OneVerifier'
  BY <1>1 DEF Register
<1>2. ASSUME NEW n \in Name, Login(b, n) PROVE OnePut' /\ OneVerifier'
  BY <1>2 DEF Login
<1>3. CASE Logout(b) \/ EndSession(b) \/ Reload(b)
  BY <1>3 DEF Logout, EndSession, Reload
<1>4. ASSUME NEW p \in Passphrase, Submit(b, p) PROVE OnePut' /\ OneVerifier'
  BY <1>4 DEF Submit
<1>5. CASE GetVerifier(b)
  BY <1>5 DEF GetVerifier
<1>6. CASE PutVerifier(b)
  BY <1>6 DEF PutVerifier
<1>7. CASE Verify(b)
  <2>1. seen[b] # NoKey
    BY <1>7 DEF Verify, Shared
  <2> QED BY <1>7, <2>1 DEF Verify
<1>8. CASE Unlock(b)
  BY <1>8 DEF Unlock
<1>9. CASE Relock(b)
  BY <1>9 DEF Relock
<1>10. CASE Abandon(b)
  BY <1>10 DEF Abandon
<1> QED BY <1>1, <1>2, <1>3, <1>4, <1>5, <1>6, <1>7, <1>8, <1>9, <1>10
        DEF Session, Form

LEMMA CrossedStays == [Next]_vars => (crossed => crossed')
BY DEF Next, vars, Start, Seed, LoadConfig, Stop, Work, Lookup, Join, Check,
   Crosses, Merge, Insert, Update, Session, Register, Login, Logout, EndSession,
   Reload, Form, Submit, GetVerifier, PutVerifier, Verify, Unlock, Relock,
   Abandon, settingVars

LEMMA StepFirst == FirstInv /\ [Next]_vars => FirstInv'
<1> SUFFICES ASSUME FirstInv, [Next]_vars, ~crossed'
             PROVE  OnePut' /\ OneVerifier'
  BY StepInv DEF FirstInv
<1>1. Inv /\ OnePut /\ OneVerifier
  BY CrossedStays DEF FirstInv
<1>2. CASE UNCHANGED vars
  BY <1>1, <1>2 DEF vars, settingVars, threadVars, formVars, keyVars, OnePut,
     OneVerifier, PastCheck
<1> QED BY <1>1, <1>2, StartFirst, WorkFirst, BrowserFirst DEF Next

\* The first verifier stays, and whoever unlocks has its key, unless two PUTs
\* both found none before either was committed (auth.py:171-176).
THEOREM FirstStays == Spec => []FirstWriteWins
<1>1. FirstInv => FirstWriteWins
  BY DEF FirstInv, OneVerifier, FirstWriteWins
<1> QED BY InitFirst, StepFirst, <1>1, PTL DEF Spec
=============================================================================
