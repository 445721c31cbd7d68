------------------------ MODULE UserResourcesProofs ------------------------
(***************************************************************************)
(* Theorems about the resources of players, for any number of players,     *)
(* collections, resources and jobs, and with or without the index on the   *)
(* transactions of deposits; and the types of the whole of Players.        *)
(***************************************************************************)
EXTENDS PlayersProofs, FiniteSetTheorems, WellFoundedInduction

-----------------------------------------------------------------------------
(* Documents and sequences of them.                                         *)

LEMMA QuantitiesPositive == \A n \in Quantities : n \in Nat /\ n > 0
  BY ResourcesAssumption

LEMMA EntryFields ==
    ASSUME NEW a \in Accounts, NEW g \in Games, NEW c \in Collections, NEW r \in Resources,
           NEW n \in Quantities
    PROVE  LET e == Entry(a, g, c, r, n) IN
           /\ e \in Entries
           /\ e.user = a /\ e.game = g /\ e.collection = c /\ e.resource = r /\ e.amount = n
  BY DEF Entry, Entries

LEMMA EntryTypes ==
    ASSUME NEW e \in Entries
    PROVE  /\ e # NoDoc /\ e.user \in Accounts /\ e.game \in Games /\ e.collection \in Collections
           /\ e.resource \in Resources /\ e.amount \in Nat /\ e.amount > 0
  <1>1. e # NoDoc
    BY ResourcesAssumption
  <1>2. /\ e.user \in Accounts /\ e.game \in Games /\ e.collection \in Collections
        /\ e.resource \in Resources /\ e.amount \in Quantities
    BY DEF Entries
  <1> QED
    BY <1>1, <1>2, QuantitiesPositive

LEMMA DocTypes ==
    ASSUME NEW doc \in UserResourceDocs
    PROVE  /\ doc.user \in Accounts /\ doc.game \in Games /\ doc.collection \in Collections
           /\ doc.balances \in [Resources -> Int] /\ doc.deposits \in SUBSET Deposits
           /\ \A r \in Resources : doc.balances[r] \in Int
  BY DEF UserResourceDocs

(* A document with the key and the deposits of another.                     *)
SameKey(new, doc) == new.user = doc.user /\ new.game = doc.game /\ new.collection = doc.collection

LEMMA IncrementedDoc ==
    ASSUME NEW doc \in UserResourceDocs, NEW e \in Entries
    PROVE  /\ Incremented(doc, e) \in UserResourceDocs
           /\ SameKey(Incremented(doc, e), doc)
           /\ Incremented(doc, e).deposits = doc.deposits
           /\ \A r \in Resources : Incremented(doc, e).balances[r] =
                 IF r = e.resource THEN doc.balances[r] + e.amount ELSE doc.balances[r]
  <1>1. doc.balances \in [Resources -> Int] /\ e.resource \in Resources /\ e.amount \in Nat
    BY DocTypes, EntryTypes
  <1> DEFINE bs == [doc.balances EXCEPT ![e.resource] = @ + e.amount]
  <1>2. /\ bs \in [Resources -> Int]
        /\ \A r \in Resources : bs[r] =
              IF r = e.resource THEN doc.balances[r] + e.amount ELSE doc.balances[r]
    BY <1>1
  <1>3. Incremented(doc, e) = [doc EXCEPT !.balances = bs]
    BY DEF Incremented
  <1> HIDE DEF bs
  <1>4. /\ [doc EXCEPT !.balances = bs] \in UserResourceDocs
        /\ SameKey([doc EXCEPT !.balances = bs], doc)
        /\ [doc EXCEPT !.balances = bs].deposits = doc.deposits
        /\ [doc EXCEPT !.balances = bs].balances = bs
    BY <1>2 DEF UserResourceDocs, SameKey
  <1> QED
    BY <1>2, <1>3, <1>4

LEMMA DecrementedDoc ==
    ASSUME NEW doc \in UserResourceDocs, NEW r \in Resources, NEW n \in Nat
    PROVE  LET new == [doc EXCEPT !.balances[r] = @ - n] IN
           /\ new \in UserResourceDocs /\ SameKey(new, doc) /\ new.deposits = doc.deposits
           /\ \A s \in Resources : new.balances[s] =
                 IF s = r THEN doc.balances[s] - n ELSE doc.balances[s]
  <1>1. doc.balances \in [Resources -> Int]
    BY DocTypes
  <1> DEFINE bs == [doc.balances EXCEPT ![r] = @ - n]
  <1>2. /\ bs \in [Resources -> Int]
        /\ \A s \in Resources : bs[s] = IF s = r THEN doc.balances[s] - n ELSE doc.balances[s]
    BY <1>1
  <1>3. [doc EXCEPT !.balances[r] = @ - n] = [doc EXCEPT !.balances = bs]
    OBVIOUS
  <1> HIDE DEF bs
  <1>4. /\ [doc EXCEPT !.balances = bs] \in UserResourceDocs
        /\ SameKey([doc EXCEPT !.balances = bs], doc)
        /\ [doc EXCEPT !.balances = bs].deposits = doc.deposits
        /\ [doc EXCEPT !.balances = bs].balances = bs
    BY <1>2 DEF UserResourceDocs, SameKey
  <1> QED
    BY <1>2, <1>3, <1>4

LEMMA DepositedDoc ==
    ASSUME NEW doc \in UserResourceDocs, NEW d \in Deposits
    PROVE  LET new == [doc EXCEPT !.deposits = @ \cup {d}] IN
           /\ new \in UserResourceDocs /\ SameKey(new, doc)
           /\ new.deposits = doc.deposits \cup {d} /\ new.balances = doc.balances
  BY DEF UserResourceDocs, SameKey

LEMMA NewDocFields ==
    ASSUME NEW e \in Entries, NEW ds \in SUBSET Deposits
    PROVE  /\ NewDoc(e, ds) \in UserResourceDocs
           /\ IsDocOf(NewDoc(e, ds), e) /\ NewDoc(e, ds).user = e.user
           /\ NewDoc(e, ds).deposits = ds
           /\ \A r \in Resources : NewDoc(e, ds).balances[r] \in Nat
  <1> DEFINE doc == [user |-> e.user, game |-> e.game, collection |-> e.collection,
                     balances |-> [r \in Resources |-> 0], deposits |-> ds]
  <1>1. /\ doc \in UserResourceDocs /\ IsDocOf(doc, e) /\ doc.user = e.user /\ doc.deposits = ds
        /\ \A r \in Resources : doc.balances[r] = 0
    BY EntryTypes DEF UserResourceDocs, IsDocOf
  <1>2. NewDoc(e, ds) = Incremented(doc, e)
    BY DEF NewDoc
  <1> HIDE DEF doc
  <1>3. /\ Incremented(doc, e) \in UserResourceDocs /\ SameKey(Incremented(doc, e), doc)
        /\ Incremented(doc, e).deposits = ds
        /\ \A r \in Resources : Incremented(doc, e).balances[r] =
              IF r = e.resource THEN e.amount ELSE 0
    BY <1>1, IncrementedDoc, EntryTypes
  <1> QED
    BY <1>1, <1>2, <1>3, EntryTypes DEF SameKey, IsDocOf

(* What a step does to the documents: one is appended ...                   *)
Appends(new) ==
    LET n == Len(userResources) + 1 IN
    /\ userResources' \in Seq(UserResourceDocs)
    /\ n \notin DOMAIN userResources /\ DOMAIN userResources' = DOMAIN userResources \cup {n}
    /\ userResources'[n] = new
    /\ \A i \in DOMAIN userResources : userResources'[i] = userResources[i]

(* ... or changed.                                                          *)
Changes(i, new) ==
    /\ userResources' \in Seq(UserResourceDocs)
    /\ i \in DOMAIN userResources /\ DOMAIN userResources' = DOMAIN userResources
    /\ userResources'[i] = new
    /\ \A k \in DOMAIN userResources : k # i => userResources'[k] = userResources[k]

LEMMA AppendedDoc ==
    ASSUME userResources \in Seq(UserResourceDocs), NEW doc \in UserResourceDocs,
           userResources' = Append(userResources, doc)
    PROVE  Appends(doc)
  <1>1. /\ userResources' \in Seq(UserResourceDocs)
        /\ Len(userResources) \in Nat /\ DOMAIN userResources = 1 .. Len(userResources)
        /\ Len(userResources') = Len(userResources) + 1
        /\ DOMAIN userResources' = 1 .. Len(userResources')
        /\ userResources'[Len(userResources) + 1] = doc
        /\ \A i \in 1 .. Len(userResources) : userResources'[i] = userResources[i]
    OBVIOUS
  <1>2. DOMAIN userResources' = DOMAIN userResources \cup {Len(userResources) + 1}
    BY <1>1
  <1> QED
    BY <1>1, <1>2 DEF Appends

LEMMA ChangedDoc ==
    ASSUME userResources \in Seq(UserResourceDocs), NEW i \in DOMAIN userResources,
           NEW doc \in UserResourceDocs, userResources' = [userResources EXCEPT ![i] = doc]
    PROVE  Changes(i, doc)
  <1>1. /\ Len(userResources) \in Nat /\ DOMAIN userResources = 1 .. Len(userResources)
        /\ \A k \in 1 .. Len(userResources) : userResources[k] \in UserResourceDocs
    OBVIOUS
  <1>2. userResources' \in [1 .. Len(userResources) -> UserResourceDocs]
    BY <1>1
  <1>3. userResources' \in Seq(UserResourceDocs)
    BY <1>1, <1>2
  <1> QED
    BY <1>1, <1>3 DEF Changes

-----------------------------------------------------------------------------
(* What each step of a job does.                                            *)

Underway == {"commit", "deposit", "insert"}

(* What a job under way holds.                                              *)
JobInv ==
    /\ snapshot \in [Jobs -> (Nat \X UserResourceDocs) \cup Deposits \cup {NoDoc}]
    /\ \A j \in Jobs :
          /\ jobStage[j] \notin Underway => job[j] = NoDoc /\ snapshot[j] = NoDoc
          /\ jobStage[j] \in Underway => job[j] \in Entries
          /\ jobStage[j] = "commit" => \/ snapshot[j] = NoDoc
                \/ \E i \in DOMAIN userResources, doc \in UserResourceDocs : snapshot[j] = <<i, doc>>
          /\ jobStage[j] \in {"deposit", "insert"} => snapshot[j] \in Deposits

ResourcesInv == ResourcesTypeOK /\ JobInv

(* The job j alone moves.                                                   *)
OnlyWorks(j) ==
    /\ jobStage' \in [Jobs -> JobStages] /\ job' \in [Jobs -> Entries \cup {NoDoc}]
    /\ snapshot' \in [Jobs -> (Nat \X UserResourceDocs) \cup Deposits \cup {NoDoc}]
    /\ \A i \in Jobs : i # j =>
          jobStage'[i] = jobStage[i] /\ job'[i] = job[i] /\ snapshot'[i] = snapshot[i]
    /\ raced \subseteq raced' /\ raced' \subseteq Accounts
    /\ minted' \in [Accounts -> Nat] /\ spent' \in [Accounts -> Nat]
    /\ txIdIndex' = txIdIndex

(* It begins ...                                                            *)
Takes(j) ==
    /\ jobStage[j] = "new" /\ job'[j] \in Entries
    /\ \A i \in Jobs : (i # j /\ job[i] # NoDoc /\ job[i].user = job'[j].user)
          => job'[j].user \in raced'
    /\ \/ /\ jobStage'[j] = "commit"
          /\ \/ snapshot'[j] = NoDoc /\ DocsOf(job'[j]) = {}
             \/ \E i \in DOMAIN userResources, doc \in UserResourceDocs : snapshot'[j] = <<i, doc>>
       \/ jobStage'[j] = "deposit" /\ snapshot'[j] \in Deposits

(* ... finds no document to count the deposit in ...                        *)
Misses(j) ==
    /\ jobStage[j] = "deposit" /\ jobStage'[j] = "insert"
    /\ job'[j] = job[j] /\ snapshot'[j] = snapshot[j]
    /\ Uncounted(job[j], snapshot[j]) = {}

(* ... or is over.                                                          *)
Ends(j) ==
    jobStage[j] # "done" /\ jobStage'[j] = "done" /\ job'[j] = NoDoc /\ snapshot'[j] = NoDoc

(* Meanwhile the documents are left alone, one is appended, or one changed. *)
Inserted(j) ==
    \E new \in UserResourceDocs :
        /\ Appends(new) /\ Ends(j)
        /\ jobStage[j] \in {"commit", "insert"}
        /\ jobStage[j] = "commit" => snapshot[j] = NoDoc
        /\ IsDocOf(new, job[j]) /\ new.user = job[j].user
        /\ new.deposits = IF jobStage[j] = "commit" THEN {} ELSE {snapshot[j]}
        /\ ~IndexRefuses(0, TxIds(new))
        /\ \A r \in Resources : new.balances[r] \in Nat

Modified ==
    \E new \in UserResourceDocs, i \in DOMAIN userResources :
        /\ Changes(i, new)
        /\ SameKey(new, userResources[i])
        /\ \/ new.deposits = userResources[i].deposits
           \/ \E d \in Deposits :
                 /\ new.deposits = userResources[i].deposits \cup {d}
                 /\ ~IndexRefuses(i, {d.tx})
        /\ \A r \in Resources :
              new.balances[r] \in Nat \/ new.balances[r] >= userResources[i].balances[r]

JobEffect(j) ==
    \/ (Takes(j) \/ Misses(j) \/ Ends(j)) /\ userResources' = userResources
    \/ Inserted(j)
    \/ Modified /\ Ends(j)

LEMMA JobFunctions ==
    ASSUME ResourcesInv
    PROVE  /\ userResources \in Seq(UserResourceDocs)
           /\ jobStage \in [Jobs -> JobStages] /\ job \in [Jobs -> Entries \cup {NoDoc}]
           /\ snapshot \in [Jobs -> (Nat \X UserResourceDocs) \cup Deposits \cup {NoDoc}]
           /\ raced \subseteq Accounts
           /\ minted \in [Accounts -> Nat] /\ spent \in [Accounts -> Nat]
           /\ \A i \in DOMAIN userResources : i \in Nat /\ userResources[i] \in UserResourceDocs
  <1>1. userResources \in Seq(UserResourceDocs)
    BY DEF ResourcesInv, ResourcesTypeOK
  <1>2. \A i \in DOMAIN userResources : i \in Nat /\ userResources[i] \in UserResourceDocs
    BY <1>1
  <1> QED
    BY <1>1, <1>2 DEF ResourcesInv, ResourcesTypeOK, JobInv

LEMMA EndOfJob ==
    ASSUME ResourcesInv, NEW j \in Jobs, jobStage[j] # "done", Finished(j),
           raced \subseteq raced', raced' \subseteq Accounts,
           minted' \in [Accounts -> Nat], spent' \in [Accounts -> Nat], txIdIndex' = txIdIndex
    PROVE  OnlyWorks(j) /\ Ends(j)
  BY JobFunctions DEF Finished, JobGoto, OnlyWorks, Ends, JobStages

LEMMA NoteRaceEffect ==
    ASSUME NEW j \in Jobs, NEW a \in Accounts, NoteRace(j, a), raced \subseteq Accounts
    PROVE  /\ raced \subseteq raced' /\ raced' \subseteq Accounts
           /\ \A i \in Jobs : (i # j /\ job[i] # NoDoc /\ job[i].user = a) => a \in raced'
  BY DEF NoteRace

LEMMA StartMintEffect ==
    ASSUME ResourcesInv, NEW j \in Jobs, NEW a \in Accounts, NEW g \in Games,
           NEW c \in Collections, NEW r \in Resources, NEW n \in Quantities,
           StartMint(j, a, g, c, r, n)
    PROVE  OnlyWorks(j) /\ JobEffect(j)
  <1> DEFINE e == Entry(a, g, c, r, n)
  <1>1. e \in Entries /\ e.user = a
    BY EntryFields
  <1>2. /\ jobStage[j] = "new" /\ job' = [job EXCEPT ![j] = e]
        /\ jobStage' = [jobStage EXCEPT ![j] = "commit"] /\ NoteRace(j, a)
        /\ UNCHANGED <<userResources, minted, spent, txIdIndex>>
        /\ \/ \E i \in DocsOf(e) : snapshot' = [snapshot EXCEPT ![j] = <<i, userResources[i]>>]
           \/ DocsOf(e) = {} /\ UNCHANGED snapshot
    BY DEF StartMint, JobGoto
  <1>3. snapshot[j] = NoDoc
    BY <1>2 DEF ResourcesInv, JobInv, Underway
  <1> HIDE DEF e
  <1>4. DocsOf(e) \subseteq DOMAIN userResources
    BY DEF DocsOf
  <1>5. /\ snapshot' \in [Jobs -> (Nat \X UserResourceDocs) \cup Deposits \cup {NoDoc}]
        /\ \A i \in Jobs : i # j => snapshot'[i] = snapshot[i]
        /\ \/ snapshot'[j] = NoDoc /\ DocsOf(e) = {}
           \/ \E i \in DOMAIN userResources, doc \in UserResourceDocs : snapshot'[j] = <<i, doc>>
    <2>1. CASE DocsOf(e) = {} /\ UNCHANGED snapshot
      BY <1>3, <2>1, JobFunctions
    <2>2. ASSUME NEW i \in DocsOf(e), snapshot' = [snapshot EXCEPT ![j] = <<i, userResources[i]>>]
          PROVE  /\ snapshot' \in [Jobs -> (Nat \X UserResourceDocs) \cup Deposits \cup {NoDoc}]
                 /\ \A k \in Jobs : k # j => snapshot'[k] = snapshot[k]
                 /\ \E k \in DOMAIN userResources, doc \in UserResourceDocs : snapshot'[j] = <<k, doc>>
      <3>1. i \in DOMAIN userResources /\ i \in Nat /\ userResources[i] \in UserResourceDocs
        BY <1>4, JobFunctions
      <3> QED
        BY <2>2, <3>1, JobFunctions
    <2> QED
      BY <1>2, <2>1, <2>2
  <1>6. OnlyWorks(j)
    BY <1>1, <1>2, <1>5, JobFunctions, NoteRaceEffect DEF OnlyWorks, JobStages
  <1>7. Takes(j)
    BY <1>1, <1>2, <1>5, JobFunctions, NoteRaceEffect DEF Takes
  <1> QED
    BY <1>2, <1>6, <1>7 DEF JobEffect

LEMMA CommitMintEffect ==
    ASSUME ResourcesInv, NEW j \in Jobs, CommitMint(j)
    PROVE  OnlyWorks(j) /\ JobEffect(j)
  <1>1. PICK e \in Entries : job[j] = e
    BY DEF CommitMint, ResourcesInv, JobInv, Underway
  <1>2. /\ jobStage[j] = "commit" /\ Upserted(j, userResources') /\ Finished(j)
        /\ minted' = [minted EXCEPT ![e.user] = @ + e.amount]
        /\ UNCHANGED <<spent, txIdIndex, raced>>
    BY <1>1 DEF CommitMint
  <1>3. minted' \in [Accounts -> Nat]
    BY <1>2, EntryTypes, JobFunctions
  <1>4. OnlyWorks(j) /\ Ends(j)
    BY <1>2, <1>3, EndOfJob, JobFunctions
  <1>5. CASE snapshot[j] = NoDoc
    <2> DEFINE new == NewDoc(e, {})
    <2>1. ~IndexRefuses(0, {}) /\ userResources' = Append(userResources, new)
      BY <1>1, <1>2, <1>5 DEF Upserted
    <2>2. /\ new \in UserResourceDocs /\ IsDocOf(new, e) /\ new.user = e.user
          /\ new.deposits = {} /\ \A r \in Resources : new.balances[r] \in Nat
      BY NewDocFields
    <2> HIDE DEF new
    <2>3. Appends(new) /\ TxIds(new) = {}
      BY <2>1, <2>2, AppendedDoc, JobFunctions DEF TxIds
    <2>4. Inserted(j)
      BY <1>1, <1>2, <1>4, <1>5, <2>1, <2>2, <2>3 DEF Inserted
    <2> QED
      BY <1>4, <2>4 DEF JobEffect
  <1>6. CASE snapshot[j] # NoDoc
    <2>1. PICK i \in DOMAIN userResources, doc \in UserResourceDocs : snapshot[j] = <<i, doc>>
      BY <1>2, <1>6 DEF ResourcesInv, JobInv
    <2> DEFINE new == Incremented(userResources[i], e)
    <2>2. userResources' = [userResources EXCEPT ![i] = new]
      BY <1>1, <1>2, <1>6, <2>1 DEF Upserted
    <2>3. userResources[i] \in UserResourceDocs
      BY JobFunctions
    <2>4. /\ new \in UserResourceDocs /\ SameKey(new, userResources[i])
          /\ new.deposits = userResources[i].deposits
          /\ \A r \in Resources : new.balances[r] >= userResources[i].balances[r]
      BY <2>3, IncrementedDoc, EntryTypes, DocTypes
    <2> HIDE DEF new
    <2>5. Changes(i, new)
      BY <2>2, <2>4, ChangedDoc, JobFunctions
    <2>6. Modified
      BY <2>4, <2>5 DEF Modified
    <2> QED
      BY <1>4, <2>6 DEF JobEffect
  <1> QED
    BY <1>5, <1>6

LEMMA StopEffect ==
    ASSUME ResourcesInv, NEW j \in Jobs, AbortMint(j) \/ JobDies(j)
    PROVE  OnlyWorks(j) /\ JobEffect(j)
  <1>1. /\ jobStage[j] # "done" /\ Finished(j)
        /\ UNCHANGED <<userResources, minted, spent, txIdIndex, raced>>
    BY DEF AbortMint, JobDies
  <1> QED
    BY <1>1, EndOfJob, JobFunctions DEF JobEffect

LEMMA DecrementEffect ==
    ASSUME ResourcesInv, CatalogInv, NEW j \in Jobs, NEW a \in Accounts, NEW g \in Games,
           NEW r \in DOMAIN resources, NEW n \in Quantities, DecrementResource(j, a, g, r, n)
    PROVE  OnlyWorks(j) /\ JobEffect(j)
  <1> DEFINE e == Entry(a, g, resources[r].collection, r, n)
  <1>1. e.resource = r /\ e.amount = n
    BY DEF Entry
  <1>2. PICK i \in DocsOf(e) :
           /\ HoldsEnough(userResources[i], e)
           /\ userResources' = [userResources EXCEPT ![i].balances[r] = @ - n]
    BY DEF DecrementResource
  <1>3. /\ jobStage[j] = "new" /\ Finished(j) /\ NoteRace(j, a)
        /\ spent' = [spent EXCEPT ![a] = @ + n]
        /\ UNCHANGED <<minted, txIdIndex>>
    BY DEF DecrementResource
  <1>4. r \in Resources /\ n \in Nat
    BY QuantitiesPositive DEF CatalogInv, CatalogTypeOK
  <1>5. i \in DOMAIN userResources /\ userResources[i] \in UserResourceDocs
    BY <1>2, JobFunctions DEF DocsOf
  <1>6. userResources[i].balances[r] >= n
    BY <1>1, <1>2 DEF HoldsEnough
  <1> HIDE DEF e
  <1>7. OnlyWorks(j) /\ Ends(j)
    <2>1. spent' \in [Accounts -> Nat] /\ minted' \in [Accounts -> Nat]
      BY <1>3, <1>4, JobFunctions
    <2> QED
      BY <1>3, <2>1, EndOfJob, NoteRaceEffect, JobFunctions
  <1> DEFINE new == [userResources[i] EXCEPT !.balances[r] = @ - n]
  <1>8. userResources' = [userResources EXCEPT ![i] = new]
    BY <1>2
  <1>9. /\ new \in UserResourceDocs /\ SameKey(new, userResources[i])
        /\ new.deposits = userResources[i].deposits
        /\ \A s \in Resources : new.balances[s] =
              IF s = r THEN userResources[i].balances[s] - n ELSE userResources[i].balances[s]
    BY <1>4, <1>5, DecrementedDoc
  <1> HIDE DEF new
  <1>10. \A s \in Resources :
            new.balances[s] \in Nat \/ new.balances[s] >= userResources[i].balances[s]
    <2>1. \A s \in Resources : userResources[i].balances[s] \in Int
      BY <1>5, DocTypes
    <2> QED
      BY <1>4, <1>6, <1>9, <2>1
  <1>11. Changes(i, new)
    BY <1>5, <1>8, <1>9, ChangedDoc, JobFunctions
  <1>12. Modified
    BY <1>5, <1>9, <1>10, <1>11 DEF Modified
  <1> QED
    BY <1>7, <1>12 DEF JobEffect

LEMMA ResolveEffect ==
    ASSUME ResourcesInv, CatalogInv, NEW j \in Jobs, NEW d \in Deposits, ResolveDeposit(j, d)
    PROVE  OnlyWorks(j) /\ JobEffect(j)
  <1>1. PICK c \in CollectionsAt(d.contract), a \in Accounts, r \in DOMAIN resources :
           /\ job' = [job EXCEPT ![j] = Entry(a, collections[c].game, c, r, d.amount)]
           /\ NoteRace(j, a)
    BY DEF ResolveDeposit
  <1> DEFINE e == Entry(a, collections[c].game, c, r, d.amount)
  <1>2. c \in Collections /\ collections[c].game \in Games /\ r \in Resources
    BY DEF CollectionsAt, CatalogInv, CatalogTypeOK, CollectionDocs
  <1>3. d.amount \in Quantities
    BY ResourcesAssumption
  <1>4. e \in Entries /\ e.user = a
    BY <1>2, <1>3, EntryFields
  <1>5. /\ jobStage[j] = "new" /\ job' = [job EXCEPT ![j] = e]
        /\ snapshot' = [snapshot EXCEPT ![j] = d]
        /\ jobStage' = [jobStage EXCEPT ![j] = "deposit"]
        /\ UNCHANGED <<userResources, minted, spent, txIdIndex>>
    BY <1>1 DEF ResolveDeposit, JobGoto
  <1> HIDE DEF e
  <1>6. OnlyWorks(j)
    BY <1>1, <1>4, <1>5, JobFunctions, NoteRaceEffect DEF OnlyWorks, JobStages
  <1>7. Takes(j)
    BY <1>1, <1>4, <1>5, JobFunctions, NoteRaceEffect DEF Takes
  <1> QED
    BY <1>5, <1>6, <1>7 DEF JobEffect

LEMMA CountEffect ==
    ASSUME ResourcesInv, NEW j \in Jobs, CountDeposit(j)
    PROVE  OnlyWorks(j) /\ JobEffect(j)
  <1>1. PICK e \in Entries, d \in Deposits : job[j] = e /\ snapshot[j] = d
    BY DEF CountDeposit, ResourcesInv, JobInv, Underway
  <1>2. jobStage[j] = "deposit" /\ UNCHANGED <<minted, spent, txIdIndex, raced>>
    BY DEF CountDeposit
  <1>3. CASE Uncounted(e, d) = {} /\ JobGoto(j, "insert") /\ UNCHANGED <<userResources, job, snapshot>>
    <2>1. OnlyWorks(j) /\ jobStage'[j] = "insert"
      BY <1>2, <1>3, JobFunctions DEF JobGoto, OnlyWorks, JobStages
    <2> QED
      BY <1>1, <1>2, <1>3, <2>1 DEF JobEffect, Misses
  <1>4. ASSUME NEW i \in Uncounted(e, d), Finished(j),
               userResources' =
                   IF IndexRefuses(i, {d.tx}) THEN userResources
                   ELSE [userResources EXCEPT ![i] = Counted(@, e, d)]
        PROVE  OnlyWorks(j) /\ JobEffect(j)
    <2>1. OnlyWorks(j) /\ Ends(j)
      BY <1>2, <1>4, EndOfJob, JobFunctions
    <2>2. i \in DOMAIN userResources /\ userResources[i] \in UserResourceDocs
      BY JobFunctions DEF Uncounted, DocsOf
    <2> DEFINE mid == Incremented(userResources[i], e)
               new == [mid EXCEPT !.deposits = @ \cup {d}]
    <2>3. CASE IndexRefuses(i, {d.tx})
      BY <1>4, <2>1, <2>3 DEF JobEffect
    <2>4. CASE ~IndexRefuses(i, {d.tx})
      <3>1. userResources' = [userResources EXCEPT ![i] = new]
        BY <1>4, <2>4 DEF Counted
      <3>2. /\ mid \in UserResourceDocs /\ SameKey(mid, userResources[i])
            /\ mid.deposits = userResources[i].deposits
            /\ \A r \in Resources : mid.balances[r] >= userResources[i].balances[r]
        BY <2>2, IncrementedDoc, EntryTypes, DocTypes
      <3> HIDE DEF mid
      <3>3. /\ new \in UserResourceDocs /\ SameKey(new, mid)
            /\ new.deposits = mid.deposits \cup {d} /\ new.balances = mid.balances
        BY <3>2, DepositedDoc
      <3> HIDE DEF new
      <3>4. Changes(i, new)
        BY <2>2, <3>1, <3>3, ChangedDoc, JobFunctions
      <3>5. Modified
        BY <2>2, <2>4, <3>2, <3>3, <3>4 DEF Modified, SameKey
      <3> QED
        BY <2>1, <3>5 DEF JobEffect
    <2> QED
      BY <2>3, <2>4
  <1> QED
    BY <1>1, <1>3, <1>4 DEF CountDeposit

LEMMA InsertEffect ==
    ASSUME ResourcesInv, NEW j \in Jobs, InsertDeposit(j)
    PROVE  OnlyWorks(j) /\ JobEffect(j)
  <1>1. PICK e \in Entries, d \in Deposits : job[j] = e /\ snapshot[j] = d
    BY DEF InsertDeposit, ResourcesInv, JobInv, Underway
  <1>2. /\ jobStage[j] = "insert" /\ Finished(j) /\ UNCHANGED <<minted, spent, txIdIndex, raced>>
        /\ userResources' = IF IndexRefuses(0, {d.tx}) THEN userResources
                            ELSE Append(userResources, NewDoc(e, {d}))
    BY <1>1 DEF InsertDeposit
  <1>3. OnlyWorks(j) /\ Ends(j)
    BY <1>2, EndOfJob, JobFunctions
  <1>4. CASE IndexRefuses(0, {d.tx})
    BY <1>2, <1>3, <1>4 DEF JobEffect
  <1>5. CASE ~IndexRefuses(0, {d.tx})
    <2> DEFINE new == NewDoc(e, {d})
    <2>1. userResources' = Append(userResources, new)
      BY <1>2, <1>5
    <2>2. /\ new \in UserResourceDocs /\ IsDocOf(new, e) /\ new.user = e.user
          /\ new.deposits = {d} /\ \A r \in Resources : new.balances[r] \in Nat
      BY NewDocFields
    <2> HIDE DEF new
    <2>3. Appends(new) /\ TxIds(new) = {d.tx}
      BY <2>1, <2>2, AppendedDoc, JobFunctions DEF TxIds
    <2>4. Inserted(j)
      BY <1>1, <1>2, <1>3, <1>5, <2>2, <2>3 DEF Inserted
    <2> QED
      BY <1>3, <2>4 DEF JobEffect
  <1> QED
    BY <1>4, <1>5

LEMMA ResourcesEffect ==
    ASSUME ResourcesInv, CatalogInv, NEW j \in Jobs, ResourcesStep(j)
    PROVE  OnlyWorks(j) /\ JobEffect(j)
  BY StartMintEffect, CommitMintEffect, StopEffect, DecrementEffect, ResolveEffect, CountEffect,
     InsertEffect DEF ResourcesStep, MintStep, SpendStep, DepositStep

LEMMA DocsKeep ==
    ASSUME ResourcesInv, NEW j \in Jobs, JobEffect(j)
    PROVE  /\ userResources' \in Seq(UserResourceDocs)
           /\ DOMAIN userResources \subseteq DOMAIN userResources'
           /\ \A i \in DOMAIN userResources :
                 /\ SameKey(userResources'[i], userResources[i])
                 /\ userResources[i].deposits \subseteq userResources'[i].deposits
                 /\ TxIds(userResources[i]) \subseteq TxIds(userResources'[i])
  <1>0. userResources \in Seq(UserResourceDocs)
    BY JobFunctions
  <1>1. CASE userResources' = userResources
    BY <1>0, <1>1 DEF SameKey
  <1>2. CASE Inserted(j)
    BY <1>0, <1>2 DEF Inserted, Appends, SameKey
  <1>3. CASE Modified
    <2>1. PICK new \in UserResourceDocs, i \in DOMAIN userResources :
             /\ Changes(i, new) /\ SameKey(new, userResources[i])
             /\ userResources[i].deposits \subseteq new.deposits
      BY <1>3 DEF Modified
    <2>2. TxIds(userResources[i]) \subseteq TxIds(new)
      BY <2>1 DEF TxIds
    <2> QED
      BY <1>0, <2>1, <2>2 DEF Changes, SameKey
  <1> QED
    BY <1>1, <1>2, <1>3 DEF JobEffect

LEMMA ResourcesTypeStep ==
    ASSUME ResourcesInv, NEW j \in Jobs, OnlyWorks(j), JobEffect(j)
    PROVE  ResourcesInv'
  <1>1. ResourcesTypeOK'
    BY DocsKeep DEF ResourcesInv, ResourcesTypeOK, OnlyWorks
  <1>2. ASSUME NEW i \in Jobs
        PROVE  /\ jobStage'[i] \notin Underway => job'[i] = NoDoc /\ snapshot'[i] = NoDoc
               /\ jobStage'[i] \in Underway => job'[i] \in Entries
               /\ jobStage'[i] = "commit" => \/ snapshot'[i] = NoDoc
                     \/ \E k \in DOMAIN userResources', doc \in UserResourceDocs :
                           snapshot'[i] = <<k, doc>>
               /\ jobStage'[i] \in {"deposit", "insert"} => snapshot'[i] \in Deposits
    <2>0. DOMAIN userResources \subseteq DOMAIN userResources'
      BY DocsKeep
    <2>1. CASE i # j
      BY <2>0, <2>1 DEF OnlyWorks, ResourcesInv, JobInv
    <2>2. CASE i = j /\ Takes(j)
      BY <2>0, <2>2 DEF Takes, Underway
    <2>3. CASE i = j /\ Misses(j)
      BY <2>3 DEF Misses, Underway, ResourcesInv, JobInv
    <2>4. CASE i = j /\ Ends(j)
      BY <2>4 DEF Ends, Underway
    <2> QED
      BY <2>1, <2>2, <2>3, <2>4 DEF JobEffect, Inserted
  <1>3. JobInv'
    BY <1>2 DEF JobInv, OnlyWorks
  <1> QED
    BY <1>1, <1>3 DEF ResourcesInv

LEMMA ResourceCases ==
    ASSUME [Next]_vars
    PROVE  (\E j \in Jobs : ResourcesStep(j)) \/ UNCHANGED resourceVars
  BY DEF Next, vars

LEMMA ResourcesInvariance == Spec => []ResourcesInv
  <1>1. ASSUME Init
        PROVE  ResourcesInv
    <2>1. /\ userResources = <<>> /\ txIdIndex \in BOOLEAN /\ raced = {}
          /\ minted = [a \in Accounts |-> 0] /\ spent = [a \in Accounts |-> 0]
          /\ jobStage = [j \in Jobs |-> "new"]
          /\ job = [j \in Jobs |-> NoDoc] /\ snapshot = [j \in Jobs |-> NoDoc]
      BY <1>1 DEF Init, ResourcesInit
    <2>2. ResourcesTypeOK
      BY <2>1 DEF ResourcesTypeOK, JobStages
    <2>3. JobInv
      BY <2>1 DEF JobInv, Underway
    <2> QED
      BY <2>2, <2>3 DEF ResourcesInv
  <1>2. ASSUME ResourcesInv, CatalogInv, [Next]_vars
        PROVE  ResourcesInv'
    <2>1. CASE UNCHANGED resourceVars
      BY <1>2, <2>1 DEF resourceVars, jobVars, ResourcesInv, ResourcesTypeOK, JobInv
    <2>2. ASSUME NEW j \in Jobs, ResourcesStep(j)
          PROVE  ResourcesInv'
      BY <1>2, <2>2, ResourcesEffect, ResourcesTypeStep
    <2> QED
      BY <1>2, <2>1, <2>2, ResourceCases
  <1> QED
    BY <1>1, <1>2, UsersInvariance, PTL DEF Spec

(* Documents, requests and jobs of the whole API server stay in their       *)
(* types.                                                                   *)
THEOREM PlayersTypeCorrect == Spec => []TypeOK
  <1>1. UsersInv /\ CatalogInv /\ ResourcesInv => TypeOK
    BY DEF UsersInv, ResourcesInv, TypeOK
  <1> QED
    BY <1>1, UsersInvariance, ResourcesInvariance, PTL

-----------------------------------------------------------------------------
(* Balances of documents.                                                   *)

LEMMA DocumentBalances ==
    ASSUME ResourcesInv
    PROVE  \A i \in DOMAIN userResources, r \in Resources : userResources[i].balances[r] \in Int
  BY JobFunctions, DocTypes

(* No document is spent below zero, however many decrements of it run at    *)
(* the same time.                                                           *)
THEOREM NothingOverspent == Spec => []NeverOverspent
  <1>1. Init => NeverOverspent
    BY DEF Init, ResourcesInit, NeverOverspent
  <1>2. ASSUME ResourcesInv, CatalogInv, NeverOverspent, [Next]_vars
        PROVE  NeverOverspent'
    <2>1. CASE userResources' = userResources
      BY <1>2, <2>1 DEF NeverOverspent
    <2>2. ASSUME NEW j \in Jobs, ResourcesStep(j)
          PROVE  NeverOverspent'
      <3>1. JobEffect(j)
        BY <1>2, <2>2, ResourcesEffect
      <3>2. CASE Inserted(j)
        BY <1>2, <3>2 DEF Inserted, Appends, NeverOverspent
      <3>3. CASE Modified
        <4>1. PICK new \in UserResourceDocs, i \in DOMAIN userResources :
                 /\ Changes(i, new)
                 /\ \A r \in Resources :
                       new.balances[r] \in Nat \/ new.balances[r] >= userResources[i].balances[r]
          BY <3>3 DEF Modified
        <4>2. \A r \in Resources : new.balances[r] \in Int
          BY DocTypes
        <4>3. \A r \in Resources :
                 userResources[i].balances[r] \in Int /\ userResources[i].balances[r] >= 0
          BY <1>2, DocumentBalances DEF NeverOverspent
        <4>4. \A r \in Resources : new.balances[r] >= 0
          BY <4>1, <4>2, <4>3
        <4> QED
          BY <1>2, <4>1, <4>4 DEF Changes, NeverOverspent
      <3> QED
        BY <2>1, <3>1, <3>2, <3>3 DEF JobEffect
    <2> QED
      BY <1>2, <2>1, <2>2, ResourceCases DEF resourceVars
  <1> QED
    BY <1>1, <1>2, UsersInvariance, ResourcesInvariance, PTL DEF Spec

(* With the index no transaction is counted in two documents, also when     *)
(* several hand-overs of it find no document at the same time.              *)
THEOREM EachTxCountedOnce == Spec => []TxCountedOnce
  <1>1. Init => TxCountedOnce
    BY DEF Init, ResourcesInit, TxCountedOnce
  <1>2. ASSUME ResourcesInv, CatalogInv, TxCountedOnce, [Next]_vars
        PROVE  TxCountedOnce'
    <2>1. CASE UNCHANGED <<userResources, txIdIndex>>
      BY <1>2, <2>1 DEF TxCountedOnce
    <2>2. ASSUME NEW j \in Jobs, ResourcesStep(j)
          PROVE  TxCountedOnce'
      <3>1. JobEffect(j) /\ txIdIndex' = txIdIndex
        BY <1>2, <2>2, ResourcesEffect DEF OnlyWorks
      <3>2. CASE Inserted(j)
        <4>1. PICK new \in UserResourceDocs : Appends(new) /\ ~IndexRefuses(0, TxIds(new))
          BY <3>2 DEF Inserted
        <4>2. 0 \notin DOMAIN userResources
          <5>1. DOMAIN userResources = 1 .. Len(userResources)
            BY <1>2, JobFunctions
          <5> QED
            BY <5>1
        <4>3. txIdIndex => \A k \in DOMAIN userResources :
                              TxIds(userResources[k]) \cap TxIds(new) = {}
          BY <4>1, <4>2 DEF IndexRefuses
        <4> QED
          BY <1>2, <3>1, <4>1, <4>3 DEF Appends, TxCountedOnce
      <3>3. CASE Modified
        <4>1. PICK new \in UserResourceDocs, i \in DOMAIN userResources :
                 /\ Changes(i, new)
                 /\ \/ new.deposits = userResources[i].deposits
                    \/ \E d \in Deposits :
                          /\ new.deposits = userResources[i].deposits \cup {d}
                          /\ ~IndexRefuses(i, {d.tx})
          BY <3>3 DEF Modified
        <4>2. txIdIndex => \A k \in DOMAIN userResources : k # i =>
                              TxIds(userResources[k]) \cap TxIds(new) = {}
          <5>1. CASE new.deposits = userResources[i].deposits
            BY <1>2, <5>1 DEF TxIds, TxCountedOnce
          <5>2. ASSUME NEW d \in Deposits, new.deposits = userResources[i].deposits \cup {d},
                       ~IndexRefuses(i, {d.tx})
                PROVE  txIdIndex => \A k \in DOMAIN userResources : k # i =>
                                       TxIds(userResources[k]) \cap TxIds(new) = {}
            <6>1. TxIds(new) = TxIds(userResources[i]) \cup {d.tx}
              BY <5>2 DEF TxIds
            <6>2. txIdIndex => \A k \in DOMAIN userResources : k # i =>
                                  TxIds(userResources[k]) \cap {d.tx} = {}
              BY <5>2 DEF IndexRefuses
            <6> QED
              BY <1>2, <6>1, <6>2 DEF TxCountedOnce
          <5> QED
            BY <4>1, <5>1, <5>2
        <4> QED
          BY <1>2, <3>1, <4>1, <4>2 DEF Changes, TxCountedOnce
      <3> QED
        BY <2>1, <3>1, <3>2, <3>3 DEF JobEffect
    <2> QED
      BY <1>2, <2>1, <2>2, ResourceCases DEF resourceVars
  <1> QED
    BY <1>1, <1>2, UsersInvariance, ResourcesInvariance, PTL DEF Spec

-----------------------------------------------------------------------------
(* Documents of one key.                                                    *)

(* Two jobs of one player under way at the same time are noted.             *)
RaceNoted ==
    \A i, j \in Jobs :
        (i # j /\ job[i] # NoDoc /\ job[j] # NoDoc /\ job[i].user = job[j].user)
            => job[j].user \in raced

(* A job that will insert a document has found none it could have used, and *)
(* there still is none.                                                     *)
NoneYet(j) ==
    job[j].user \in raced \/
        /\ (jobStage[j] = "commit" /\ snapshot[j] = NoDoc) => DocsOf(job[j]) = {}
        /\ jobStage[j] = "insert" => Uncounted(job[j], snapshot[j]) = {}

SplitInv == RaceNoted /\ (\A j \in Jobs : NoneYet(j)) /\ SplitOnlyByRace

LEMMA RaceNotedStep ==
    ASSUME ResourcesInv, NEW j \in Jobs, OnlyWorks(j), JobEffect(j), RaceNoted
    PROVE  RaceNoted'
  <1>1. /\ raced \subseteq raced'
        /\ \A i \in Jobs : i # j => job'[i] = job[i]
    BY DEF OnlyWorks
  <1>2. CASE Takes(j)
    BY <1>1, <1>2 DEF Takes, RaceNoted
  <1>3. CASE job'[j] = job[j] \/ job'[j] = NoDoc
    BY <1>1, <1>3 DEF RaceNoted
  <1> QED
    BY <1>2, <1>3 DEF JobEffect, Misses, Ends, Inserted

(* A document of another player is no document of an entry.                 *)
LEMMA SameDocsOf ==
    ASSUME ResourcesInv, NEW j \in Jobs, OnlyWorks(j), JobEffect(j), NEW e \in Entries,
           job[j] = NoDoc \/ job[j].user # e.user \/ userResources' = userResources
    PROVE  /\ DocsOf(e)' = DocsOf(e)
           /\ \A d \in Deposits : Uncounted(e, d)' \subseteq Uncounted(e, d)
  <1>1. DocsOf(e)' = DocsOf(e)
    <2>1. CASE userResources' = userResources
      BY <2>1 DEF DocsOf
    <2>2. CASE Inserted(j)
      <3>1. PICK new \in UserResourceDocs :
               Appends(new) /\ new.user = job[j].user /\ jobStage[j] \in {"commit", "insert"}
        BY <2>2 DEF Inserted
      <3>2. job[j] # NoDoc
        BY <3>1, EntryTypes DEF ResourcesInv, JobInv, Underway
      <3> QED
        BY <2>1, <3>1, <3>2 DEF Appends, DocsOf, IsDocOf
    <2>3. CASE Modified
      <3>1. PICK new \in UserResourceDocs, i \in DOMAIN userResources :
               Changes(i, new) /\ SameKey(new, userResources[i])
        BY <2>3 DEF Modified
      <3> QED
        BY <3>1 DEF Changes, DocsOf, IsDocOf, SameKey
    <2> QED
      BY <2>1, <2>2, <2>3 DEF JobEffect
  <1>2. ASSUME NEW d \in Deposits
        PROVE  Uncounted(e, d)' \subseteq Uncounted(e, d)
    <2>1. DocsOf(e) \subseteq DOMAIN userResources
      BY DEF DocsOf
    <2> QED
      BY <1>1, <2>1, DocsKeep DEF Uncounted
  <1> QED
    BY <1>1, <1>2

LEMMA NoneYetStep ==
    ASSUME ResourcesInv, NEW j \in Jobs, OnlyWorks(j), JobEffect(j), RaceNoted,
           NEW i \in Jobs, NoneYet(i)
    PROVE  NoneYet(i)'
  <1>0. raced \subseteq raced'
    BY DEF OnlyWorks
  <1>1. CASE i # j /\ jobStage[i] \in Underway
    <2>1. PICK e \in Entries : job[i] = e
      BY <1>1 DEF ResourcesInv, JobInv
    <2>2. jobStage'[i] = jobStage[i] /\ job'[i] = e /\ snapshot'[i] = snapshot[i]
      BY <1>1, <2>1 DEF OnlyWorks
    <2>3. CASE e.user \in raced
      BY <1>0, <2>2, <2>3 DEF NoneYet
    <2>4. CASE e.user \notin raced
      <3>1. job[j] = NoDoc \/ job[j].user # e.user
        BY <1>1, <2>1, <2>4, EntryTypes DEF RaceNoted
      <3>2. /\ DocsOf(e)' = DocsOf(e)
            /\ \A d \in Deposits : Uncounted(e, d)' \subseteq Uncounted(e, d)
        BY <3>1, SameDocsOf
      <3>3. CASE jobStage[i] = "insert"
        <4>1. PICK d \in Deposits : snapshot[i] = d
          BY <3>3 DEF ResourcesInv, JobInv
        <4>2. Uncounted(e, d) = {}
          BY <2>1, <2>4, <3>3, <4>1 DEF NoneYet
        <4>3. Uncounted(e, d)' = {}
          BY <3>2, <4>2
        <4> QED
          BY <2>2, <3>3, <4>1, <4>3 DEF NoneYet
      <3>4. CASE jobStage[i] # "insert"
        <4>1. (jobStage[i] = "commit" /\ snapshot[i] = NoDoc) => DocsOf(e) = {}
          BY <2>1, <2>4 DEF NoneYet
        <4> QED
          BY <2>2, <3>2, <3>4, <4>1 DEF NoneYet
      <3> QED
        BY <3>3, <3>4
    <2> QED
      BY <2>3, <2>4
  <1>2. CASE i = j /\ Takes(j) /\ userResources' = userResources
    <2>1. PICK e \in Entries : job'[j] = e
      BY <1>2 DEF Takes
    <2>2. DocsOf(e)' = DocsOf(e)
      BY <1>2 DEF DocsOf
    <2>3. /\ jobStage'[j] # "insert"
          /\ (jobStage'[j] = "commit" /\ snapshot'[j] = NoDoc) =>
                 \/ DocsOf(e) = {}
                 \/ \E k \in DOMAIN userResources, doc \in UserResourceDocs : snapshot'[j] = <<k, doc>>
      BY <1>2, <2>1 DEF Takes
    <2>4. \A k \in DOMAIN userResources, doc \in UserResourceDocs : <<k, doc>> # NoDoc
      BY JobFunctions, ResourcesAssumption
    <2> QED
      BY <1>2, <2>1, <2>2, <2>3, <2>4 DEF NoneYet
  <1>3. CASE i = j /\ Misses(j) /\ userResources' = userResources
    <2>1. PICK e \in Entries, d \in Deposits : job[j] = e /\ snapshot[j] = d
      BY <1>3 DEF Misses, ResourcesInv, JobInv, Underway
    <2>2. Uncounted(e, d) = {} /\ job'[j] = e /\ snapshot'[j] = d /\ jobStage'[j] = "insert"
      BY <1>3, <2>1 DEF Misses
    <2>3. Uncounted(e, d)' = {}
      BY <1>3, <2>2 DEF Uncounted, DocsOf
    <2> QED
      BY <1>3, <2>2, <2>3 DEF NoneYet
  <1>4. CASE jobStage'[i] \notin Underway
    BY <1>4 DEF NoneYet, Underway
  <1>5. i # j => jobStage'[i] = jobStage[i]
    BY DEF OnlyWorks
  <1> QED
    BY <1>1, <1>2, <1>3, <1>4, <1>5 DEF JobEffect, Ends, Inserted, Underway

LEMMA SplitStep ==
    ASSUME ResourcesInv, NEW j \in Jobs, OnlyWorks(j), JobEffect(j), SplitInv,
           NEW i \in DOMAIN userResources', NEW k \in DOMAIN userResources', i # k,
           IsDocOf(userResources'[i], userResources'[k])
    PROVE  \/ userResources'[i].user \in raced'
           \/ ~txIdIndex' /\ \E p, q \in DOMAIN userResources' :
                 /\ userResources'[p].user = userResources'[i].user
                 /\ userResources'[q].user = userResources'[i].user
                 /\ p # q /\ TxIds(userResources'[p]) \cap TxIds(userResources'[q]) # {}
  <1>0. raced \subseteq raced' /\ txIdIndex' = txIdIndex
    BY DEF OnlyWorks
  <1>1. CASE i \in DOMAIN userResources /\ k \in DOMAIN userResources
    <2>1. /\ SameKey(userResources'[i], userResources[i])
          /\ SameKey(userResources'[k], userResources[k])
      BY <1>1, DocsKeep
    <2>2. IsDocOf(userResources[i], userResources[k])
          /\ userResources'[i].user = userResources[i].user
      BY <2>1 DEF IsDocOf, SameKey
    <2>3. CASE userResources[i].user \in raced
      BY <1>0, <2>2, <2>3
    <2>4. CASE userResources[i].user \notin raced
      <3>1. PICK p, q \in OfUser(userResources[i].user) :
               p # q /\ TxIds(userResources[p]) \cap TxIds(userResources[q]) # {}
        BY <1>1, <2>2, <2>4 DEF SplitInv, SplitOnlyByRace
      <3>2. ~txIdIndex
        BY <1>1, <2>2, <2>4 DEF SplitInv, SplitOnlyByRace
      <3>3. p \in DOMAIN userResources /\ q \in DOMAIN userResources
            /\ userResources[p].user = userResources[i].user
            /\ userResources[q].user = userResources[i].user
        BY <3>1 DEF OfUser
      <3>4. /\ p \in DOMAIN userResources' /\ q \in DOMAIN userResources'
            /\ userResources'[p].user = userResources'[i].user
            /\ userResources'[q].user = userResources'[i].user
        BY <2>2, <3>3, DocsKeep DEF SameKey
      <3>5. TxIds(userResources'[p]) \cap TxIds(userResources'[q]) # {}
        BY <3>1, <3>3, DocsKeep
      <3> QED
        BY <1>0, <3>1, <3>2, <3>4, <3>5
    <2> QED
      BY <2>3, <2>4
  <1>2. CASE ~(i \in DOMAIN userResources /\ k \in DOMAIN userResources)
    <2>1. Inserted(j)
      BY <1>2 DEF JobEffect, Modified, Changes
    <2>2. PICK new \in UserResourceDocs :
             /\ Appends(new)
             /\ jobStage[j] \in {"commit", "insert"}
             /\ jobStage[j] = "commit" => snapshot[j] = NoDoc
             /\ IsDocOf(new, job[j]) /\ new.user = job[j].user
             /\ new.deposits = IF jobStage[j] = "commit" THEN {} ELSE {snapshot[j]}
             /\ ~IndexRefuses(0, TxIds(new))
      BY <2>1 DEF Inserted
    <2>3. PICK e \in Entries : job[j] = e
      BY <2>2 DEF ResourcesInv, JobInv, Underway
    <2> DEFINE n == Len(userResources) + 1
    <2>4. /\ n \notin DOMAIN userResources /\ DOMAIN userResources' = DOMAIN userResources \cup {n}
          /\ userResources'[n] = new
          /\ \A m \in DOMAIN userResources : userResources'[m] = userResources[m]
      BY <2>2 DEF Appends
    <2> HIDE DEF n
    <2>5. PICK m \in DOMAIN userResources : {i, k} = {m, n}
      BY <1>2, <2>4
    <2>6. IsDocOf(userResources[m], e)
      BY <2>2, <2>3, <2>4, <2>5 DEF IsDocOf
    <2>7. userResources'[i].user = e.user /\ userResources'[m].user = e.user
          /\ userResources'[n].user = e.user
      BY <2>2, <2>3, <2>4, <2>5, <2>6 DEF IsDocOf
    <2>8. CASE e.user \in raced
      BY <1>0, <2>7, <2>8
    <2>9. CASE e.user \notin raced
      <3>1. m \in DocsOf(e)
        BY <2>6 DEF DocsOf
      <3>2. jobStage[j] = "insert"
        BY <2>2, <2>3, <2>9, <3>1 DEF SplitInv, NoneYet
      <3>3. PICK d \in Deposits : snapshot[j] = d
        BY <3>2 DEF ResourcesInv, JobInv
      <3>4. Uncounted(e, d) = {} /\ TxIds(new) = {d.tx}
        BY <2>2, <2>3, <2>9, <3>2, <3>3 DEF SplitInv, NoneYet, TxIds
      <3>5. d.tx \in TxIds(userResources[m])
        BY <3>1, <3>4 DEF Uncounted
      <3>6. TxIds(userResources'[m]) \cap TxIds(userResources'[n]) # {}
        BY <2>4, <3>4, <3>5
      <3>7. m # 0
        <4>1. DOMAIN userResources = 1 .. Len(userResources)
          BY JobFunctions
        <4> QED
          BY <4>1
      <3>8. ~txIdIndex
        BY <2>2, <3>4, <3>5, <3>7 DEF IndexRefuses
      <3>9. m \in DOMAIN userResources' /\ n \in DOMAIN userResources' /\ m # n
        BY <2>4
      <3> QED
        BY <1>0, <2>7, <3>6, <3>8, <3>9
    <2> QED
      BY <2>8, <2>9
  <1> QED
    BY <1>1, <1>2

(* A second document for one collection of a player comes only of two jobs  *)
(* of the player at the same time or, without the index, of a transaction   *)
(* that was counted again.                                                  *)
THEOREM SplitsNeedARace == Spec => []SplitOnlyByRace
  <1>1. ASSUME Init
        PROVE  SplitInv
    <2>1. /\ userResources = <<>> /\ job = [j \in Jobs |-> NoDoc]
          /\ jobStage = [j \in Jobs |-> "new"]
      BY <1>1 DEF Init, ResourcesInit
    <2>2. RaceNoted /\ \A j \in Jobs : NoneYet(j)
      BY <2>1 DEF RaceNoted, NoneYet
    <2>3. SplitOnlyByRace
      BY <2>1 DEF SplitOnlyByRace
    <2> QED
      BY <2>2, <2>3 DEF SplitInv
  <1>2. ASSUME ResourcesInv, CatalogInv, SplitInv, [Next]_vars
        PROVE  SplitInv'
    <2>1. CASE UNCHANGED resourceVars
      <3>1. UNCHANGED <<userResources, txIdIndex, jobStage, job, snapshot, raced>>
        BY <2>1 DEF resourceVars, jobVars
      <3>2. RaceNoted'
        BY <1>2, <3>1 DEF SplitInv, RaceNoted
      <3>3. \A j \in Jobs : NoneYet(j)'
        BY <1>2, <3>1 DEF SplitInv, NoneYet, DocsOf, Uncounted
      <3>4. SplitOnlyByRace'
        BY <1>2, <3>1 DEF SplitInv, SplitOnlyByRace, OfUser
      <3> QED
        BY <3>2, <3>3, <3>4 DEF SplitInv
    <2>2. ASSUME NEW j \in Jobs, ResourcesStep(j)
          PROVE  SplitInv'
      <3>1. OnlyWorks(j) /\ JobEffect(j)
        BY <1>2, <2>2, ResourcesEffect
      <3>2. RaceNoted' /\ \A i \in Jobs : NoneYet(i)'
        BY <1>2, <3>1, RaceNotedStep, NoneYetStep DEF SplitInv
      <3>3. SplitOnlyByRace'
        BY <1>2, <3>1, SplitStep DEF SplitOnlyByRace, OfUser
      <3> QED
        BY <3>2, <3>3 DEF SplitInv
    <2> QED
      BY <1>2, <2>1, <2>2, ResourceCases
  <1> QED
    BY <1>1, <1>2, UsersInvariance, ResourcesInvariance, PTL DEF Spec, SplitInv

-----------------------------------------------------------------------------
(* Sums over finite sets.  Induction comes from the well-foundedness of <   *)
(* on the naturals, applied to a set of naturals.                           *)

LEMMA Least ==
  ASSUME NEW T \in SUBSET Nat, T # {}
  PROVE \E n \in T : \A m \in T : n <= m
  <1>1. \E R : IsWellFoundedOn(R, Nat) /\ \A m, n \in Nat : m < n => <<m,n>> \in R
    <2>2. \A m, n \in Nat : m < n => <<m,n>> \in OpToRel(<,Nat)
      BY DEF OpToRel
    <2> QED BY <2>2, NatLessThanWellFounded, Zenon
  <1>2. PICK R : IsWellFoundedOn(R, Nat) /\ \A m, n \in Nat : m < n => <<m,n>> \in R
    BY <1>1
  <1>3. \A n, m \in T : n \in Nat /\ m \in Nat
    OBVIOUS
  <1>4. IsWellFoundedOn(R, Nat) /\ T \subseteq Nat /\ T # {}
    BY <1>2
  <1>5. \E n \in T : \A m \in T : ~ (<<m,n>> \in R)
    BY <1>4, WFMin, Zenon
  <1>6. PICK n \in T : \A m \in T : ~ (<<m,n>> \in R)
    BY <1>5
  <1>7. \A m \in T : ~ (m < n)
    BY <1>2, <1>3, <1>6
  <1>8. \A m \in T : n <= m
    BY <1>7, <1>3
  <1> QED BY <1>8


LEMMA SetInduction ==
    ASSUME NEW G, \A n \in Nat : (\A m \in Nat : m < n => m \in G) => n \in G
    PROVE  Nat \subseteq G
  <1> DEFINE T == Nat \ G
  <1>1. SUFFICES ASSUME T # {} PROVE FALSE
    OBVIOUS
  <1>2. PICK n \in T : \A m \in T : n <= m
    <2>1. T \in SUBSET Nat
      OBVIOUS
    <2> HIDE DEF T
    <2> QED
      BY <1>1, <2>1, Least
  <1>3. \A m \in Nat : m < n => m \in G
    BY <1>2
  <1> QED
    BY <1>3

(* The recursive function behind SumFunctionOnSet, and that it exists.      *)
Pick(S) == CHOOSE x \in S : TRUE
SumStep(f, it, s) == IF s = {} THEN 0 ELSE f[Pick(s)] + it[s \ {Pick(s)}]
IsSum(it, f, S) == it = [s \in SUBSET S |-> SumStep(f, it, s)]

LEMMA SumDef ==
    ASSUME NEW f, NEW S
    PROVE  SumFunctionOnSet(f, S) = (CHOOSE it : IsSum(it, f, S))[S]
  BY DEF SumFunctionOnSet, FoldFunctionOnSet, MapThenFoldSet, IsSum, SumStep, Pick

LEMMA PickIn == \A S : S # {} => Pick(S) \in S
  BY DEF Pick

LEMMA Smaller ==
    ASSUME NEW S, IsFiniteSet(S), NEW x \in S
    PROVE  /\ IsFiniteSet(S \ {x})
           /\ Cardinality(S) \in Nat /\ Cardinality(S \ {x}) \in Nat
           /\ Cardinality(S \ {x}) = Cardinality(S) - 1
           /\ Cardinality(S \ {x}) < Cardinality(S)
  BY FS_RemoveElement, FS_CardinalityType

LEMMA SumExists ==
    ASSUME NEW f, NEW S, IsFiniteSet(S)
    PROVE  \E it : IsSum(it, f, S)
  <1> DEFINE Upto(g, n) == \A s \in SUBSET S : Cardinality(s) < n => g[s] = SumStep(f, g, s)
             Good == {n \in Nat : \E g : g = [s \in SUBSET S |-> g[s]] /\ Upto(g, n)}
  <1>0. \A s \in SUBSET S : IsFiniteSet(s) /\ Cardinality(s) \in Nat /\ Cardinality(s) <= Cardinality(S)
    BY FS_Subset, FS_CardinalityType
  <1>1. ASSUME NEW n \in Nat, \A m \in Nat : m < n => m \in Good
        PROVE  n \in Good
    <2>1. CASE n = 0
      <3>1. Upto([s \in SUBSET S |-> 0], 0)
        BY <1>0
      <3> QED
        BY <2>1, <3>1
    <2>2. CASE n # 0
      <3>0. n - 1 \in Good
        <4> HIDE DEF Good
        <4> QED
          BY <1>1, <2>2
      <3>1. PICK g : g = [s \in SUBSET S |-> g[s]] /\ Upto(g, n - 1)
        BY <3>0
      <3> DEFINE h == [s \in SUBSET S |-> SumStep(f, g, s)]
      <3>2. \A s \in SUBSET S : Cardinality(s) < n - 1 => h[s] = g[s]
        BY <3>1
      <3>3. ASSUME NEW s \in SUBSET S, Cardinality(s) < n
            PROVE  h[s] = SumStep(f, h, s)
        <4>1. CASE s = {}
          BY <4>1 DEF SumStep
        <4>2. CASE s # {}
          <5> DEFINE p == Pick(s)
          <5>1. p \in s /\ s \ {p} \in SUBSET S
            BY <4>2, PickIn
          <5> HIDE DEF p
          <5>2. Cardinality(s \ {p}) < n - 1
            BY <5>1, <1>0, <3>3, Smaller
          <5>3. h[s \ {p}] = g[s \ {p}]
            BY <5>1, <5>2, <3>2
          <5>4. SumStep(f, h, s) = f[p] + h[s \ {p}] /\ SumStep(f, g, s) = f[p] + g[s \ {p}]
            BY <4>2 DEF SumStep, p
          <5>5. h[s] = SumStep(f, g, s)
            OBVIOUS
          <5> QED
            BY <5>3, <5>4, <5>5
        <4> QED
          BY <4>1, <4>2
      <3>4. h = [s \in SUBSET S |-> h[s]] /\ Upto(h, n)
        BY <3>3
      <3> QED
        BY <3>4
    <2> QED
      BY <2>1, <2>2
  <1>2. Cardinality(S) + 1 \in Good
    <2> HIDE DEF Good
    <2>1. Nat \subseteq Good
      BY <1>1, SetInduction
    <2>2. Cardinality(S) + 1 \in Nat
      BY FS_CardinalityType
    <2> QED
      BY <2>1, <2>2
  <1>3. PICK g : g = [s \in SUBSET S |-> g[s]] /\ Upto(g, Cardinality(S) + 1)
    BY <1>2
  <1>4. ASSUME NEW s \in SUBSET S
        PROVE  g[s] = SumStep(f, g, s)
    <2>1. Cardinality(s) < Cardinality(S) + 1
      BY <1>0, FS_CardinalityType
    <2> QED
      BY <1>3, <2>1
  <1> QED
    BY <1>3, <1>4 DEF IsSum

LEMMA SumUnique ==
    ASSUME NEW f, NEW S, NEW T \in SUBSET S, IsFiniteSet(S),
           NEW it, IsSum(it, f, S), NEW jt, IsSum(jt, f, T)
    PROVE  it[T] = jt[T]
  <1> DEFINE G == {n \in Nat : \A s \in SUBSET T : Cardinality(s) = n => it[s] = jt[s]}
  <1>1. \A s \in SUBSET T : IsFiniteSet(s) /\ Cardinality(s) \in Nat
    BY FS_Subset, FS_CardinalityType
  <1>2. \A s \in SUBSET T : it[s] = SumStep(f, it, s) /\ jt[s] = SumStep(f, jt, s)
    BY DEF IsSum
  <1>3. ASSUME NEW n \in Nat, \A m \in Nat : m < n => m \in G
        PROVE  n \in G
    <2>1. SUFFICES ASSUME NEW s \in SUBSET T, Cardinality(s) = n
                   PROVE  it[s] = jt[s]
      OBVIOUS
    <2>2. CASE s = {}
      BY <1>2, <2>2 DEF SumStep
    <2>3. CASE s # {}
      <3> DEFINE p == Pick(s)
      <3>1. p \in s /\ s \ {p} \in SUBSET T
        BY <2>3, PickIn
      <3>2. it[s] = f[p] + it[s \ {p}] /\ jt[s] = f[p] + jt[s \ {p}]
        BY <1>2, <2>3 DEF SumStep
      <3> HIDE DEF p
      <3>3. Cardinality(s \ {p}) \in Nat /\ Cardinality(s \ {p}) < n
        BY <1>1, <2>1, <3>1, Smaller
      <3>4. Cardinality(s \ {p}) \in G
        BY <1>3, <3>3
      <3>5. it[s \ {p}] = jt[s \ {p}]
        BY <3>1, <3>4
      <3> QED
        BY <3>2, <3>5
    <2> QED
      BY <2>2, <2>3
  <1>4. Cardinality(T) \in G
    <2> HIDE DEF G
    <2>1. Nat \subseteq G
      BY <1>3, SetInduction
    <2> QED
      BY <1>1, <2>1
  <1> QED
    BY <1>4

LEMMA SumIs ==
    ASSUME NEW f, NEW S, IsFiniteSet(S), NEW T \in SUBSET S, NEW it, IsSum(it, f, S)
    PROVE  SumFunctionOnSet(f, T) = it[T]
  <1>1. IsFiniteSet(T)
    BY FS_Subset
  <1>2. IsSum(CHOOSE jt : IsSum(jt, f, T), f, T)
    BY <1>1, SumExists
  <1> QED
    BY <1>2, SumUnique, SumDef

(* What a sum over a finite set is.                                         *)
LEMMA SumPick ==
    ASSUME NEW f, NEW S, IsFiniteSet(S)
    PROVE  /\ S = {} => SumFunctionOnSet(f, S) = 0
           /\ S # {} => SumFunctionOnSet(f, S) = f[Pick(S)] + SumFunctionOnSet(f, S \ {Pick(S)})
  <1>1. PICK it : IsSum(it, f, S)
    BY SumExists
  <1>2. it[S] = SumStep(f, it, S)
    BY <1>1 DEF IsSum
  <1>3. SumFunctionOnSet(f, S) = it[S] /\ SumFunctionOnSet(f, S \ {Pick(S)}) = it[S \ {Pick(S)}]
    BY <1>1, SumIs
  <1> QED
    BY <1>2, <1>3 DEF SumStep

LEMMA SumIn ==
    ASSUME NEW f, NEW S, IsFiniteSet(S), NEW N, 0 \in N, \A m, n \in N : m + n \in N,
           \A x \in S : f[x] \in N
    PROVE  SumFunctionOnSet(f, S) \in N
  <1> DEFINE G == {n \in Nat : \A s \in SUBSET S : Cardinality(s) = n => SumFunctionOnSet(f, s) \in N}
  <1>1. \A s \in SUBSET S : IsFiniteSet(s) /\ Cardinality(s) \in Nat
    BY FS_Subset, FS_CardinalityType
  <1>2. ASSUME NEW n \in Nat, \A m \in Nat : m < n => m \in G
        PROVE  n \in G
    <2>1. SUFFICES ASSUME NEW s \in SUBSET S, Cardinality(s) = n
                   PROVE  SumFunctionOnSet(f, s) \in N
      OBVIOUS
    <2>2. CASE s = {}
      BY <1>1, <2>2, SumPick
    <2>3. CASE s # {}
      <3> DEFINE p == Pick(s)
      <3>1. p \in s /\ s \ {p} \in SUBSET S /\ f[p] \in N
        BY <2>3, PickIn
      <3>2. SumFunctionOnSet(f, s) = f[p] + SumFunctionOnSet(f, s \ {p})
        BY <1>1, <2>3, SumPick
      <3> HIDE DEF p
      <3>3. Cardinality(s \ {p}) \in Nat /\ Cardinality(s \ {p}) < n
        BY <1>1, <2>1, <3>1, Smaller
      <3>4. Cardinality(s \ {p}) \in G
        BY <1>2, <3>3
      <3>5. SumFunctionOnSet(f, s \ {p}) \in N
        BY <3>1, <3>4
      <3> QED
        BY <3>1, <3>2, <3>5
    <2> QED
      BY <2>2, <2>3
  <1>3. Cardinality(S) \in G
    <2> HIDE DEF G
    <2>1. Nat \subseteq G
      BY <1>2, SetInduction
    <2> QED
      BY <1>1, <2>1
  <1> QED
    BY <1>3

LEMMA SumType ==
    ASSUME NEW f, NEW S, IsFiniteSet(S), \A x \in S : f[x] \in Int
    PROVE  SumFunctionOnSet(f, S) \in Int
  <1>1. 0 \in Int /\ \A m, n \in Int : m + n \in Int
    OBVIOUS
  <1> QED
    BY <1>1, SumIn

LEMMA SumZero ==
    ASSUME NEW f, NEW S, IsFiniteSet(S), \A x \in S : f[x] = 0
    PROVE  SumFunctionOnSet(f, S) = 0
  <1>1. 0 \in {0} /\ (\A m, n \in {0} : m + n \in {0}) /\ \A x \in S : f[x] \in {0}
    OBVIOUS
  <1>2. SumFunctionOnSet(f, S) \in {0}
    BY <1>1, SumIn
  <1> QED
    BY <1>2

(* Any element may be taken first.                                          *)
LEMMA SumTake ==
    ASSUME NEW f, NEW S, IsFiniteSet(S), \A x \in S : f[x] \in Int, NEW x \in S
    PROVE  SumFunctionOnSet(f, S) = f[x] + SumFunctionOnSet(f, S \ {x})
  <1> DEFINE G == {n \in Nat : \A s \in SUBSET S : Cardinality(s) = n =>
                       \A y \in s : SumFunctionOnSet(f, s) = f[y] + SumFunctionOnSet(f, s \ {y})}
  <1>1. \A s \in SUBSET S : IsFiniteSet(s) /\ Cardinality(s) \in Nat /\ SumFunctionOnSet(f, s) \in Int
    BY FS_Subset, FS_CardinalityType, SumType
  <1>2. ASSUME NEW n \in Nat, \A m \in Nat : m < n => m \in G
        PROVE  n \in G
    <2>1. SUFFICES ASSUME NEW s \in SUBSET S, Cardinality(s) = n, NEW y \in s
                   PROVE  SumFunctionOnSet(f, s) = f[y] + SumFunctionOnSet(f, s \ {y})
      OBVIOUS
    <2> DEFINE p == Pick(s)
    <2>2. p \in s
      BY PickIn
    <2>3. SumFunctionOnSet(f, s) = f[p] + SumFunctionOnSet(f, s \ {p})
      BY <1>1, SumPick
    <2> HIDE DEF p
    <2>4. CASE y = p
      BY <2>3, <2>4
    <2>5. CASE y # p
      <3>1. y \in s \ {p} /\ p \in s \ {y}
        BY <2>2, <2>5
      <3>2. /\ Cardinality(s \ {p}) \in Nat /\ Cardinality(s \ {p}) < n
            /\ Cardinality(s \ {y}) \in Nat /\ Cardinality(s \ {y}) < n
        BY <1>1, <2>1, <2>2, Smaller
      <3>3. Cardinality(s \ {p}) \in G /\ Cardinality(s \ {y}) \in G
        BY <1>2, <3>2
      <3>4. /\ SumFunctionOnSet(f, s \ {p}) = f[y] + SumFunctionOnSet(f, (s \ {p}) \ {y})
            /\ SumFunctionOnSet(f, s \ {y}) = f[p] + SumFunctionOnSet(f, (s \ {y}) \ {p})
        BY <3>1, <3>3
      <3>5. (s \ {p}) \ {y} = (s \ {y}) \ {p}
        OBVIOUS
      <3>6. /\ SumFunctionOnSet(f, (s \ {y}) \ {p}) \in Int
            /\ f[p] \in Int /\ f[y] \in Int
        BY <1>1, <2>2
      <3> HIDE DEF G
      <3>7. SumFunctionOnSet(f, s) = f[p] + (f[y] + SumFunctionOnSet(f, (s \ {y}) \ {p}))
        BY <2>3, <3>4, <3>5
      <3> QED
        BY <3>4, <3>6, <3>7
    <2> QED
      BY <2>4, <2>5
  <1>3. Cardinality(S) \in G
    <2> HIDE DEF G
    <2>1. Nat \subseteq G
      BY <1>2, SetInduction
    <2> QED
      BY <1>1, <2>1
  <1> QED
    BY <1>3

(* It depends on the summands only.                                         *)
LEMMA SumSame ==
    ASSUME NEW f, NEW g, NEW S, IsFiniteSet(S), \A x \in S : f[x] = g[x]
    PROVE  SumFunctionOnSet(f, S) = SumFunctionOnSet(g, S)
  <1> DEFINE G == {n \in Nat : \A s \in SUBSET S : Cardinality(s) = n =>
                       SumFunctionOnSet(f, s) = SumFunctionOnSet(g, s)}
  <1>1. \A s \in SUBSET S : IsFiniteSet(s) /\ Cardinality(s) \in Nat
    BY FS_Subset, FS_CardinalityType
  <1>2. ASSUME NEW n \in Nat, \A m \in Nat : m < n => m \in G
        PROVE  n \in G
    <2>1. SUFFICES ASSUME NEW s \in SUBSET S, Cardinality(s) = n
                   PROVE  SumFunctionOnSet(f, s) = SumFunctionOnSet(g, s)
      OBVIOUS
    <2>2. CASE s = {}
      BY <1>1, <2>2, SumPick
    <2>3. CASE s # {}
      <3> DEFINE p == Pick(s)
      <3>1. p \in s /\ s \ {p} \in SUBSET S /\ f[p] = g[p]
        BY <2>3, PickIn
      <3>2. /\ SumFunctionOnSet(f, s) = f[p] + SumFunctionOnSet(f, s \ {p})
            /\ SumFunctionOnSet(g, s) = g[p] + SumFunctionOnSet(g, s \ {p})
        BY <1>1, <2>3, SumPick
      <3> HIDE DEF p
      <3>3. Cardinality(s \ {p}) \in Nat /\ Cardinality(s \ {p}) < n
        BY <1>1, <2>1, <3>1, Smaller
      <3>4. Cardinality(s \ {p}) \in G
        BY <1>2, <3>3
      <3>5. SumFunctionOnSet(f, s \ {p}) = SumFunctionOnSet(g, s \ {p})
        BY <3>1, <3>4
      <3> QED
        BY <3>1, <3>2, <3>5
    <2> QED
      BY <2>2, <2>3
  <1>3. Cardinality(S) \in G
    <2> HIDE DEF G
    <2>1. Nat \subseteq G
      BY <1>2, SetInduction
    <2> QED
      BY <1>1, <2>1
  <1> QED
    BY <1>3

(* One summand changes.                                                     *)
LEMMA SumChange ==
    ASSUME NEW f, NEW g, NEW S, IsFiniteSet(S), NEW x \in S,
           \A y \in S : f[y] \in Int /\ g[y] \in Int, \A y \in S \ {x} : f[y] = g[y]
    PROVE  SumFunctionOnSet(g, S) = SumFunctionOnSet(f, S) + (g[x] - f[x])
  <1>1. SumFunctionOnSet(f, S) = f[x] + SumFunctionOnSet(f, S \ {x})
    BY SumTake
  <1>2. SumFunctionOnSet(g, S) = g[x] + SumFunctionOnSet(g, S \ {x})
    BY SumTake
  <1>3. IsFiniteSet(S \ {x})
    BY FS_RemoveElement
  <1>4. /\ SumFunctionOnSet(f, S \ {x}) = SumFunctionOnSet(g, S \ {x})
        /\ SumFunctionOnSet(f, S \ {x}) \in Int
    BY <1>3, SumSame, SumType
  <1> QED
    BY <1>1, <1>2, <1>4

(* One is added.                                                            *)
LEMMA SumAdd ==
    ASSUME NEW f, NEW g, NEW S, IsFiniteSet(S), NEW x, x \notin S,
           g[x] \in Int, \A y \in S : f[y] \in Int /\ f[y] = g[y]
    PROVE  SumFunctionOnSet(g, S \cup {x}) = SumFunctionOnSet(f, S) + g[x]
  <1>1. IsFiniteSet(S \cup {x}) /\ (S \cup {x}) \ {x} = S /\ \A y \in S \cup {x} : g[y] \in Int
    BY FS_AddElement
  <1>2. SumFunctionOnSet(g, S \cup {x}) = g[x] + SumFunctionOnSet(g, S)
    <2>1. x \in S \cup {x}
      OBVIOUS
    <2> QED
      BY <1>1, <2>1, SumTake
  <1>3. SumFunctionOnSet(f, S) = SumFunctionOnSet(g, S) /\ SumFunctionOnSet(f, S) \in Int
    BY SumSame, SumType
  <1> QED
    BY <1>2, <1>3

-----------------------------------------------------------------------------
(* The balance of a document, and what its deposits brought.                *)

AmountOf == [d \in Deposits |-> d.amount]
DocHeld(doc) == SumFunctionOnSet(doc.balances, Resources)
DocDeposited(doc) == SumFunctionOnSet(AmountOf, doc.deposits)

LEMMA FiniteResources == IsFiniteSet(Resources)
  BY ResourcesAssumption

LEMMA DepositAmounts == \A d \in Deposits : AmountOf[d] = d.amount /\ d.amount \in Nat
  BY ResourcesAssumption, QuantitiesPositive DEF AmountOf

LEMMA DocSums ==
    ASSUME NEW doc \in UserResourceDocs, IsFiniteSet(doc.deposits)
    PROVE  DocHeld(doc) \in Int /\ DocDeposited(doc) \in Int
  <1>1. \A r \in Resources : doc.balances[r] \in Int
    BY DocTypes
  <1>2. \A d \in doc.deposits : AmountOf[d] \in Int
    BY DocTypes, DepositAmounts
  <1> QED
    BY <1>1, <1>2, FiniteResources, SumType DEF DocHeld, DocDeposited

LEMMA HeldChanges ==
    ASSUME NEW doc \in UserResourceDocs, NEW new \in UserResourceDocs, NEW r \in Resources,
           NEW n \in Int,
           \A s \in Resources : new.balances[s] =
               IF s = r THEN doc.balances[s] + n ELSE doc.balances[s]
    PROVE  DocHeld(new) = DocHeld(doc) + n
  <1>1. \A s \in Resources : doc.balances[s] \in Int /\ new.balances[s] \in Int
    BY DocTypes
  <1>2. \A s \in Resources \ {r} : doc.balances[s] = new.balances[s]
    OBVIOUS
  <1>3. SumFunctionOnSet(new.balances, Resources) =
            SumFunctionOnSet(doc.balances, Resources) + (new.balances[r] - doc.balances[r])
    BY <1>1, <1>2, FiniteResources, SumChange
  <1>4. new.balances[r] - doc.balances[r] = n
    BY <1>1
  <1> QED
    BY <1>3, <1>4 DEF DocHeld

LEMMA HeldIncremented ==
    ASSUME NEW doc \in UserResourceDocs, NEW e \in Entries
    PROVE  DocHeld(Incremented(doc, e)) = DocHeld(doc) + e.amount
  BY IncrementedDoc, EntryTypes, HeldChanges

LEMMA HeldNew ==
    ASSUME NEW e \in Entries, NEW ds \in SUBSET Deposits
    PROVE  DocHeld(NewDoc(e, ds)) = e.amount
  <1> DEFINE doc == [user |-> e.user, game |-> e.game, collection |-> e.collection,
                     balances |-> [r \in Resources |-> 0], deposits |-> ds]
  <1>1. doc \in UserResourceDocs /\ \A r \in Resources : doc.balances[r] = 0
    BY EntryTypes DEF UserResourceDocs
  <1>2. NewDoc(e, ds) = Incremented(doc, e)
    BY DEF NewDoc
  <1> HIDE DEF doc
  <1>3. DocHeld(doc) = 0
    BY <1>1, FiniteResources, SumZero DEF DocHeld
  <1> QED
    BY <1>1, <1>2, <1>3, HeldIncremented, EntryTypes

LEMMA DepositedAdded ==
    ASSUME NEW doc \in UserResourceDocs, NEW new \in UserResourceDocs, IsFiniteSet(doc.deposits),
           NEW d \in Deposits, d \notin doc.deposits, new.deposits = doc.deposits \cup {d}
    PROVE  DocDeposited(new) = DocDeposited(doc) + d.amount
  <1>1. \A x \in doc.deposits : AmountOf[x] \in Int
    BY DocTypes, DepositAmounts
  <1>2. AmountOf[d] = d.amount /\ d.amount \in Int
    BY DepositAmounts
  <1> QED
    BY <1>1, <1>2, SumAdd DEF DocDeposited

LEMMA DepositedNew ==
    ASSUME NEW doc \in UserResourceDocs
    PROVE  /\ doc.deposits = {} => DocDeposited(doc) = 0
           /\ \A d \in Deposits : doc.deposits = {d} => DocDeposited(doc) = d.amount
  <1>1. IsFiniteSet({}) /\ SumFunctionOnSet(AmountOf, {}) = 0
    BY FS_EmptySet, SumZero
  <1>2. ASSUME NEW d \in Deposits
        PROVE  SumFunctionOnSet(AmountOf, {d}) = d.amount
    <2>1. SumFunctionOnSet(AmountOf, {} \cup {d}) = SumFunctionOnSet(AmountOf, {}) + AmountOf[d]
      BY <1>1, DepositAmounts, SumAdd
    <2>2. {} \cup {d} = {d}
      OBVIOUS
    <2> QED
      BY <1>1, <2>1, <2>2, DepositAmounts
  <1> QED
    BY <1>1, <1>2 DEF DocDeposited

-----------------------------------------------------------------------------
(* The books of a player.                                                   *)

FiniteDeposits == \A i \in DOMAIN userResources : IsFiniteSet(userResources[i].deposits)

HeldBy(a) == SumFunctionOnSet([i \in OfUser(a) |-> DocHeld(userResources[i])], OfUser(a))
DepositedBy(a) == SumFunctionOnSet([i \in OfUser(a) |-> DocDeposited(userResources[i])], OfUser(a))
Balanced(a) == HeldBy(a) + spent[a] = minted[a] + DepositedBy(a)

LEMMA HistoryIs == BalanceIsItsHistory <=> \A a \in Accounts : Balanced(a)
  BY DEF BalanceIsItsHistory, Balanced, HeldBy, DepositedBy, Held, Deposited, DocHeld,
         DocDeposited, AmountOf, SumFunction

LEMMA HistoryIsNext == BalanceIsItsHistory' <=> \A a \in Accounts : Balanced(a)'
  BY DEF BalanceIsItsHistory, Balanced, HeldBy, DepositedBy, Held, Deposited, DocHeld,
         DocDeposited, AmountOf, SumFunction

LEMMA OfUserFinite ==
    ASSUME ResourcesInv, FiniteDeposits, NEW a
    PROVE  /\ IsFiniteSet(OfUser(a))
           /\ \A i \in OfUser(a) :
                 DocHeld(userResources[i]) \in Int /\ DocDeposited(userResources[i]) \in Int
           /\ HeldBy(a) \in Int /\ DepositedBy(a) \in Int
  <1>1. userResources \in Seq(UserResourceDocs)
    BY JobFunctions
  <1>2. IsFiniteSet(DOMAIN userResources)
    <2>1. Len(userResources) \in Nat /\ DOMAIN userResources = 1 .. Len(userResources)
      BY <1>1
    <2> QED
      BY <2>1, FS_Interval
  <1>3. IsFiniteSet(OfUser(a))
    <2>1. OfUser(a) \in SUBSET DOMAIN userResources
      BY DEF OfUser
    <2> QED
      BY <1>2, <2>1, FS_Subset
  <1>4. \A i \in OfUser(a) :
            DocHeld(userResources[i]) \in Int /\ DocDeposited(userResources[i]) \in Int
    BY JobFunctions, DocSums DEF OfUser, FiniteDeposits
  <1> QED
    BY <1>3, <1>4, SumType DEF HeldBy, DepositedBy

(* One document changes by what is noted: the player receives `more`, of    *)
(* which `brought` is a deposit, or spends.                                 *)
Noted(u, more, less) ==
    \A a \in Accounts :
        /\ minted'[a] = IF a = u THEN minted[a] + more ELSE minted[a]
        /\ spent'[a] = IF a = u THEN spent[a] + less ELSE spent[a]

LEMMA ChangedHistory ==
    ASSUME ResourcesInv, FiniteDeposits, BalanceIsItsHistory,
           NEW i \in DOMAIN userResources, NEW new \in UserResourceDocs,
           Changes(i, new), SameKey(new, userResources[i]), IsFiniteSet(new.deposits),
           NEW more \in Nat, NEW less \in Nat, NEW brought \in Nat,
           Noted(new.user, more, less),
           DocHeld(new) = DocHeld(userResources[i]) + (more + brought - less),
           DocDeposited(new) = DocDeposited(userResources[i]) + brought
    PROVE  BalanceIsItsHistory' /\ FiniteDeposits'
  <1>1. FiniteDeposits'
    BY DEF FiniteDeposits, Changes
  <1>2. ASSUME NEW a \in Accounts
        PROVE  Balanced(a)'
    <2>1. OfUser(a)' = OfUser(a)
      BY DEF OfUser, Changes, SameKey
    <2>2. /\ minted[a] \in Nat /\ spent[a] \in Nat
          /\ HeldBy(a) \in Int /\ DepositedBy(a) \in Int
          /\ HeldBy(a) + spent[a] = minted[a] + DepositedBy(a)
      BY JobFunctions, OfUserFinite, HistoryIs DEF Balanced
    <2> DEFINE H == [k \in OfUser(a) |-> DocHeld(userResources[k])]
               D == [k \in OfUser(a) |-> DocDeposited(userResources[k])]
               H1 == [k \in OfUser(a) |-> DocHeld(userResources'[k])]
               D1 == [k \in OfUser(a) |-> DocDeposited(userResources'[k])]
    <2>3. /\ HeldBy(a) = SumFunctionOnSet(H, OfUser(a))
          /\ DepositedBy(a) = SumFunctionOnSet(D, OfUser(a))
          /\ HeldBy(a)' = SumFunctionOnSet(H1, OfUser(a))
          /\ DepositedBy(a)' = SumFunctionOnSet(D1, OfUser(a))
      BY <2>1 DEF HeldBy, DepositedBy, DocHeld, DocDeposited
    <2>4. IsFiniteSet(OfUser(a)) /\ \A k \in OfUser(a) : H[k] \in Int /\ D[k] \in Int
      BY OfUserFinite
    <2>5. \A k \in OfUser(a) : k # i => H1[k] = H[k] /\ D1[k] = D[k]
      BY DEF Changes, OfUser
    <2>6. CASE a # new.user
      <3>1. i \notin OfUser(a)
        BY <2>6 DEF OfUser, SameKey
      <3>2. \A k \in OfUser(a) : H1[k] = H[k] /\ D1[k] = D[k]
        BY <2>5, <3>1
      <3> HIDE DEF H, D, H1, D1
      <3>3. HeldBy(a)' = HeldBy(a) /\ DepositedBy(a)' = DepositedBy(a)
        BY <2>3, <2>4, <3>2, SumSame
      <3>4. minted'[a] = minted[a] /\ spent'[a] = spent[a]
        BY <2>6 DEF Noted
      <3> QED
        BY <2>2, <3>3, <3>4 DEF Balanced
    <2>7. CASE a = new.user
      <3>1. i \in OfUser(a)
        BY <2>7 DEF OfUser, SameKey
      <3>2. /\ H1[i] = H[i] + (more + brought - less)
            /\ D1[i] = D[i] + brought
        BY <3>1 DEF Changes
      <3>3. \A k \in OfUser(a) : H1[k] \in Int /\ D1[k] \in Int
        BY <2>4, <2>5, <3>2
      <3> HIDE DEF H, D, H1, D1
      <3>4. /\ SumFunctionOnSet(H1, OfUser(a)) = SumFunctionOnSet(H, OfUser(a)) + (H1[i] - H[i])
            /\ SumFunctionOnSet(D1, OfUser(a)) = SumFunctionOnSet(D, OfUser(a)) + (D1[i] - D[i])
        BY <2>4, <2>5, <3>1, <3>3, SumChange
      <3>5. H1[i] - H[i] = more + brought - less /\ D1[i] - D[i] = brought
        BY <2>4, <3>1, <3>2
      <3>6. minted'[a] = minted[a] + more /\ spent'[a] = spent[a] + less
        BY <2>7 DEF Noted
      <3>7. /\ HeldBy(a)' = HeldBy(a) + (more + brought - less)
            /\ DepositedBy(a)' = DepositedBy(a) + brought
        BY <2>3, <3>4, <3>5
      <3>8. HeldBy(a)' + spent'[a] = minted'[a] + DepositedBy(a)'
        BY <2>2, <3>6, <3>7
      <3> QED
        BY <3>8 DEF Balanced
    <2> QED
      BY <2>6, <2>7
  <1> QED
    BY <1>1, <1>2, HistoryIsNext

LEMMA AppendedHistory ==
    ASSUME ResourcesInv, FiniteDeposits, BalanceIsItsHistory,
           NEW new \in UserResourceDocs, Appends(new), IsFiniteSet(new.deposits),
           NEW more \in Nat, NEW brought \in Nat,
           Noted(new.user, more, 0),
           DocHeld(new) = more + brought, DocDeposited(new) = brought
    PROVE  BalanceIsItsHistory' /\ FiniteDeposits'
  <1>1. FiniteDeposits'
    BY DEF FiniteDeposits, Appends
  <1>2. ASSUME NEW a \in Accounts
        PROVE  Balanced(a)'
    <2> DEFINE n == Len(userResources) + 1
    <2>0. n \notin OfUser(a)
      BY DEF OfUser, Appends
    <2>1. OfUser(a)' = IF a = new.user THEN OfUser(a) \cup {n} ELSE OfUser(a)
      BY DEF OfUser, Appends
    <2>2. /\ minted[a] \in Nat /\ spent[a] \in Nat
          /\ HeldBy(a) \in Int /\ DepositedBy(a) \in Int
          /\ HeldBy(a) + spent[a] = minted[a] + DepositedBy(a)
      BY JobFunctions, OfUserFinite, HistoryIs DEF Balanced
    <2> DEFINE H == [k \in OfUser(a) |-> DocHeld(userResources[k])]
               D == [k \in OfUser(a) |-> DocDeposited(userResources[k])]
               H1 == [k \in OfUser(a)' |-> DocHeld(userResources'[k])]
               D1 == [k \in OfUser(a)' |-> DocDeposited(userResources'[k])]
    <2>3. /\ HeldBy(a) = SumFunctionOnSet(H, OfUser(a))
          /\ DepositedBy(a) = SumFunctionOnSet(D, OfUser(a))
          /\ HeldBy(a)' = SumFunctionOnSet(H1, OfUser(a)')
          /\ DepositedBy(a)' = SumFunctionOnSet(D1, OfUser(a)')
      BY DEF HeldBy, DepositedBy, DocHeld, DocDeposited
    <2>4. IsFiniteSet(OfUser(a)) /\ \A k \in OfUser(a) : H[k] \in Int /\ D[k] \in Int
      BY OfUserFinite
    <2>5. \A k \in OfUser(a) : H1[k] = H[k] /\ D1[k] = D[k]
      BY <2>1 DEF Appends, OfUser
    <2>6. CASE a # new.user
      <3> HIDE DEF H, D, H1, D1
      <3>3. HeldBy(a)' = HeldBy(a) /\ DepositedBy(a)' = DepositedBy(a)
        BY <2>1, <2>3, <2>4, <2>5, <2>6, SumSame
      <3>4. minted'[a] = minted[a] /\ spent'[a] = spent[a]
        BY <2>6 DEF Noted
      <3> QED
        BY <2>2, <3>3, <3>4 DEF Balanced
    <2>7. CASE a = new.user
      <3>1. H1[n] = more + brought /\ D1[n] = brought
        BY <2>1, <2>7 DEF Appends
      <3>2. minted'[a] = minted[a] + more /\ spent'[a] = spent[a]
        BY <2>2, <2>7 DEF Noted
      <3>3. OfUser(a)' = OfUser(a) \cup {n}
        BY <2>1, <2>7
      <3> HIDE DEF H, D, H1, D1, n
      <3>4. /\ SumFunctionOnSet(H1, OfUser(a) \cup {n}) = SumFunctionOnSet(H, OfUser(a)) + H1[n]
            /\ SumFunctionOnSet(D1, OfUser(a) \cup {n}) = SumFunctionOnSet(D, OfUser(a)) + D1[n]
        <4>1. H1[n] \in Int /\ D1[n] \in Int
          BY <3>1
        <4> QED
          BY <2>0, <2>4, <2>5, <4>1, SumAdd
      <3>5. HeldBy(a)' = HeldBy(a) + (more + brought) /\ DepositedBy(a)' = DepositedBy(a) + brought
        BY <2>3, <3>1, <3>3, <3>4
      <3>6. HeldBy(a)' + spent'[a] = minted'[a] + DepositedBy(a)'
        BY <2>2, <3>2, <3>5
      <3> QED
        BY <3>6 DEF Balanced
    <2> QED
      BY <2>6, <2>7
  <1> QED
    BY <1>1, <1>2, HistoryIsNext

LEMMA NothingNoted ==
    ASSUME UNCHANGED <<userResources, minted, spent>>, FiniteDeposits, BalanceIsItsHistory
    PROVE  BalanceIsItsHistory' /\ FiniteDeposits'
  BY DEF FiniteDeposits, BalanceIsItsHistory, OfUser, Held, Deposited

-----------------------------------------------------------------------------
(* Each step that touches a balance.                                        *)

(* What a job will write is for the document it found, and for what the     *)
(* event says.                                                              *)
OwnsWork ==
    \A j \in Jobs :
        /\ jobStage[j] = "commit" /\ snapshot[j] # NoDoc => IsDocOf(snapshot[j][2], job[j])
        /\ jobStage[j] \in {"deposit", "insert"} => job[j].amount = snapshot[j].amount

HistoryInv == OwnsWork /\ FiniteDeposits /\ BalanceIsItsHistory

LEMMA OwnsWorkStep ==
    ASSUME ResourcesInv, CatalogInv, OwnsWork, NEW j \in Jobs, ResourcesStep(j)
    PROVE  OwnsWork'
  <1> DEFINE Own == /\ jobStage'[j] = "commit" /\ snapshot'[j] # NoDoc
                          => IsDocOf(snapshot'[j][2], job'[j])
                    /\ jobStage'[j] \in {"deposit", "insert"} => job'[j].amount = snapshot'[j].amount
  <1>0. Finished(j) => Own
    <2>1. SUFFICES ASSUME Finished(j) PROVE jobStage'[j] = "done"
      OBVIOUS
    <2>2. jobStage' = [jobStage EXCEPT ![j] = "done"]
      BY <2>1 DEF Finished, JobGoto
    <2> QED
      BY <2>2, JobFunctions
  <1>1. OnlyWorks(j)
    BY ResourcesEffect
  <1>2. ASSUME NEW a \in Accounts, NEW g \in Games, NEW c \in Collections, NEW r \in Resources,
               NEW n \in Quantities, StartMint(j, a, g, c, r, n)
        PROVE  Own
    <2> DEFINE e == Entry(a, g, c, r, n)
    <2>1. /\ jobStage[j] = "new" /\ jobStage'[j] = "commit" /\ job'[j] = e
          /\ \/ \E i \in DocsOf(e) : snapshot' = [snapshot EXCEPT ![j] = <<i, userResources[i]>>]
             \/ snapshot' = snapshot
      BY <1>2, JobFunctions DEF StartMint, JobGoto
    <2>2. snapshot[j] = NoDoc
      BY <2>1 DEF ResourcesInv, JobInv, Underway
    <2> HIDE DEF e
    <2>3. ASSUME NEW i \in DocsOf(e), snapshot' = [snapshot EXCEPT ![j] = <<i, userResources[i]>>]
          PROVE  IsDocOf(snapshot'[j][2], e)
      BY <2>3, JobFunctions DEF DocsOf
    <2> QED
      BY <2>1, <2>2, <2>3
  <1>3. ASSUME NEW d \in Deposits, ResolveDeposit(j, d)
        PROVE  Own
    BY <1>3, JobFunctions DEF ResolveDeposit, Entry, JobGoto
  <1>4. ASSUME CountDeposit(j)
        PROVE  Own
    <2>1. CASE Finished(j)
      BY <1>0, <2>1
    <2>2. CASE jobStage[j] = "deposit" /\ JobGoto(j, "insert") /\ UNCHANGED <<job, snapshot>>
      BY <2>2, JobFunctions DEF JobGoto, OwnsWork
    <2> QED
      BY <1>4, <2>1, <2>2 DEF CountDeposit
  <1> HIDE DEF Own
  <1>5. Own
    BY <1>0, <1>2, <1>3, <1>4 DEF ResourcesStep, MintStep, SpendStep, DepositStep, CommitMint,
       AbortMint, DecrementResource, InsertDeposit, JobDies
  <1> QED
    BY <1>1, <1>5 DEF OwnsWork, OnlyWorks, Own

LEMMA CommitMintHistory ==
    ASSUME ResourcesInv, HistoryInv, NEW j \in Jobs, CommitMint(j)
    PROVE  BalanceIsItsHistory' /\ FiniteDeposits'
  <1>1. PICK e \in Entries : job[j] = e
    BY DEF CommitMint, ResourcesInv, JobInv, Underway
  <1>2. /\ jobStage[j] = "commit" /\ Upserted(j, userResources')
        /\ minted' = [minted EXCEPT ![e.user] = @ + e.amount] /\ spent' = spent
    BY <1>1 DEF CommitMint
  <1>3. e.user \in Accounts /\ e.amount \in Nat
    BY EntryTypes
  <1>4. Noted(e.user, e.amount, 0)
    BY <1>2, <1>3, JobFunctions DEF Noted
  <1>5. CASE snapshot[j] = NoDoc
    <2> DEFINE new == NewDoc(e, {})
    <2>1. userResources' = Append(userResources, new)
      BY <1>1, <1>2, <1>5 DEF Upserted
    <2>2. /\ new \in UserResourceDocs /\ new.user = e.user /\ new.deposits = {}
          /\ DocHeld(new) = e.amount
      BY NewDocFields, HeldNew
    <2> HIDE DEF new
    <2>3. Appends(new) /\ DocDeposited(new) = 0 /\ IsFiniteSet(new.deposits)
      BY <2>1, <2>2, AppendedDoc, JobFunctions, DepositedNew, FS_EmptySet
    <2>4. DocHeld(new) = e.amount + 0 /\ Noted(new.user, e.amount, 0)
      BY <1>3, <1>4, <2>2
    <2> QED
      BY <1>3, <1>4, <2>2, <2>3, <2>4, AppendedHistory DEF HistoryInv
  <1>6. CASE snapshot[j] # NoDoc
    <2>1. PICK i \in DOMAIN userResources, doc \in UserResourceDocs : snapshot[j] = <<i, doc>>
      BY <1>2, <1>6 DEF ResourcesInv, JobInv
    <2> DEFINE new == Incremented(userResources[i], e)
    <2>2. /\ userResources' = [userResources EXCEPT ![i] = new]
          /\ userResources[i] = doc
      BY <1>1, <1>2, <1>6, <2>1 DEF Upserted
    <2>3. doc.user = e.user
      <3>1. IsDocOf(snapshot[j][2], job[j])
        BY <1>2, <1>6 DEF HistoryInv, OwnsWork
      <3>2. snapshot[j][2] = doc
        BY <2>1
      <3> QED
        BY <1>1, <3>1, <3>2 DEF IsDocOf
    <2>4. /\ new \in UserResourceDocs /\ SameKey(new, userResources[i])
          /\ new.deposits = userResources[i].deposits
          /\ DocHeld(new) = DocHeld(userResources[i]) + e.amount
      BY <2>2, IncrementedDoc, HeldIncremented
    <2> HIDE DEF new
    <2>5. Changes(i, new) /\ new.user = e.user /\ IsFiniteSet(new.deposits)
      BY <2>2, <2>3, <2>4, ChangedDoc, JobFunctions DEF SameKey, HistoryInv, FiniteDeposits
    <2>6. /\ DocDeposited(new) = DocDeposited(userResources[i])
          /\ DocDeposited(new) \in Int /\ DocHeld(userResources[i]) \in Int
      BY <2>2, <2>4, <2>5, DocSums DEF DocDeposited
    <2>7. /\ DocHeld(new) = DocHeld(userResources[i]) + (e.amount + 0 - 0)
          /\ DocDeposited(new) = DocDeposited(userResources[i]) + 0
      BY <1>3, <2>4, <2>6
    <2> QED
      BY <1>3, <1>4, <2>4, <2>5, <2>7, ChangedHistory DEF HistoryInv
  <1> QED
    BY <1>5, <1>6

LEMMA DecrementHistory ==
    ASSUME ResourcesInv, CatalogInv, HistoryInv, NEW j \in Jobs, NEW a \in Accounts,
           NEW g \in Games, NEW r \in DOMAIN resources, NEW n \in Quantities,
           DecrementResource(j, a, g, r, n)
    PROVE  BalanceIsItsHistory' /\ FiniteDeposits'
  <1> DEFINE e == Entry(a, g, resources[r].collection, r, n)
  <1>1. e.user = a
    BY DEF Entry
  <1>2. PICK i \in DocsOf(e) : userResources' = [userResources EXCEPT ![i].balances[r] = @ - n]
    BY DEF DecrementResource
  <1>3. spent' = [spent EXCEPT ![a] = @ + n] /\ minted' = minted
    BY DEF DecrementResource
  <1>4. r \in Resources /\ n \in Nat
    BY QuantitiesPositive DEF CatalogInv, CatalogTypeOK
  <1>5. /\ i \in DOMAIN userResources /\ userResources[i] \in UserResourceDocs
        /\ userResources[i].user = a
    BY <1>1, <1>2, JobFunctions DEF DocsOf, IsDocOf
  <1> HIDE DEF e
  <1>6. Noted(a, 0, n)
    BY <1>3, <1>4, JobFunctions DEF Noted
  <1> DEFINE new == [userResources[i] EXCEPT !.balances[r] = @ - n]
  <1>7. userResources' = [userResources EXCEPT ![i] = new]
    BY <1>2
  <1>8. /\ new \in UserResourceDocs /\ SameKey(new, userResources[i])
        /\ new.deposits = userResources[i].deposits
        /\ \A s \in Resources : new.balances[s] =
              IF s = r THEN userResources[i].balances[s] - n ELSE userResources[i].balances[s]
    BY <1>4, <1>5, DecrementedDoc
  <1> HIDE DEF new
  <1>9. Changes(i, new) /\ new.user = a /\ IsFiniteSet(new.deposits)
    BY <1>5, <1>7, <1>8, ChangedDoc, JobFunctions DEF SameKey, HistoryInv, FiniteDeposits
  <1>10. DocHeld(new) = DocHeld(userResources[i]) + (0 + 0 - n)
    <2>1. \A s \in Resources : userResources[i].balances[s] \in Int
      BY <1>5, DocTypes
    <2>2. /\ 0 + 0 - n \in Int
          /\ \A s \in Resources : new.balances[s] =
                IF s = r THEN userResources[i].balances[s] + (0 + 0 - n)
                ELSE userResources[i].balances[s]
      BY <1>4, <1>8, <2>1
    <2> QED
      BY <1>4, <1>5, <1>8, <2>2, HeldChanges
  <1>11. DocDeposited(new) = DocDeposited(userResources[i]) + 0
    <2>1. DocDeposited(new) = DocDeposited(userResources[i]) /\ DocDeposited(new) \in Int
      BY <1>8, <1>9, DocSums DEF DocDeposited
    <2> QED
      BY <2>1
  <1> QED
    BY <1>4, <1>5, <1>6, <1>8, <1>9, <1>10, <1>11, ChangedHistory DEF HistoryInv

LEMMA CountHistory ==
    ASSUME ResourcesInv, HistoryInv, NEW j \in Jobs, CountDeposit(j)
    PROVE  BalanceIsItsHistory' /\ FiniteDeposits'
  <1>1. PICK e \in Entries, d \in Deposits : job[j] = e /\ snapshot[j] = d
    BY DEF CountDeposit, ResourcesInv, JobInv, Underway
  <1>2. UNCHANGED <<minted, spent>> /\ e.amount = d.amount /\ e.amount \in Nat
    BY <1>1, EntryTypes DEF CountDeposit, HistoryInv, OwnsWork
  <1>3. CASE userResources' = userResources
    BY <1>2, <1>3, NothingNoted DEF HistoryInv
  <1>4. ASSUME NEW i \in Uncounted(e, d),
               userResources' = [userResources EXCEPT ![i] = Counted(@, e, d)]
        PROVE  BalanceIsItsHistory' /\ FiniteDeposits'
    <2>1. /\ i \in DOMAIN userResources /\ userResources[i] \in UserResourceDocs
          /\ userResources[i].user = e.user /\ d \notin userResources[i].deposits
      BY JobFunctions DEF Uncounted, DocsOf, IsDocOf, TxIds
    <2> DEFINE mid == Incremented(userResources[i], e)
               new == [mid EXCEPT !.deposits = @ \cup {d}]
    <2>2. userResources' = [userResources EXCEPT ![i] = new]
      BY <1>4 DEF Counted
    <2>3. /\ mid \in UserResourceDocs /\ SameKey(mid, userResources[i])
          /\ mid.deposits = userResources[i].deposits
          /\ DocHeld(mid) = DocHeld(userResources[i]) + e.amount
      BY <2>1, IncrementedDoc, HeldIncremented
    <2> HIDE DEF mid
    <2>4. /\ new \in UserResourceDocs /\ SameKey(new, mid)
          /\ new.deposits = mid.deposits \cup {d} /\ new.balances = mid.balances
      BY <2>3, DepositedDoc
    <2> HIDE DEF new
    <2>5. IsFiniteSet(userResources[i].deposits) /\ IsFiniteSet(new.deposits)
      BY <2>1, <2>3, <2>4, FS_AddElement DEF HistoryInv, FiniteDeposits
    <2>6. Changes(i, new) /\ SameKey(new, userResources[i]) /\ new.user = e.user
      BY <2>1, <2>2, <2>3, <2>4, ChangedDoc, JobFunctions DEF SameKey
    <2>7. DocDeposited(new) = DocDeposited(userResources[i]) + e.amount
      BY <1>2, <2>1, <2>3, <2>4, <2>5, DepositedAdded
    <2>8. DocHeld(new) = DocHeld(userResources[i]) + (0 + e.amount - 0)
      <3>1. DocHeld(new) = DocHeld(mid)
        BY <2>4 DEF DocHeld
      <3> QED
        BY <1>2, <2>3, <3>1
    <2>9. Noted(new.user, 0, 0)
      BY <1>2, JobFunctions DEF Noted
    <2> QED
      BY <1>2, <2>1, <2>4, <2>5, <2>6, <2>7, <2>8, <2>9, ChangedHistory DEF HistoryInv
  <1> QED
    BY <1>1, <1>3, <1>4 DEF CountDeposit

LEMMA InsertHistory ==
    ASSUME ResourcesInv, HistoryInv, NEW j \in Jobs, InsertDeposit(j)
    PROVE  BalanceIsItsHistory' /\ FiniteDeposits'
  <1>1. PICK e \in Entries, d \in Deposits : job[j] = e /\ snapshot[j] = d
    BY DEF InsertDeposit, ResourcesInv, JobInv, Underway
  <1>2. UNCHANGED <<minted, spent>> /\ e.amount = d.amount /\ e.amount \in Nat
    BY <1>1, EntryTypes DEF InsertDeposit, HistoryInv, OwnsWork
  <1>3. CASE userResources' = userResources
    BY <1>2, <1>3, NothingNoted DEF HistoryInv
  <1>4. CASE userResources' = Append(userResources, NewDoc(e, {d}))
    <2> DEFINE new == NewDoc(e, {d})
    <2>1. new \in UserResourceDocs /\ new.deposits = {d} /\ DocHeld(new) = e.amount
      BY NewDocFields, HeldNew
    <2>2. userResources' = Append(userResources, new)
      BY <1>4
    <2> HIDE DEF new
    <2>3. Appends(new) /\ DocDeposited(new) = e.amount /\ IsFiniteSet(new.deposits)
      BY <1>2, <2>1, <2>2, AppendedDoc, JobFunctions, DepositedNew, FS_Singleton
    <2>4. DocHeld(new) = 0 + e.amount
      BY <1>2, <2>1
    <2>5. Noted(new.user, 0, 0)
      BY <1>2, JobFunctions DEF Noted
    <2> QED
      BY <1>2, <2>1, <2>3, <2>4, <2>5, AppendedHistory DEF HistoryInv
  <1> QED
    BY <1>1, <1>3, <1>4 DEF InsertDeposit

(* Whatever is interleaved, aborted or handed over again, a player holds    *)
(* over all documents what was minted and deposited, less what was spent:   *)
(* increments, decrements and deposits lose no update of each other.        *)
THEOREM BalancesAreTheirHistory == Spec => []BalanceIsItsHistory
  <1>1. ASSUME Init
        PROVE  HistoryInv
    <2>1. /\ userResources = <<>> /\ minted = [a \in Accounts |-> 0]
          /\ spent = [a \in Accounts |-> 0] /\ jobStage = [j \in Jobs |-> "new"]
      BY <1>1 DEF Init, ResourcesInit
    <2>2. OwnsWork /\ FiniteDeposits
      BY <2>1 DEF OwnsWork, FiniteDeposits
    <2>3. ASSUME NEW a \in Accounts
          PROVE  Balanced(a)
      <3>1. OfUser(a) = {}
        BY <2>1 DEF OfUser
      <3>2. HeldBy(a) = 0 /\ DepositedBy(a) = 0
        BY <3>1, FS_EmptySet, SumZero DEF HeldBy, DepositedBy
      <3> QED
        BY <2>1, <3>2 DEF Balanced
    <2> QED
      BY <2>2, <2>3, HistoryIs DEF HistoryInv
  <1>2. ASSUME ResourcesInv, CatalogInv, HistoryInv, [Next]_vars
        PROVE  HistoryInv'
    <2>1. CASE UNCHANGED resourceVars
      <3>1. OwnsWork'
        BY <1>2, <2>1 DEF resourceVars, jobVars, HistoryInv, OwnsWork
      <3> QED
        BY <1>2, <2>1, <3>1, NothingNoted DEF resourceVars, HistoryInv
    <2>2. ASSUME NEW j \in Jobs, ResourcesStep(j)
          PROVE  HistoryInv'
      <3>1. OwnsWork'
        BY <1>2, <2>2, OwnsWorkStep DEF HistoryInv
      <3>2. CASE UNCHANGED <<userResources, minted, spent>>
        BY <1>2, <3>1, <3>2, NothingNoted DEF HistoryInv
      <3> QED
        BY <1>2, <2>2, <3>1, <3>2, CommitMintHistory, DecrementHistory, CountHistory, InsertHistory
           DEF HistoryInv, ResourcesStep, MintStep, SpendStep, DepositStep, StartMint, AbortMint,
               ResolveDeposit, JobDies
    <2> QED
      BY <1>2, <2>1, <2>2, ResourceCases
  <1>3. HistoryInv => BalanceIsItsHistory
    BY DEF HistoryInv
  <1> QED
    BY <1>1, <1>2, <1>3, UsersInvariance, ResourcesInvariance, PTL DEF Spec
=============================================================================
