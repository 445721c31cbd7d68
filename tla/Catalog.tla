------------------------------ MODULE Catalog ------------------------------
(***************************************************************************)
(* What studios own: studios have games, games have collections, resource  *)
(* collections have resources. A document is written once and never        *)
(* deleted, and every reference is looked up before the write, so that a   *)
(* creation is one step: nothing it read can change before it writes. The  *)
(* unique indexes decide at the write. A request that is refused changes   *)
(* nothing and is not told from no request.                                *)
(***************************************************************************)
EXTENDS Integers, FiniteSets

CONSTANTS
    Studios, Games, Collections, Resources,   \* the ids MongoDB gives
    Currencies,
    Addresses, WellFormed,  \* contract addresses, those the regex accepts
    MetalCoreGames,         \* the games whose name contains "MetalCore"
    CurrenciesOf,           \* CurrenciesOf[g]: the tokens of the request for g
    ResourceTokens, NoTokenId

ASSUME CatalogAssumption ==
    /\ WellFormed \subseteq Addresses
    /\ MetalCoreGames \subseteq Games
    /\ CurrenciesOf \in [Games -> SUBSET Currencies]
    /\ NoTokenId \notin ResourceTokens

VARIABLES
    studios,      \* the studios that exist
    games,        \* games[g]: the document of each game that exists
    collections,
    resources

catalogVars == <<studios, games, collections, resources>>

-----------------------------------------------------------------------------
GameDocs == [studio : Studios, contract : WellFormed]
CollectionDocs == [game : Games, contract : WellFormed]
ResourceDocs == [collection : Collections, token : ResourceTokens \cup {NoTokenId}]

Stored(docs, id, doc) ==
    [i \in DOMAIN docs \cup {id} |-> IF i = id THEN doc ELSE docs[i]]

(* The finders of the repositories; each throws when it finds nothing.      *)
GameFound(g) == g \in DOMAIN games
CollectionFound(c) == c \in DOMAIN collections
ResourceFound(r) == r \in DOMAIN resources
CollectionsOf(g) == {c \in DOMAIN collections : collections[c].game = g}
CollectionsAt(a) == {c \in DOMAIN collections : collections[c].contract = a}
ResourcesWith(c, t) == {r \in DOMAIN resources : resources[r] = [collection |-> c, token |-> t]}

(* GameAuthenticationMiddleware: the bearer token is the key of a game.     *)
Authenticated(g) == GameFound(g)

(* ContractAddressChecker: the regex of an address.                         *)
IsAddress_Any(a) == TRUE
IsAddress(a) == a \in WellFormed

(* The unique index on contractAddress, of games and of collections.        *)
ContractFree_Never(docs, contract) == TRUE
ContractFree(docs, contract) == \A i \in DOMAIN docs : docs[i].contract # contract

(* StudioModel.create: the name is unique; an error is only logged.         *)
CreateStudio(s) ==
    /\ s \notin studios
    /\ studios' = studios \cup {s}
    /\ UNCHANGED <<games, collections, resources>>

(* GameRepository.create: the studio must exist.                            *)
CreateGame(g, s, a) ==
    /\ ~GameFound(g)
    /\ s \in studios
    /\ ContractFree(games, a)
    /\ games' = Stored(games, g, [studio |-> s, contract |-> a])
    /\ UNCHANGED <<studios, collections, resources>>

(* POST /studios/games, once GameFactory finds the game valid.              *)
ValidGame(a) == IsAddress(a)
PostGame(g) == \E s \in Studios, a \in Addresses : ValidGame(a) /\ CreateGame(g, s, a)

(* CollectionFactory finds the game and checks the address ...              *)
ValidCollection(g, a) == GameFound(g) /\ IsAddress(a)

(* ... and CollectionStorer writes what it made.                            *)
StoreCollection(c, g, a) ==
    /\ ~CollectionFound(c)
    /\ ContractFree(collections, a)
    /\ collections' = Stored(collections, c, [game |-> g, contract |-> a])
    /\ UNCHANGED <<studios, games, resources>>

(* The script createCollection.                                             *)
CreateCollection(c) ==
    \E g \in Games, a \in Addresses : ValidCollection(g, a) /\ StoreCollection(c, g, a)

(* CollectionOwnershipVerifier: it is one of the collections of the game.   *)
OwnsCollection(g, c) == CollectionFound(c) /\ c \in CollectionsOf(g)

(* ResourceRepository.create: no token id is stored.                        *)
CreateResource(r, c) ==
    /\ ~ResourceFound(r)
    /\ resources' = Stored(resources, r, [collection |-> c, token |-> NoTokenId])
    /\ UNCHANGED <<studios, games, collections>>

(* POST /studios/resources by the game g.                                   *)
PostResource(r) ==
    \E g \in Games, c \in Collections :
        Authenticated(g) /\ OwnsCollection(g, c) /\ CreateResource(r, c)

(* Nothing in src/ calls ResourceRepository.update: the token id of a       *)
(* resource is set by hand.                                                 *)
SetResourceToken(r, t) ==
    /\ ResourceFound(r)
    /\ resources[r].token = NoTokenId
    /\ resources' = [resources EXCEPT ![r].token = t]
    /\ UNCHANGED <<studios, games, collections>>

CatalogNext ==
    \/ \E s \in Studios : CreateStudio(s)
    \/ \E g \in Games : PostGame(g)
    \/ \E c \in Collections : CreateCollection(c)
    \/ \E r \in Resources : PostResource(r)
    \/ \E r \in Resources, t \in ResourceTokens : SetResourceToken(r, t)

CatalogTypeOK ==
    /\ studios \subseteq Studios
    /\ DOMAIN games \subseteq Games /\ games \in [DOMAIN games -> GameDocs]
    /\ DOMAIN collections \subseteq Collections
    /\ collections \in [DOMAIN collections -> CollectionDocs]
    /\ DOMAIN resources \subseteq Resources
    /\ resources \in [DOMAIN resources -> ResourceDocs]

(* Every reference of a game, a collection or a resource finds its          *)
(* document, and a contract address finds one game and one collection: the  *)
(* scanners look both up by the address alone (findByContractAddress).      *)
CatalogSound ==
    /\ \A g \in DOMAIN games : games[g].studio \in studios
    /\ \A c \in DOMAIN collections : collections[c].game \in DOMAIN games
    /\ \A r \in DOMAIN resources : resources[r].collection \in DOMAIN collections
    /\ \A g, h \in DOMAIN games : games[g].contract = games[h].contract => g = h
    /\ \A c, d \in DOMAIN collections :
          collections[c].contract = collections[d].contract => c = d
=============================================================================
