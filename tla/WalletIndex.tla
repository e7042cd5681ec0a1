----------------------------- MODULE WalletIndex -----------------------------
(***************************************************************************)
(* The watched wallets: the Redis hash "watch:wallets:<network>"           *)
(* (internal/storage/redis.go) and the in-memory Bloom filter in front of  *)
(* it (internal/storage/bloom.go), as the HTTP API writes them through the *)
(* tracker manager and the block processors read them.                     *)
(*                                                                         *)
(* A filter is what it is in memory: an array of words, in which adding a  *)
(* key sets the bits its hashes select, word by word, by a read followed   *)
(* by a write.  WalletBloom takes its lock only to find or create the      *)
(* filter, so two additions may interleave between the two.                *)
(***************************************************************************)
EXTENDS Integers, FiniteSets

CONSTANTS
    Networks,        \* the networks of the configuration
    FoldedNetworks,  \* those whose addresses are normalised (EVM, TRON)
    Spellings,       \* addresses as clients and chains write them
    Canon,           \* spelling -> its normalised form
    Words, Bits,     \* the filter's bit array
    Hash,            \* key -> the <<word, bit>> pairs its hashes select
    Clients,         \* concurrent API requests
    SeedMayFail,     \* whether reading the wallets at start-up may fail
    MaxRestarts      \* bound: how many times the process restarts

ASSUME IndexAssumption ==
    /\ FoldedNetworks \subseteq Networks
    /\ Canon \in [Spellings -> Spellings]
    /\ Hash \in [Spellings -> SUBSET (Words \X Bits)]
    /\ SeedMayFail \in BOOLEAN
    /\ MaxRestarts \in Nat

VARIABLES
    wallets,   \* network -> the keys of its Redis hash
    filters,   \* the networks whose filter exists
    words,     \* network -> word -> the bits set in it
    seeding,   \* the networks SeedAll has not come to yet
    settled,   \* history: network -> stored keys whose addition has returned
    seeded,    \* history: the networks this process has seeded
    clashed,   \* history: those to which it made two additions at once
    cpc,       \* request -> where it is
    creq,      \* request -> the network and the key it adds
    todo,      \* request -> the bits AddString still has to set
    seen,      \* request -> the word it has read
    lookup,    \* the lookup a processor has under way
    restarts

walletVars == <<wallets, filters, words, seeding, settled, seeded, clashed>>
clientVars == <<cpc, creq, todo, seen>>
vars == <<walletVars, clientVars, lookup, restarts>>

NoLookup == [pc |-> "idle"]
NoRequest == [pc |-> "none"]

Init ==
    /\ wallets = [n \in Networks |-> {}]
    /\ filters = {}
    /\ words = [n \in Networks |-> [i \in Words |-> {}]]
    /\ seeding = Networks
    /\ settled = [n \in Networks |-> {}]
    /\ seeded = {}
    /\ clashed = {}
    /\ cpc = [c \in Clients |-> "idle"]
    /\ creq = [c \in Clients |-> NoRequest]
    /\ todo = [c \in Clients |-> {}]
    /\ seen = [c \in Clients |-> {}]
    /\ lookup = NoLookup
    /\ restarts = 0

-----------------------------------------------------------------------------
(* The address under which a network's wallets are stored and looked up.   *)
Key(n, s) == IF n \in FoldedNetworks THEN Canon[s] ELSE s

(* The filter after all the keys of a set have been added to an empty one. *)
Filled(keys) ==
    [i \in Words |-> {b \in Bits : \E k \in keys : <<i, b>> \in Hash[k]}]

(* TestString on the filter, true when there is none.                      *)
MaybeContains(n, k) ==
    n \in filters => \A p \in Hash[k] : p[2] \in words[n][p[1]]

Serving == seeding = {}

-----------------------------------------------------------------------------
(* NewRedisStorage: SeedAll refreshes one network after the other and      *)
(* gives up at the first that fails; the process goes on without them.     *)

(* Mutant of SeedNetwork: the stored addresses are not added.              *)
SeedNetworkEmpty(n) ==
    /\ n \in seeding
    /\ filters' = filters \cup {n}
    /\ seeding' = seeding \ {n}
    /\ seeded' = seeded \cup {n}
    /\ UNCHANGED <<wallets, words, settled, clashed, clientVars, lookup, restarts>>

SeedNetwork(n) ==
    /\ n \in seeding
    /\ filters' = filters \cup {n}
    /\ words' = [words EXCEPT ![n] = Filled(wallets[n])]
    /\ seeding' = seeding \ {n}
    /\ seeded' = seeded \cup {n}
    /\ UNCHANGED <<wallets, settled, clashed, clientVars, lookup, restarts>>

SeedFails ==
    /\ SeedMayFail
    /\ seeding # {}
    /\ seeding' = {}
    /\ UNCHANGED <<wallets, filters, words, settled, seeded, clashed, clientVars, lookup,
                   restarts>>

-----------------------------------------------------------------------------
(* AddWatchedWallet and RemoveWatchedWallet.                               *)

(* HSET.  When its reply is lost the caller gets an error, and the filter  *)
(* is not updated although the hash is.                                    *)
StoreWallet(c, n, s) ==
    /\ Serving
    /\ cpc[c] = "idle"
    /\ wallets' = [wallets EXCEPT ![n] = @ \cup {Key(n, s)}]
    /\ \/ /\ cpc' = [cpc EXCEPT ![c] = "find"]
          /\ creq' = [creq EXCEPT ![c] = [net |-> n, key |-> Key(n, s)]]
       \/ UNCHANGED <<cpc, creq>>
    /\ lookup' = IF lookup.pc = "get" /\ lookup.net = n /\ lookup.key = Key(n, s)
                 THEN [lookup EXCEPT !.was = TRUE] ELSE lookup
    /\ UNCHANGED <<filters, words, seeding, settled, seeded, clashed, todo, seen,
                   restarts>>

(* The filter is at hand: AddString begins, perhaps beside another one.    *)
BeginAdd(c) ==
    /\ cpc' = [cpc EXCEPT ![c] = "add"]
    /\ todo' = [todo EXCEPT ![c] = Hash[creq[c].key]]
    /\ clashed' = IF \E d \in Clients \ {c} : /\ cpc[d] \in {"add", "set"}
                                             /\ creq[d].net = creq[c].net
                  THEN clashed \cup {creq[c].net} ELSE clashed
    /\ UNCHANGED <<wallets, seeding, settled, seeded, creq, seen, lookup, restarts>>

(* WalletBloom.Add finds the filter under the read lock.                   *)
FindFilter(c) ==
    /\ cpc[c] = "find"
    /\ \/ creq[c].net \in filters /\ BeginAdd(c) /\ UNCHANGED <<filters, words>>
       \/ /\ creq[c].net \notin filters
          /\ cpc' = [cpc EXCEPT ![c] = "create"]
          /\ UNCHANGED <<walletVars, creq, todo, seen, lookup, restarts>>

(* Under the write lock, an empty filter is made unless there is one now.  *)
CreateFilter(c) ==
    /\ cpc[c] = "create"
    /\ filters' = filters \cup {creq[c].net}
    /\ words' = IF creq[c].net \in filters THEN words
                ELSE [words EXCEPT ![creq[c].net] = Filled({})]
    /\ BeginAdd(c)

(* AddString, without a lock: a word is read, and written back with the    *)
(* bit of the key set in it.                                               *)
ReadWord(c) ==
    /\ cpc[c] = "add"
    /\ todo[c] # {}
    /\ LET p == CHOOSE p \in todo[c] : TRUE IN
           seen' = [seen EXCEPT ![c] = words[creq[c].net][p[1]]]
    /\ cpc' = [cpc EXCEPT ![c] = "set"]
    /\ UNCHANGED <<walletVars, creq, todo, lookup, restarts>>

WriteWord(c) ==
    LET p == CHOOSE p \in todo[c] : TRUE IN
    /\ cpc[c] = "set"
    /\ words' = [words EXCEPT ![creq[c].net][p[1]] = seen[c] \cup {p[2]}]
    /\ todo' = [todo EXCEPT ![c] = @ \ {p}]
    /\ cpc' = [cpc EXCEPT ![c] = "add"]
    /\ seen' = [seen EXCEPT ![c] = {}]
    /\ UNCHANGED <<wallets, filters, seeding, settled, seeded, clashed, creq, lookup,
                   restarts>>

AddReturns(c) ==
    /\ cpc[c] = "add"
    /\ todo[c] = {}
    /\ cpc' = [cpc EXCEPT ![c] = "idle"]
    /\ creq' = [creq EXCEPT ![c] = NoRequest]
    /\ settled' = [settled EXCEPT ![creq[c].net] =
                      @ \cup ({creq[c].key} \cap wallets[creq[c].net])]
    /\ UNCHANGED <<wallets, filters, words, seeding, seeded, clashed, todo, seen,
                   lookup, restarts>>

(* HDEL; the filter keeps the bits.                                        *)
RemoveWallet(c, n, s) ==
    /\ Serving
    /\ cpc[c] = "idle"
    /\ wallets' = [wallets EXCEPT ![n] = @ \ {Key(n, s)}]
    /\ settled' = [settled EXCEPT ![n] = @ \ {Key(n, s)}]
    /\ lookup' = IF lookup.pc = "get" /\ lookup.net = n /\ lookup.key = Key(n, s)
                 THEN [lookup EXCEPT !.stays = FALSE] ELSE lookup
    /\ UNCHANGED <<filters, words, seeding, seeded, clashed, clientVars, restarts>>

-----------------------------------------------------------------------------
(* IsWatchedWallet, as a processor calls it for an address of the chain.   *)
(* "stays" and "was" are history: whether the wallet is settled throughout *)
(* the lookup, and whether it was stored at some moment of it; an answer   *)
(* keeps the one that speaks against it.                                   *)
Yes(l) == [pc |-> "yes", was |-> l.was]
No(l) == [pc |-> "no", net |-> l.net, stays |-> l.stays]

(* The fast negative path: the filter, in memory, then perhaps HGET.       *)
TestFilter(n, s) ==
    LET k == Key(n, s)
        l == [pc |-> "get", net |-> n, key |-> k,
              stays |-> k \in settled[n] \cap wallets[n], was |-> k \in wallets[n]]
    IN
    /\ Serving
    /\ lookup.pc # "get"
    /\ lookup' = IF MaybeContains(n, k) THEN l ELSE No(l)
    /\ UNCHANGED <<walletVars, clientVars, restarts>>

(* Mutant of GetWallet: the filter's answer is taken for the exact one.    *)
GetWalletTrusted ==
    /\ lookup.pc = "get"
    /\ lookup' = Yes(lookup)
    /\ UNCHANGED <<walletVars, clientVars, restarts>>

(* HGET.                                                                   *)
GetWallet ==
    /\ lookup.pc = "get"
    /\ lookup' = IF lookup.key \in wallets[lookup.net] THEN Yes(lookup) ELSE No(lookup)
    /\ UNCHANGED <<walletVars, clientVars, restarts>>

(* The process dies and starts again: the filters are gone.                *)
Restart ==
    /\ restarts < MaxRestarts
    /\ restarts' = restarts + 1
    /\ filters' = {}
    /\ words' = [n \in Networks |-> [i \in Words |-> {}]]
    /\ seeding' = Networks
    /\ seeded' = {}
    /\ clashed' = {}
    /\ creq' = [c \in Clients |-> NoRequest]
    /\ cpc' = [c \in Clients |-> "idle"]
    /\ todo' = [c \in Clients |-> {}]
    /\ seen' = [c \in Clients |-> {}]
    /\ lookup' = NoLookup
    /\ UNCHANGED <<wallets, settled>>

ClientStep(c) ==
    \/ \E n \in Networks, s \in Spellings :
          StoreWallet(c, n, s) \/ RemoveWallet(c, n, s)
    \/ FindFilter(c)
    \/ CreateFilter(c)
    \/ ReadWord(c)
    \/ WriteWord(c)
    \/ AddReturns(c)

Next ==
    \/ \E n \in Networks : SeedNetwork(n)
    \/ SeedFails
    \/ \E c \in Clients : ClientStep(c)
    \/ \E n \in Networks, s \in Spellings : TestFilter(n, s)
    \/ GetWallet
    \/ Restart

Spec == Init /\ [][Next]_vars

-----------------------------------------------------------------------------
(* Properties.                                                             *)

Lookups ==
    {NoLookup} \cup
    [pc : {"get"}, net : Networks, key : Spellings,
     stays : BOOLEAN, was : BOOLEAN] \cup
    [pc : {"yes"}, was : BOOLEAN] \cup
    [pc : {"no"}, net : Networks, stays : BOOLEAN]

(* Every variable holds a value of its Go type, and only a filter that     *)
(* exists has bits set.                                                    *)
TypeOK ==
    /\ wallets \in [Networks -> SUBSET Spellings]
    /\ filters \subseteq Networks
    /\ words \in [Networks -> [Words -> SUBSET Bits]]
    /\ seeding \subseteq Networks
    /\ settled \in [Networks -> SUBSET Spellings]
    /\ seeded \subseteq Networks
    /\ clashed \subseteq Networks
    /\ cpc \in [Clients -> {"idle", "find", "create", "add", "set"}]
    /\ creq \in [Clients -> {NoRequest} \cup [net : Networks, key : Spellings]]
    /\ todo \in [Clients -> SUBSET (Words \X Bits)]
    /\ seen \in [Clients -> SUBSET Bits]
    /\ lookup \in Lookups
    /\ restarts \in Nat
    /\ \A n \in Networks \ filters : \A i \in Words : words[n][i] = {}

(* A wallet whose addition had returned before a processor asked, and that *)
(* nobody removed while it asked, is found: the Bloom pre-check of         *)
(* IsWatchedWallet has no false negatives, whichever spelling the chain    *)
(* uses and through restarts.  A deposit to it would be lost otherwise.    *)
(* This is for a network whose filter was seeded, or that has none, and    *)
(* without two additions to it at the same time in this process.           *)
WatchedIsSeen ==
    /\ lookup.pc = "no"
    /\ lookup.net \in seeded \/ lookup.net \notin filters
    /\ lookup.net \notin clashed
    => ~lookup.stays

(* A lookup answers yes only for a wallet that was stored at some moment   *)
(* of it: the append-only filter never makes a removed wallet, or one that *)
(* shares its bits, look watched.                                          *)
UnwatchedIsNotSeen == lookup.pc = "yes" => lookup.was
=============================================================================
