-------------------------- MODULE WalletIndexProofs --------------------------
(***************************************************************************)
(* Proofs about WalletIndex, for every set of networks, addresses and      *)
(* concurrent requests, every size of the filters and every choice of hash *)
(* functions: the Bloom filter in front of the wallets of a network has no *)
(* false negatives unless two additions to it ran at once, and a lookup    *)
(* never takes a wallet for watched that was not stored.                   *)
(***************************************************************************)
EXTENDS WalletIndex, TLAPS

-----------------------------------------------------------------------------
(* The inductive invariant.                                                *)

(* A request is in AddString.                                              *)
Adding(c) == cpc[c] \in {"add", "set"}

(* The bits of a set are set in the filter of network n.                   *)
SetIn(n, pairs) == \A p \in pairs : p[2] \in words[n][p[1]]

(* The pair a request is at.                                               *)
One(pairs) == CHOOSE p \in pairs : TRUE
At(c) == One(todo[c])

(* Where the requests are: nothing is served before the filters are seeded *)
(* or given up.                                                            *)
RequestInv ==
    /\ \A c \in Clients :
          /\ cpc[c] # "idle" => creq[c] \in [net : Networks, key : Spellings]
          /\ Adding(c) => creq[c].net \in filters
          /\ cpc[c] = "set" => todo[c] # {}
    /\ seeding # {} => lookup = NoLookup /\ \A c \in Clients : cpc[c] = "idle"
    /\ seeded \subseteq filters
    /\ \A n \in Networks : settled[n] \subseteq wallets[n]

(* Additions to one filter exclude each other until they clash; until then *)
(* the word a request has read is the one it overwrites, what it has done  *)
(* stays done, and a seeded filter has the bits of every settled wallet.   *)
FilterInv ==
    /\ \A c, d \in Clients :
          c # d /\ Adding(c) /\ Adding(d) /\ creq[c].net = creq[d].net
              => creq[c].net \in clashed
    /\ \A c \in Clients : Adding(c) /\ creq[c].net \notin clashed =>
          /\ SetIn(creq[c].net, Hash[creq[c].key] \ todo[c])
          /\ cpc[c] = "set" => seen[c] = words[creq[c].net][At(c)[1]]
    /\ \A n \in seeded \ clashed : \A k \in settled[n] : SetIn(n, Hash[k])

(* What is known in the middle of a lookup and after it.                   *)
LookupInv ==
    /\ lookup.pc = "get" =>
          /\ lookup.key \in wallets[lookup.net] => lookup.was
          /\ lookup.stays => lookup.key \in wallets[lookup.net]
    /\ lookup.pc = "yes" => lookup.was
    /\ lookup.pc = "no" /\ lookup.stays =>
          lookup.net \in (filters \ seeded) \cup clashed

IndInv == RequestInv /\ FilterInv /\ LookupInv

-----------------------------------------------------------------------------
(* Type correctness.                                                       *)

(* A normalised address is an address.                                     *)
LEMMA KeyType ==
    ASSUME NEW n, NEW s \in Spellings
    PROVE  Key(n, s) \in Spellings /\ Hash[Key(n, s)] \subseteq Words \X Bits
BY IndexAssumption DEF Key

(* What the hashes of a key select.                                        *)
LEMMA HashType ==
    ASSUME NEW k \in Spellings
    PROVE  Hash[k] \subseteq Words \X Bits
BY IndexAssumption

(* A lookup is idle, under way or answered.                                *)
LEMMA LookupFacts ==
    ASSUME TypeOK
    PROVE  /\ lookup.pc \in {"idle", "get", "yes", "no"}
           /\ lookup.pc = "get" =>
                 lookup \in [pc : {"get"}, net : Networks, key : Spellings,
                             stays : BOOLEAN, was : BOOLEAN]
           /\ lookup.pc = "yes" => lookup \in [pc : {"yes"}, was : BOOLEAN]
           /\ lookup.pc = "no" =>
                 lookup \in [pc : {"no"}, net : Networks, stays : BOOLEAN]
BY DEF TypeOK, Lookups, NoLookup

(* The pair a request is at is one it has still to set.                    *)
LEMMA AtFacts ==
    ASSUME TypeOK, NEW c \in Clients, todo[c] # {}
    PROVE  At(c) \in todo[c] /\ At(c)[1] \in Words /\ At(c)[2] \in Bits
           /\ At(c) = <<At(c)[1], At(c)[2]>>
<1>1. At(c) \in todo[c]
  BY DEF At, One
<1>2. todo[c] \subseteq Words \X Bits
  BY DEF TypeOK
<1>3. QED BY <1>1, <1>2

(* The keys that a seeded filter has been filled with are in it.           *)
LEMMA FilledFacts ==
    ASSUME NEW keys \in SUBSET Spellings
    PROVE  /\ Filled(keys) \in [Words -> SUBSET Bits]
           /\ \A k \in keys : \A p \in Hash[k] : p[2] \in Filled(keys)[p[1]]
<1>1. Filled(keys) \in [Words -> SUBSET Bits]
  BY DEF Filled
<1>2. ASSUME NEW k \in keys, NEW p \in Hash[k]
      PROVE  p[2] \in Filled(keys)[p[1]]
  <2>1. p \in Words \X Bits
    BY HashType
  <2>2. p[1] \in Words /\ p[2] \in Bits /\ p = <<p[1], p[2]>>
    BY <2>1
  <2>3. QED BY <2>2 DEF Filled
<1>3. QED BY <1>1, <1>2

(* The stored wallets keep their types; those settled are stored.          *)
LEMMA WalletTypes ==
    ASSUME TypeOK, RequestInv, [Next]_vars
    PROVE  /\ wallets' \in [Networks -> SUBSET Spellings]
           /\ settled' \in [Networks -> SUBSET Spellings]
           /\ \A n \in Networks : settled'[n] \subseteq wallets'[n]
<1>a. /\ wallets \in [Networks -> SUBSET Spellings]
      /\ settled \in [Networks -> SUBSET Spellings]
      /\ \A n \in Networks : settled[n] \subseteq wallets[n]
  BY DEF TypeOK, RequestInv
<1>1. ASSUME NEW c \in Clients, NEW n \in Networks, NEW s \in Spellings,
             StoreWallet(c, n, s)
      PROVE  /\ wallets' \in [Networks -> SUBSET Spellings]
             /\ settled' \in [Networks -> SUBSET Spellings]
             /\ \A m \in Networks : settled'[m] \subseteq wallets'[m]
  <2>1. /\ wallets' = [wallets EXCEPT ![n] = @ \cup {Key(n, s)}]
        /\ settled' = settled
    BY <1>1 DEF StoreWallet
  <2>2. QED BY <1>a, <2>1, KeyType
<1>2. ASSUME NEW c \in Clients, NEW n \in Networks, NEW s \in Spellings,
             RemoveWallet(c, n, s)
      PROVE  /\ wallets' \in [Networks -> SUBSET Spellings]
             /\ settled' \in [Networks -> SUBSET Spellings]
             /\ \A m \in Networks : settled'[m] \subseteq wallets'[m]
  <2>1. /\ wallets' = [wallets EXCEPT ![n] = @ \ {Key(n, s)}]
        /\ settled' = [settled EXCEPT ![n] = @ \ {Key(n, s)}]
    BY <1>2 DEF RemoveWallet
  <2>2. QED BY <1>a, <2>1
<1>3. ASSUME NEW c \in Clients, AddReturns(c)
      PROVE  /\ wallets' \in [Networks -> SUBSET Spellings]
             /\ settled' \in [Networks -> SUBSET Spellings]
             /\ \A m \in Networks : settled'[m] \subseteq wallets'[m]
  <2>1. /\ wallets' = wallets
        /\ settled' = [settled EXCEPT ![creq[c].net] =
                          @ \cup ({creq[c].key} \cap wallets[creq[c].net])]
    BY <1>3 DEF AddReturns
  <2>2. creq[c].net \in Networks
    BY <1>3 DEF AddReturns, RequestInv
  <2>3. QED BY <1>a, <2>1, <2>2
<1>4. CASE UNCHANGED <<wallets, settled>>
  BY <1>a, <1>4
<1>5. QED
  BY <1>1, <1>2, <1>3, <1>4
  DEF Next, SeedNetwork, SeedFails, ClientStep, FindFilter, CreateFilter,
      BeginAdd, ReadWord, WriteWord, TestFilter, GetWallet, Restart, vars,
      walletVars

(* The filters keep their types.                                           *)
LEMMA FilterTypes ==
    ASSUME TypeOK, RequestInv, [Next]_vars
    PROVE  /\ filters' \subseteq Networks
           /\ words' \in [Networks -> [Words -> SUBSET Bits]]
           /\ \A n \in Networks \ filters' : \A i \in Words : words'[n][i] = {}
<1>a. /\ filters \subseteq Networks
      /\ words \in [Networks -> [Words -> SUBSET Bits]]
      /\ \A n \in Networks \ filters : \A i \in Words : words[n][i] = {}
  BY DEF TypeOK
<1>1. ASSUME NEW n \in Networks, NEW keys \in SUBSET Spellings,
             filters' = filters \cup {n},
             words' \in {words, [words EXCEPT ![n] = Filled(keys)]}
      PROVE  /\ filters' \subseteq Networks
             /\ words' \in [Networks -> [Words -> SUBSET Bits]]
             /\ \A m \in Networks \ filters' : \A i \in Words : words'[m][i] = {}
  BY <1>a, <1>1, FilledFacts
<1>2. ASSUME NEW n \in Networks, SeedNetwork(n)
      PROVE  /\ filters' \subseteq Networks
             /\ words' \in [Networks -> [Words -> SUBSET Bits]]
             /\ \A m \in Networks \ filters' : \A i \in Words : words'[m][i] = {}
  <2>1. wallets[n] \in SUBSET Spellings
    BY DEF TypeOK
  <2>2. QED BY <1>1, <1>2, <2>1 DEF SeedNetwork
<1>3. ASSUME NEW c \in Clients, CreateFilter(c)
      PROVE  /\ filters' \subseteq Networks
             /\ words' \in [Networks -> [Words -> SUBSET Bits]]
             /\ \A m \in Networks \ filters' : \A i \in Words : words'[m][i] = {}
  <2>1. creq[c].net \in Networks
    BY <1>3 DEF CreateFilter, RequestInv
  <2>2. {} \in SUBSET Spellings
    OBVIOUS
  <2>3. QED BY <1>1, <1>3, <2>1, <2>2 DEF CreateFilter
<1>4. ASSUME NEW c \in Clients, WriteWord(c)
      PROVE  /\ filters' \subseteq Networks
             /\ words' \in [Networks -> [Words -> SUBSET Bits]]
             /\ \A m \in Networks \ filters' : \A i \in Words : words'[m][i] = {}
  <2>1. /\ cpc[c] = "set" /\ filters' = filters
        /\ words' = [words EXCEPT ![creq[c].net][At(c)[1]] = seen[c] \cup {At(c)[2]}]
    BY <1>4 DEF WriteWord, At, One
  <2>2. creq[c].net \in filters /\ todo[c] # {}
    BY <2>1 DEF RequestInv, Adding
  <2>3. At(c)[1] \in Words /\ seen[c] \cup {At(c)[2]} \in SUBSET Bits
    BY <2>2, AtFacts DEF TypeOK
  <2>4. QED BY <1>a, <2>1, <2>2, <2>3
<1>5. CASE Restart
  BY <1>5 DEF Restart
<1>6. CASE UNCHANGED <<filters, words>>
  BY <1>a, <1>6
<1>7. QED
  BY <1>2, <1>3, <1>4, <1>5, <1>6
  DEF Next, SeedFails, ClientStep, StoreWallet, RemoveWallet, FindFilter,
      ReadWord, AddReturns, TestFilter, GetWallet, vars, walletVars

(* What a step of a request changes: at most its own place, and never to   *)
(* the disadvantage of what it is at.                                      *)
LEMMA ClientTypes ==
    ASSUME TypeOK, RequestInv, [Next]_vars
    PROVE  /\ cpc' \in [Clients -> {"idle", "find", "create", "add", "set"}]
           /\ creq' \in [Clients -> {NoRequest} \cup [net : Networks, key : Spellings]]
           /\ todo' \in [Clients -> SUBSET (Words \X Bits)]
           /\ seen' \in [Clients -> SUBSET Bits]
<1>a. /\ cpc \in [Clients -> {"idle", "find", "create", "add", "set"}]
      /\ creq \in [Clients -> {NoRequest} \cup [net : Networks, key : Spellings]]
      /\ todo \in [Clients -> SUBSET (Words \X Bits)]
      /\ seen \in [Clients -> SUBSET Bits]
  BY DEF TypeOK
<1>1. ASSUME NEW c \in Clients, NEW n \in Networks, NEW s \in Spellings,
             StoreWallet(c, n, s)
      PROVE  /\ cpc' \in [Clients -> {"idle", "find", "create", "add", "set"}]
             /\ creq' \in [Clients -> {NoRequest} \cup [net : Networks, key : Spellings]]
             /\ UNCHANGED <<todo, seen>>
  <2>1. \/ UNCHANGED <<cpc, creq>>
        \/ /\ cpc' = [cpc EXCEPT ![c] = "find"]
           /\ creq' = [creq EXCEPT ![c] = [net |-> n, key |-> Key(n, s)]]
    BY <1>1 DEF StoreWallet
  <2>2. UNCHANGED <<todo, seen>>
    BY <1>1 DEF StoreWallet
  <2>3. QED BY <1>a, <2>1, <2>2, KeyType
<1>2. ASSUME NEW c \in Clients, BeginAdd(c), cpc[c] # "idle"
      PROVE  /\ cpc' \in [Clients -> {"idle", "find", "create", "add", "set"}]
             /\ todo' \in [Clients -> SUBSET (Words \X Bits)]
             /\ UNCHANGED <<creq, seen>>
  <2>1. /\ cpc' = [cpc EXCEPT ![c] = "add"]
        /\ todo' = [todo EXCEPT ![c] = Hash[creq[c].key]]
        /\ UNCHANGED <<creq, seen>>
    BY <1>2 DEF BeginAdd
  <2>2. creq[c].key \in Spellings
    BY <1>2 DEF RequestInv
  <2>3. QED BY <1>a, <2>1, <2>2, HashType
<1>3. ASSUME NEW c \in Clients, FindFilter(c) \/ CreateFilter(c)
      PROVE  /\ cpc' \in [Clients -> {"idle", "find", "create", "add", "set"}]
             /\ todo' \in [Clients -> SUBSET (Words \X Bits)]
             /\ UNCHANGED <<creq, seen>>
  <2>1. CASE BeginAdd(c)
    BY <1>2, <1>3, <2>1 DEF FindFilter, CreateFilter
  <2>2. CASE cpc' = [cpc EXCEPT ![c] = "create"] /\ UNCHANGED <<creq, todo, seen>>
    BY <1>a, <2>2
  <2>3. QED BY <1>3, <2>1, <2>2 DEF FindFilter, CreateFilter
<1>4. ASSUME NEW c \in Clients, ReadWord(c)
      PROVE  /\ cpc' \in [Clients -> {"idle", "find", "create", "add", "set"}]
             /\ seen' \in [Clients -> SUBSET Bits]
             /\ UNCHANGED <<creq, todo>>
  <2>1. /\ cpc[c] = "add" /\ todo[c] # {}
        /\ cpc' = [cpc EXCEPT ![c] = "set"]
        /\ seen' = [seen EXCEPT ![c] = words[creq[c].net][At(c)[1]]]
        /\ UNCHANGED <<creq, todo>>
    BY <1>4 DEF ReadWord, At, One
  <2>2. creq[c].net \in Networks /\ At(c)[1] \in Words
    BY <2>1, AtFacts DEF RequestInv
  <2>3. words[creq[c].net][At(c)[1]] \in SUBSET Bits
    BY <2>2 DEF TypeOK
  <2>4. QED BY <1>a, <2>1, <2>3
<1>5. ASSUME NEW c \in Clients, WriteWord(c)
      PROVE  /\ cpc' \in [Clients -> {"idle", "find", "create", "add", "set"}]
             /\ todo' \in [Clients -> SUBSET (Words \X Bits)]
             /\ seen' \in [Clients -> SUBSET Bits]
             /\ creq' = creq
  <2>1. /\ cpc' = [cpc EXCEPT ![c] = "add"]
        /\ todo' = [todo EXCEPT ![c] = @ \ {At(c)}]
        /\ seen' = [seen EXCEPT ![c] = {}]
        /\ creq' = creq
    BY <1>5 DEF WriteWord, At, One
  <2>2. QED BY <1>a, <2>1
<1>6. ASSUME NEW c \in Clients, AddReturns(c)
      PROVE  /\ cpc' \in [Clients -> {"idle", "find", "create", "add", "set"}]
             /\ creq' \in [Clients -> {NoRequest} \cup [net : Networks, key : Spellings]]
             /\ UNCHANGED <<todo, seen>>
  BY <1>a, <1>6 DEF AddReturns
<1>7. CASE Restart
  BY <1>7 DEF Restart
<1>8. CASE UNCHANGED <<cpc, creq, todo, seen>>
  BY <1>a, <1>8
<1>9. QED
  BY <1>a, <1>1, <1>3, <1>4, <1>5, <1>6, <1>7, <1>8
  DEF Next, SeedNetwork, SeedFails, ClientStep, RemoveWallet, TestFilter,
      GetWallet, vars, clientVars

(* The history keeps its types.                                            *)
LEMMA HistoryTypes ==
    ASSUME TypeOK, RequestInv, [Next]_vars
    PROVE  /\ seeding' \subseteq Networks /\ seeded' \subseteq Networks
           /\ clashed' \subseteq Networks /\ restarts' \in Nat
<1>1. seeding' \subseteq Networks /\ seeded' \subseteq Networks
  BY DEF TypeOK, Next, SeedNetwork, SeedFails, ClientStep, StoreWallet,
         RemoveWallet, FindFilter, CreateFilter, BeginAdd, ReadWord, WriteWord,
         AddReturns, TestFilter, GetWallet, Restart, vars, walletVars
<1>2. clashed' \subseteq Networks
  <2>1. ASSUME NEW c \in Clients, BeginAdd(c), cpc[c] # "idle"
        PROVE  clashed' \subseteq Networks
    <3>1. clashed' \subseteq clashed \cup {creq[c].net}
      BY <2>1 DEF BeginAdd
    <3>2. QED BY <2>1, <3>1 DEF RequestInv, TypeOK
  <2>2. ASSUME NEW c \in Clients, FindFilter(c) \/ CreateFilter(c)
        PROVE  clashed' \subseteq Networks
    BY <2>1, <2>2 DEF FindFilter, CreateFilter, walletVars, TypeOK
  <2>3. QED
    BY <2>2 DEF TypeOK, Next, SeedNetwork, SeedFails, ClientStep, StoreWallet,
         RemoveWallet, ReadWord, WriteWord, AddReturns, TestFilter, GetWallet,
         Restart, vars, walletVars
<1>3. restarts' \in Nat
  <2>1. restarts' \in {restarts, restarts + 1}
    BY DEF Next, SeedNetwork, SeedFails, ClientStep, StoreWallet,
         RemoveWallet, FindFilter, CreateFilter, BeginAdd, ReadWord, WriteWord,
         AddReturns, TestFilter, GetWallet, Restart, vars
  <2>2. restarts \in Nat
    BY DEF TypeOK
  <2>3. QED BY <2>1, <2>2
<1>4. QED BY <1>1, <1>2, <1>3

(* A lookup keeps its type.                                                *)
LEMMA LookupTypes ==
    ASSUME TypeOK, [Next]_vars
    PROVE  lookup' \in Lookups
<1>a. lookup \in Lookups
  BY DEF TypeOK
<1>1. CASE lookup.pc = "get" /\ lookup' = [lookup EXCEPT !.was = TRUE]
  BY <1>1, LookupFacts DEF Lookups
<1>2. CASE lookup.pc = "get" /\ lookup' = [lookup EXCEPT !.stays = FALSE]
  BY <1>2, LookupFacts DEF Lookups
<1>3. ASSUME NEW n \in Networks, NEW s \in Spellings, TestFilter(n, s)
      PROVE  lookup' \in Lookups
  <2>1. Key(n, s) \in Spellings
    BY KeyType
  <2> DEFINE st == Key(n, s) \in settled[n] \cap wallets[n]
             wa == Key(n, s) \in wallets[n]
             get == [pc |-> "get", net |-> n, key |-> Key(n, s), stays |-> st,
                     was |-> wa]
  <2>2. lookup' = IF MaybeContains(n, Key(n, s)) THEN get ELSE No(get)
    BY <1>3 DEF TestFilter
  <2>3. st \in BOOLEAN /\ wa \in BOOLEAN
    OBVIOUS
  <2>4. No(get) = [pc |-> "no", net |-> n, stays |-> st]
    BY DEF No
  <2> HIDE DEF st, wa
  <2>5. get \in Lookups
    BY <2>1, <2>3 DEF Lookups
  <2>6. No(get) \in Lookups
    BY <2>3, <2>4 DEF Lookups
  <2>7. QED BY <2>2, <2>5, <2>6
<1>4. CASE GetWallet
  <2>1. lookup \in [pc : {"get"}, net : Networks, key : Spellings,
                    stays : BOOLEAN, was : BOOLEAN]
    BY <1>4, LookupFacts DEF GetWallet
  <2>2. lookup' \in {Yes(lookup), No(lookup)}
    BY <1>4 DEF GetWallet
  <2>3. QED BY <2>1, <2>2 DEF Yes, No, Lookups
<1>5. CASE lookup' = lookup \/ lookup' = NoLookup
  BY <1>a, <1>5 DEF Lookups
<1>6. QED
  BY <1>1, <1>2, <1>3, <1>4, <1>5
  DEF Next, SeedNetwork, SeedFails, ClientStep, StoreWallet, RemoveWallet,
      FindFilter, CreateFilter, BeginAdd, ReadWord, WriteWord, AddReturns,
      Restart, vars

-----------------------------------------------------------------------------
(* Where the requests are.                                                 *)

(* The filter is at hand when AddString begins.                            *)
LEMMA BeginFacts ==
    ASSUME TypeOK, RequestInv, NEW c \in Clients, FindFilter(c) \/ CreateFilter(c),
           cpc'[c] # "create"
    PROVE  /\ BeginAdd(c) /\ cpc[c] # "idle" /\ ~Adding(c)
           /\ creq[c] \in [net : Networks, key : Spellings]
           /\ filters' = filters \cup {creq[c].net}
           /\ \/ words' = words
              \/ /\ creq[c].net \notin filters
                 /\ words' = [words EXCEPT ![creq[c].net] = Filled({})]
<1>1. cpc[c] \in {"find", "create"} /\ cpc[c] # "idle" /\ ~Adding(c)
  BY DEF FindFilter, CreateFilter, Adding
<1>2. BeginAdd(c)
  BY DEF FindFilter, CreateFilter, TypeOK
<1>3. creq[c] \in [net : Networks, key : Spellings]
  BY <1>1 DEF RequestInv
<1>4. /\ filters' = filters \cup {creq[c].net}
      /\ \/ words' = words
         \/ /\ creq[c].net \notin filters
            /\ words' = [words EXCEPT ![creq[c].net] = Filled({})]
  BY DEF FindFilter, CreateFilter, walletVars, TypeOK
<1>5. QED BY <1>1, <1>2, <1>3, <1>4

(* Before the filters are seeded nobody is served.                         *)
LEMMA NotServing ==
    ASSUME TypeOK, RequestInv, [Next]_vars, seeding # {}
    PROVE  \/ \E n \in Networks : SeedNetwork(n)
           \/ SeedFails \/ Restart \/ UNCHANGED vars
<1>1. lookup = NoLookup /\ \A c \in Clients : cpc[c] = "idle"
  BY DEF RequestInv
<1>2. lookup.pc # "get"
  BY <1>1 DEF NoLookup
<1>3. ~GetWallet
  BY <1>2 DEF GetWallet
<1>4. ASSUME NEW c \in Clients PROVE ~ClientStep(c)
  BY <1>1 DEF ClientStep, StoreWallet, RemoveWallet, FindFilter, CreateFilter,
              ReadWord, WriteWord, AddReturns, Serving
<1>5. \A n \in Networks, s \in Spellings : ~TestFilter(n, s)
  BY DEF TestFilter, Serving
<1>6. QED BY <1>3, <1>4, <1>5 DEF Next

(* The steps of a request.                                                 *)
LEMMA ClientRequest ==
    ASSUME TypeOK, RequestInv, NEW c \in Clients, ClientStep(c), NEW d \in Clients
    PROVE  /\ cpc'[d] # "idle" => creq'[d] \in [net : Networks, key : Spellings]
           /\ cpc'[d] \in {"add", "set"} => creq'[d].net \in filters'
           /\ cpc'[d] = "set" => todo'[d] # {}
           /\ filters \subseteq filters'
<1>a. /\ cpc[d] # "idle" => creq[d] \in [net : Networks, key : Spellings]
      /\ cpc[d] \in {"add", "set"} => creq[d].net \in filters
      /\ cpc[d] = "set" => todo[d] # {}
  BY DEF RequestInv, Adding
<1>b. /\ cpc \in [Clients -> {"idle", "find", "create", "add", "set"}]
      /\ creq \in [Clients -> {NoRequest} \cup [net : Networks, key : Spellings]]
      /\ todo \in [Clients -> SUBSET (Words \X Bits)]
  BY DEF TypeOK
<1>1. ASSUME NEW n \in Networks, NEW s \in Spellings, StoreWallet(c, n, s)
      PROVE  /\ cpc'[d] # "idle" => creq'[d] \in [net : Networks, key : Spellings]
             /\ cpc'[d] \in {"add", "set"} => creq'[d].net \in filters'
             /\ cpc'[d] = "set" => todo'[d] # {}
             /\ filters \subseteq filters'
  <2>1. UNCHANGED <<filters, todo>>
    BY <1>1 DEF StoreWallet
  <2>2. CASE UNCHANGED <<cpc, creq>>
    BY <1>a, <2>1, <2>2
  <2>3. CASE /\ cpc' = [cpc EXCEPT ![c] = "find"]
             /\ creq' = [creq EXCEPT ![c] = [net |-> n, key |-> Key(n, s)]]
    BY <1>a, <1>b, <2>1, <2>3, KeyType
  <2>4. QED BY <1>1, <2>2, <2>3 DEF StoreWallet
<1>2. CASE FindFilter(c) \/ CreateFilter(c)
  <2>1. CASE cpc'[c] # "create"
    <3>1. /\ cpc' = [cpc EXCEPT ![c] = "add"] /\ creq' = creq
          /\ todo' = [todo EXCEPT ![c] = Hash[creq[c].key]]
          /\ creq[c] \in [net : Networks, key : Spellings]
          /\ filters' = filters \cup {creq[c].net}
      BY <1>2, <2>1, BeginFacts DEF BeginAdd
    <3>2. QED BY <1>a, <1>b, <3>1
  <2>2. CASE cpc'[c] = "create"
    <3>1. /\ cpc[c] = "find" /\ cpc' = [cpc EXCEPT ![c] = "create"]
          /\ UNCHANGED <<creq, todo, filters>>
      BY <1>2, <1>b, <2>2 DEF FindFilter, CreateFilter, BeginAdd, walletVars
    <3>2. QED BY <1>a, <1>b, <3>1
  <2>3. QED BY <2>1, <2>2
<1>3. CASE ReadWord(c)
  <2>1. /\ cpc[c] = "add" /\ todo[c] # {} /\ cpc' = [cpc EXCEPT ![c] = "set"]
        /\ UNCHANGED <<creq, todo, filters>>
    BY <1>3 DEF ReadWord, walletVars
  <2>2. QED BY <1>a, <1>b, <2>1
<1>4. CASE WriteWord(c)
  <2>1. /\ cpc[c] = "set" /\ cpc' = [cpc EXCEPT ![c] = "add"]
        /\ todo' = [todo EXCEPT ![c] = @ \ {At(c)}]
        /\ UNCHANGED <<creq, filters>>
    BY <1>4 DEF WriteWord, At, One
  <2>2. QED BY <1>a, <1>b, <2>1
<1>5. CASE AddReturns(c)
  <2>1. /\ cpc' = [cpc EXCEPT ![c] = "idle"]
        /\ creq' = [creq EXCEPT ![c] = NoRequest]
        /\ UNCHANGED <<todo, filters>>
    BY <1>5 DEF AddReturns
  <2>2. QED BY <1>a, <1>b, <2>1
<1>6. CASE \E n \in Networks, s \in Spellings : RemoveWallet(c, n, s)
  BY <1>a, <1>6 DEF RemoveWallet, clientVars
<1>7. QED BY <1>1, <1>2, <1>3, <1>4, <1>5, <1>6 DEF ClientStep

(* Every step keeps the requests in order.                                 *)
LEMMA RequestNext ==
    ASSUME TypeOK, RequestInv, [Next]_vars
    PROVE  RequestInv'
<1>1. ASSUME NEW d \in Clients
      PROVE  /\ cpc'[d] # "idle" => creq'[d] \in [net : Networks, key : Spellings]
             /\ cpc'[d] \in {"add", "set"} => creq'[d].net \in filters'
             /\ cpc'[d] = "set" => todo'[d] # {}
  <2>1. CASE \E c \in Clients : ClientStep(c)
    BY <2>1, ClientRequest
  <2>2. CASE Restart
    BY <2>2 DEF Restart
  <2>3. CASE UNCHANGED clientVars /\ filters \subseteq filters'
    <3>1. UNCHANGED <<cpc, creq, todo>>
      BY <2>3 DEF clientVars
    <3>2. QED BY <2>3, <3>1 DEF RequestInv, Adding
  <2>4. QED
    BY <2>1, <2>2, <2>3
    DEF Next, SeedNetwork, SeedFails, TestFilter, GetWallet, vars, walletVars
<1>2. seeding' # {} => lookup' = NoLookup /\ \A c \in Clients : cpc'[c] = "idle"
  <2>1. CASE Restart
    BY <2>1 DEF Restart
  <2>2. CASE seeding # {} /\ ~Restart
    <3>1. UNCHANGED <<lookup, cpc>>
      BY <2>2, NotServing DEF SeedNetwork, SeedFails, vars, clientVars
    <3>2. QED BY <2>2, <3>1 DEF RequestInv
  <2>3. CASE seeding = {} /\ ~Restart
    <3>1. seeding' = {}
      BY <2>3 DEF Next, SeedNetwork, SeedFails, ClientStep, StoreWallet,
         RemoveWallet, FindFilter, CreateFilter, BeginAdd, ReadWord, WriteWord,
         AddReturns, TestFilter, GetWallet, vars, walletVars
    <3>2. QED BY <3>1
  <2>4. QED BY <2>1, <2>2, <2>3
<1>3. seeded' \subseteq filters'
  <2>1. CASE \E c \in Clients : ClientStep(c)
    <3>1. filters \subseteq filters'
      BY <2>1, ClientRequest
    <3>2. seeded' = seeded
      BY <2>1 DEF ClientStep, StoreWallet, RemoveWallet, FindFilter, CreateFilter,
                  BeginAdd, ReadWord, WriteWord, AddReturns, walletVars
    <3>3. QED BY <3>1, <3>2 DEF RequestInv
  <2>2. CASE ~ \E c \in Clients : ClientStep(c)
    BY <2>2 DEF RequestInv, Next, SeedNetwork, SeedFails, TestFilter, GetWallet,
                Restart, vars, walletVars
  <2>3. QED BY <2>1, <2>2
<1>4. QED BY <1>1, <1>2, <1>3, WalletTypes DEF RequestInv, Adding

(* At the start there are neither requests nor filters.                    *)
LEMMA StructureInit == Init => TypeOK /\ RequestInv
<1> SUFFICES ASSUME Init PROVE TypeOK /\ RequestInv
  OBVIOUS
<1>1. TypeOK
  BY DEF Init, TypeOK, Lookups
<1>2. RequestInv
  BY DEF Init, RequestInv, Adding
<1>3. QED BY <1>1, <1>2

(* Every variable keeps its type, only a filter that exists has bits set,  *)
(* and nobody is served before the filters are seeded or given up.         *)
THEOREM TypeCorrect == Spec => [](TypeOK /\ RequestInv)
<1>1. TypeOK /\ RequestInv /\ [Next]_vars => TypeOK' /\ RequestInv'
  <2> SUFFICES ASSUME TypeOK, RequestInv, [Next]_vars
               PROVE  TypeOK' /\ RequestInv'
    OBVIOUS
  <2>1. TypeOK'
    BY WalletTypes, FilterTypes, ClientTypes, HistoryTypes, LookupTypes DEF TypeOK
  <2>2. QED BY <2>1, RequestNext
<1>2. QED BY <1>1, StructureInit, PTL DEF Spec

-----------------------------------------------------------------------------
(* The filters have no false negatives.                                    *)

(* As long as no filter loses a bit, no request comes into AddString or    *)
(* loses its place there, and nothing else is seeded or settled, all is    *)
(* kept.                                                                   *)
LEMMA FilterFrame ==
    ASSUME TypeOK, RequestInv, FilterInv,
           UNCHANGED <<words, seeded, clashed>>,
           \A n \in Networks : settled'[n] \subseteq settled[n],
           \A c \in Clients : cpc'[c] \in {"add", "set"} =>
               UNCHANGED <<cpc[c], creq[c], todo[c], seen[c]>>
    PROVE  FilterInv'
<1>1. ASSUME NEW c \in Clients, NEW d \in Clients, c # d, Adding(c)', Adding(d)',
             creq'[c].net = creq'[d].net
      PROVE  creq'[c].net \in clashed'
  BY <1>1 DEF Adding, FilterInv
<1>2. ASSUME NEW c \in Clients, Adding(c)', creq'[c].net \notin clashed'
      PROVE  /\ SetIn(creq[c].net, Hash[creq[c].key] \ todo[c])'
             /\ cpc'[c] = "set" => seen'[c] = words'[creq'[c].net][At(c)'[1]]
  <2>1. /\ cpc'[c] = cpc[c] /\ creq'[c] = creq[c] /\ todo'[c] = todo[c]
        /\ seen'[c] = seen[c] /\ words' = words /\ clashed' = clashed
    BY <1>2 DEF Adding
  <2>2. Adding(c) /\ creq[c].net \notin clashed
    BY <1>2, <2>1 DEF Adding
  <2>3. /\ SetIn(creq[c].net, Hash[creq[c].key] \ todo[c])
        /\ cpc[c] = "set" => seen[c] = words[creq[c].net][At(c)[1]]
    BY <2>2 DEF FilterInv
  <2>4. At(c)' = At(c)
    BY <2>1 DEF At
  <2>5. QED BY <2>1, <2>3, <2>4 DEF SetIn
<1>3. ASSUME NEW n \in seeded' \ clashed', NEW k \in settled'[n]
      PROVE  SetIn(n, Hash[k])'
  <2>1. n \in seeded \ clashed /\ n \in Networks
    BY DEF TypeOK
  <2>2. k \in settled[n]
    BY <2>1
  <2>3. SetIn(n, Hash[k])
    BY <2>1, <2>2 DEF FilterInv
  <2>4. QED BY <2>3 DEF SetIn
<1>4. QED BY <1>1, <1>2, <1>3 DEF FilterInv

(* SeedNetwork puts every stored wallet into the filter.                   *)
LEMMA SeedFilter ==
    ASSUME TypeOK, RequestInv, FilterInv, NEW n \in Networks, SeedNetwork(n)
    PROVE  FilterInv'
<1>a. /\ words' = [words EXCEPT ![n] = Filled(wallets[n])]
      /\ seeded' = seeded \cup {n} /\ n \in seeding
      /\ UNCHANGED <<settled, clashed, cpc>>
  BY DEF SeedNetwork, clientVars
<1>b. \A c \in Clients : ~Adding(c)'
  BY <1>a DEF RequestInv, Adding
<1>c. wallets[n] \in SUBSET Spellings /\ settled[n] \subseteq wallets[n]
  BY DEF TypeOK, RequestInv
<1>1. ASSUME NEW m \in seeded' \ clashed', NEW k \in settled'[m]
      PROVE  SetIn(m, Hash[k])'
  <2>1. CASE m = n
    <3>1. words'[m] = Filled(wallets[n])
      BY <1>a, <2>1 DEF TypeOK
    <3>2. k \in wallets[n]
      BY <1>a, <1>c, <2>1
    <3>3. \A p \in Hash[k] : p[2] \in Filled(wallets[n])[p[1]]
      BY <1>c, <3>2, FilledFacts
    <3>4. QED BY <3>1, <3>3 DEF SetIn
  <2>2. CASE m # n
    <3>1. m \in seeded \ clashed /\ k \in settled[m] /\ words'[m] = words[m]
      BY <1>a, <2>2 DEF TypeOK
    <3>2. QED BY <3>1 DEF FilterInv, SetIn
  <2>3. QED BY <2>1, <2>2
<1>2. QED BY <1>b, <1>1 DEF FilterInv

(* A request that comes into AddString has set nothing yet, and clashes    *)
(* with one that is already there.                                         *)
LEMMA BeginFilter ==
    ASSUME TypeOK, RequestInv, FilterInv, NEW c \in Clients,
           FindFilter(c) \/ CreateFilter(c), cpc'[c] # "create"
    PROVE  FilterInv'
<1> DEFINE net == creq[c].net
<1>a. /\ BeginAdd(c) /\ ~Adding(c) /\ net \in Networks
      /\ \/ words' = words
         \/ net \notin filters /\ words' = [words EXCEPT ![net] = Filled({})]
  BY BeginFacts
<1>b. /\ cpc' = [cpc EXCEPT ![c] = "add"]
      /\ todo' = [todo EXCEPT ![c] = Hash[creq[c].key]]
      /\ clashed' = IF \E d \in Clients \ {c} : Adding(d) /\ creq[d].net = net
                    THEN clashed \cup {net} ELSE clashed
      /\ UNCHANGED <<settled, seeded, creq, seen>>
  BY <1>a DEF BeginAdd, Adding
<1>c. clashed \subseteq clashed'
  BY <1>b
<1>d. \A m \in filters : words'[m] = words[m]
  BY <1>a DEF TypeOK
<1>e. cpc'[c] = "add" /\ todo'[c] = Hash[creq[c].key]
  BY <1>b DEF TypeOK
<1>f. \A d \in Clients \ {c} : cpc'[d] = cpc[d] /\ todo'[d] = todo[d]
  BY <1>b DEF TypeOK
<1>g. \A d \in Clients \ {c} : Adding(d)' <=> Adding(d)
  BY <1>f DEF Adding
<1>1. ASSUME NEW d \in Clients, NEW e \in Clients, d # e, Adding(d)', Adding(e)',
             creq'[d].net = creq'[e].net
      PROVE  creq'[d].net \in clashed'
  <2>1. creq' = creq
    BY <1>b
  <2>2. CASE d = c
    BY <1>b, <1>g, <1>1, <2>1, <2>2
  <2>3. CASE e = c
    BY <1>b, <1>g, <1>1, <2>1, <2>3
  <2>4. CASE d # c /\ e # c
    BY <1>c, <1>g, <1>1, <2>1, <2>4 DEF FilterInv
  <2>5. QED BY <2>2, <2>3, <2>4
<1>2. ASSUME NEW d \in Clients, Adding(d)', creq'[d].net \notin clashed'
      PROVE  /\ SetIn(creq[d].net, Hash[creq[d].key] \ todo[d])'
             /\ cpc'[d] = "set" => seen'[d] = words'[creq'[d].net][At(d)'[1]]
  <2>1. CASE d = c
    <3>1. Hash[creq'[c].key] \ todo'[c] = {}
      BY <1>b, <1>e
    <3>2. QED BY <1>e, <2>1, <3>1 DEF SetIn
  <2>2. CASE d # c
    <3>1. /\ cpc'[d] = cpc[d] /\ creq'[d] = creq[d] /\ todo'[d] = todo[d]
          /\ seen'[d] = seen[d] /\ Adding(d) /\ creq[d].net \notin clashed
      BY <1>b, <1>c, <1>f, <1>g, <1>2, <2>2
    <3>2. words'[creq[d].net] = words[creq[d].net]
      BY <1>d, <3>1 DEF RequestInv
    <3>3. /\ SetIn(creq[d].net, Hash[creq[d].key] \ todo[d])
          /\ cpc[d] = "set" => seen[d] = words[creq[d].net][At(d)[1]]
      BY <3>1 DEF FilterInv
    <3>4. At(d)' = At(d)
      BY <3>1 DEF At
    <3>5. QED BY <3>1, <3>2, <3>3, <3>4 DEF SetIn
  <2>3. QED BY <2>1, <2>2
<1>3. ASSUME NEW m \in seeded' \ clashed', NEW k \in settled'[m]
      PROVE  SetIn(m, Hash[k])'
  <2>1. m \in seeded \ clashed /\ k \in settled[m] /\ m \in filters
    BY <1>b, <1>c DEF RequestInv
  <2>2. SetIn(m, Hash[k])
    BY <2>1 DEF FilterInv
  <2>3. QED BY <1>d, <2>1, <2>2 DEF SetIn
<1>4. QED BY <1>1, <1>2, <1>3 DEF FilterInv

(* A request reads the word it is at.                                      *)
LEMMA ReadFilter ==
    ASSUME TypeOK, RequestInv, FilterInv, NEW c \in Clients, ReadWord(c)
    PROVE  FilterInv'
<1>a. /\ cpc[c] = "add" /\ cpc' = [cpc EXCEPT ![c] = "set"]
      /\ seen' = [seen EXCEPT ![c] = words[creq[c].net][At(c)[1]]]
      /\ UNCHANGED <<words, settled, seeded, clashed, creq, todo>>
  BY DEF ReadWord, At, One, walletVars
<1>b. \A d \in Clients : Adding(d)' <=> Adding(d)
  BY <1>a DEF Adding, TypeOK
<1>1. ASSUME NEW d \in Clients, Adding(d), creq[d].net \notin clashed
      PROVE  /\ SetIn(creq[d].net, Hash[creq[d].key] \ todo[d])'
             /\ cpc'[d] = "set" => seen'[d] = words'[creq'[d].net][At(d)'[1]]
  <2>1. /\ SetIn(creq[d].net, Hash[creq[d].key] \ todo[d])
        /\ cpc[d] = "set" => seen[d] = words[creq[d].net][At(d)[1]]
    BY <1>1 DEF FilterInv
  <2>2. At(d)' = At(d)
    BY <1>a DEF At
  <2>3. CASE d = c
    <3>1. seen'[d] = words[creq[d].net][At(d)[1]]
      BY <1>a, <2>3 DEF TypeOK
    <3>2. QED BY <1>a, <2>1, <2>2, <3>1 DEF SetIn
  <2>4. CASE d # c
    <3>1. seen'[d] = seen[d] /\ cpc'[d] = cpc[d]
      BY <1>a, <2>4 DEF TypeOK
    <3>2. QED BY <1>a, <2>1, <2>2, <3>1 DEF SetIn
  <2>5. QED BY <2>3, <2>4
<1>2. \A d, e \in Clients :
          d # e /\ Adding(d)' /\ Adding(e)' /\ creq'[d].net = creq'[e].net
              => creq'[d].net \in clashed'
  BY <1>a, <1>b DEF FilterInv
<1>3. \A n \in seeded' \ clashed' : \A k \in settled'[n] : SetIn(n, Hash[k])'
  BY <1>a DEF FilterInv, SetIn
<1>4. QED BY <1>a, <1>b, <1>1, <1>2, <1>3 DEF FilterInv

(* A request writes the word back with its bit: in a filter without a      *)
(* clash it is still the word it has read, so no bit is lost.              *)
LEMMA WriteFilter ==
    ASSUME TypeOK, RequestInv, FilterInv, NEW c \in Clients, WriteWord(c)
    PROVE  FilterInv'
<1> DEFINE net == creq[c].net
           w == At(c)[1]
           b == At(c)[2]
<1>a. /\ cpc[c] = "set" /\ cpc' = [cpc EXCEPT ![c] = "add"]
      /\ words' = [words EXCEPT ![net][w] = seen[c] \cup {b}]
      /\ todo' = [todo EXCEPT ![c] = @ \ {At(c)}]
      /\ seen' = [seen EXCEPT ![c] = {}]
      /\ UNCHANGED <<settled, seeded, clashed, creq>>
  BY DEF WriteWord, At, One
<1>b. /\ net \in Networks /\ creq[c].key \in Spellings /\ net \in filters
      /\ todo[c] # {} /\ Adding(c)
  BY <1>a DEF RequestInv, Adding
<1>c. At(c) \in todo[c] /\ w \in Words /\ b \in Bits /\ At(c) = <<w, b>>
  BY <1>b, AtFacts
<1>d. \A d \in Clients : Adding(d)' <=> Adding(d)
  BY <1>a DEF Adding, TypeOK
<1>e. \A m \in Networks : m # net => words'[m] = words[m]
  BY <1>a DEF TypeOK
<1>f. ASSUME net \notin clashed
      PROVE  /\ \A i \in Words : words[net][i] \subseteq words'[net][i]
             /\ b \in words'[net][w]
  <2>1. seen[c] = words[net][w]
    BY <1>a, <1>b, <1>f DEF FilterInv
  <2>2. \A i \in Words : words'[net][i] = IF i = w THEN seen[c] \cup {b}
                                          ELSE words[net][i]
    BY <1>a, <1>b, <1>c DEF TypeOK
  <2>3. QED BY <1>c, <2>1, <2>2
<1>g. ASSUME NEW m \in Networks \ clashed, NEW pairs \in SUBSET (Words \X Bits),
             SetIn(m, pairs)
      PROVE  SetIn(m, pairs)'
  <2>1. \A p \in pairs : p[1] \in Words
    OBVIOUS
  <2>2. QED BY <1>e, <1>f, <1>g, <2>1 DEF SetIn
<1>1. ASSUME NEW d \in Clients, Adding(d), creq[d].net \notin clashed
      PROVE  /\ SetIn(creq[d].net, Hash[creq[d].key] \ todo[d])'
             /\ cpc'[d] = "set" => seen'[d] = words'[creq'[d].net][At(d)'[1]]
  <2>a. creq[d] \in [net : Networks, key : Spellings]
    BY <1>1 DEF RequestInv, Adding
  <2>b. Hash[creq[d].key] \ todo[d] \subseteq Words \X Bits
    BY <2>a, HashType
  <2>1. /\ SetIn(creq[d].net, Hash[creq[d].key] \ todo[d])
        /\ cpc[d] = "set" => seen[d] = words[creq[d].net][At(d)[1]]
    BY <1>1 DEF FilterInv
  <2>2. \A p \in Hash[creq[d].key] \ todo[d] : p[2] \in words'[creq[d].net][p[1]]
    BY <1>g, <1>1, <2>a, <2>b, <2>1 DEF SetIn
  <2>3. CASE d = c
    <3>1. todo'[c] = todo[c] \ {At(c)} /\ cpc'[c] = "add"
      BY <1>a DEF TypeOK
    <3>2. At(c)[2] \in words'[net][At(c)[1]]
      BY <1>f, <1>1, <2>3
    <3>3. \A p \in Hash[creq[c].key] \ todo'[c] : p[2] \in words'[net][p[1]]
      BY <2>2, <2>3, <3>1, <3>2
    <3>4. QED BY <1>a, <2>3, <3>1, <3>3 DEF SetIn
  <2>4. CASE d # c
    <3>1. /\ seen'[d] = seen[d] /\ cpc'[d] = cpc[d] /\ todo'[d] = todo[d]
      BY <1>a, <2>4 DEF TypeOK
    <3>2. creq[d].net # net
      BY <1>b, <1>1, <2>4 DEF FilterInv
    <3>3. words'[creq[d].net] = words[creq[d].net]
      BY <1>e, <2>a, <3>2
    <3>4. At(d)' = At(d)
      BY <3>1 DEF At
    <3>5. QED BY <1>a, <2>1, <3>1, <3>3, <3>4 DEF SetIn
  <2>5. QED BY <2>3, <2>4
<1>2. \A d, e \in Clients :
          d # e /\ Adding(d)' /\ Adding(e)' /\ creq'[d].net = creq'[e].net
              => creq'[d].net \in clashed'
  BY <1>a, <1>d DEF FilterInv
<1>3. ASSUME NEW n \in seeded' \ clashed', NEW k \in settled'[n]
      PROVE  SetIn(n, Hash[k])'
  <2>1. n \in seeded \ clashed /\ n \in Networks /\ k \in settled[n] /\ k \in Spellings
    BY <1>a DEF TypeOK
  <2>2. SetIn(n, Hash[k]) /\ Hash[k] \in SUBSET (Words \X Bits)
    BY <2>1, HashType DEF FilterInv
  <2>3. QED BY <1>g, <2>1, <2>2
<1>4. QED BY <1>a, <1>d, <1>1, <1>2, <1>3 DEF FilterInv

(* AddString returns when all the bits of its key are set.                 *)
LEMMA ReturnFilter ==
    ASSUME TypeOK, RequestInv, FilterInv, NEW c \in Clients, AddReturns(c)
    PROVE  FilterInv'
<1> DEFINE net == creq[c].net
           key == creq[c].key
<1>a. /\ cpc[c] = "add" /\ todo[c] = {} /\ cpc' = [cpc EXCEPT ![c] = "idle"]
      /\ creq' = [creq EXCEPT ![c] = NoRequest]
      /\ settled' = [settled EXCEPT ![net] = @ \cup ({key} \cap wallets[net])]
      /\ UNCHANGED <<words, seeded, clashed, todo, seen>>
  BY DEF AddReturns
<1>b. net \in Networks /\ Adding(c)
  BY <1>a DEF RequestInv, Adding
<1>c. cpc'[c] = "idle"
  BY <1>a DEF TypeOK
<1>d. \A d \in Clients \ {c} : cpc'[d] = cpc[d] /\ creq'[d] = creq[d]
  BY <1>a DEF TypeOK
<1>e. \A d \in Clients : Adding(d)' => d # c /\ Adding(d)
  BY <1>c, <1>d DEF Adding
<1>1. ASSUME NEW d \in Clients, Adding(d)', creq'[d].net \notin clashed'
      PROVE  /\ SetIn(creq[d].net, Hash[creq[d].key] \ todo[d])'
             /\ cpc'[d] = "set" => seen'[d] = words'[creq'[d].net][At(d)'[1]]
  <2>1. /\ Adding(d) /\ cpc'[d] = cpc[d] /\ creq'[d] = creq[d]
        /\ creq[d].net \notin clashed
    BY <1>a, <1>d, <1>e, <1>1
  <2>2. /\ SetIn(creq[d].net, Hash[creq[d].key] \ todo[d])
        /\ cpc[d] = "set" => seen[d] = words[creq[d].net][At(d)[1]]
    BY <2>1 DEF FilterInv
  <2>3. At(d)' = At(d)
    BY <1>a DEF At
  <2>4. QED BY <1>a, <2>1, <2>2, <2>3 DEF SetIn
<1>2. ASSUME NEW d \in Clients, NEW e \in Clients, d # e, Adding(d)', Adding(e)',
             creq'[d].net = creq'[e].net
      PROVE  creq'[d].net \in clashed'
  BY <1>a, <1>d, <1>e, <1>2 DEF FilterInv
<1>3. ASSUME NEW n \in seeded' \ clashed', NEW k \in settled'[n]
      PROVE  SetIn(n, Hash[k])'
  <2>1. n \in seeded \ clashed /\ n \in Networks
    BY <1>a DEF TypeOK
  <2>2. k \in settled[n] \/ (n = net /\ k = key)
    BY <1>a, <1>b, <2>1 DEF TypeOK
  <2>3. CASE k \in settled[n]
    BY <1>a, <2>1, <2>3 DEF FilterInv, SetIn
  <2>4. CASE n = net /\ k = key
    <3>1. SetIn(net, Hash[key] \ todo[c])
      BY <1>b, <2>1, <2>4 DEF FilterInv
    <3>2. QED BY <1>a, <2>4, <3>1 DEF SetIn
  <2>5. QED BY <2>2, <2>3, <2>4
<1>4. QED BY <1>1, <1>2, <1>3 DEF FilterInv

(* Every step keeps the filters complete.                                  *)
LEMMA FilterNext ==
    ASSUME TypeOK, RequestInv, FilterInv, [Next]_vars
    PROVE  FilterInv'
<1>1. ASSUME NEW c \in Clients, NEW n \in Networks, NEW s \in Spellings,
             StoreWallet(c, n, s)
      PROVE  FilterInv'
  <2>1. UNCHANGED <<words, seeded, clashed, settled, todo, seen>>
    BY <1>1 DEF StoreWallet
  <2>2. ASSUME NEW d \in Clients, cpc'[d] \in {"add", "set"}
        PROVE  UNCHANGED <<cpc[d], creq[d]>>
    BY <1>1, <2>2 DEF StoreWallet, TypeOK
  <2>3. QED BY <2>1, <2>2, FilterFrame
<1>2. ASSUME NEW c \in Clients, NEW n \in Networks, NEW s \in Spellings,
             RemoveWallet(c, n, s)
      PROVE  FilterInv'
  <2>1. UNCHANGED <<words, seeded, clashed, cpc, creq, todo, seen>>
    BY <1>2 DEF RemoveWallet, clientVars
  <2>2. \A m \in Networks : settled'[m] \subseteq settled[m]
    BY <1>2 DEF RemoveWallet, TypeOK
  <2>3. QED BY <2>1, <2>2, FilterFrame
<1>3. ASSUME NEW c \in Clients, FindFilter(c) \/ CreateFilter(c)
      PROVE  FilterInv'
  <2>1. CASE cpc'[c] # "create"
    BY <1>3, <2>1, BeginFilter
  <2>2. CASE cpc'[c] = "create"
    <3>1. /\ UNCHANGED <<words, seeded, clashed, settled, creq, todo, seen>>
          /\ cpc' = [cpc EXCEPT ![c] = "create"]
      BY <1>3, <2>2 DEF FindFilter, CreateFilter, BeginAdd, walletVars, TypeOK
    <3>2. ASSUME NEW d \in Clients, cpc'[d] \in {"add", "set"}
          PROVE  cpc'[d] = cpc[d]
      BY <3>1, <3>2 DEF TypeOK
    <3>3. QED BY <3>1, <3>2, FilterFrame
  <2>3. QED BY <2>1, <2>2
<1>4. ASSUME NEW c \in Clients, ClientStep(c) PROVE FilterInv'
  BY <1>1, <1>2, <1>3, <1>4, ReadFilter, WriteFilter, ReturnFilter DEF ClientStep
<1>5. CASE Restart
  <2>1. (\A c \in Clients : cpc'[c] = "idle") /\ seeded' = {}
    BY <1>5 DEF Restart
  <2>2. QED BY <2>1 DEF FilterInv, Adding
<1>6. CASE UNCHANGED <<words, seeded, clashed, settled, cpc, creq, todo, seen>>
  BY <1>6, FilterFrame
<1>7. QED
  BY <1>4, <1>5, <1>6, SeedFilter
  DEF Next, SeedFails, TestFilter, GetWallet, vars, walletVars, clientVars

-----------------------------------------------------------------------------
(* The lookups.                                                            *)

(* A step that leaves the lookup and the wallets alone, and takes nothing  *)
(* back of the filters and the clashes, keeps what is known.               *)
LEMMA LookupFrame ==
    ASSUME LookupInv, UNCHANGED <<lookup, wallets, seeded>>,
           filters \subseteq filters', clashed \subseteq clashed'
    PROVE  LookupInv'
BY DEF LookupInv

(* A wallet that is stored, or removed, while it is looked up.             *)
LEMMA LookupStore ==
    ASSUME TypeOK, LookupInv, NEW c \in Clients, NEW n \in Networks,
           NEW s \in Spellings, StoreWallet(c, n, s) \/ RemoveWallet(c, n, s)
    PROVE  LookupInv'
<1> DEFINE k == Key(n, s)
           hit == lookup.pc = "get" /\ lookup.net = n /\ lookup.key = k
<1>a. UNCHANGED <<filters, seeded, clashed>> /\ wallets \in [Networks -> SUBSET Spellings]
  BY DEF StoreWallet, RemoveWallet, TypeOK
<1>1. CASE lookup.pc # "get"
  <2>1. lookup' = lookup
    BY <1>1 DEF StoreWallet, RemoveWallet
  <2>2. QED BY <1>a, <1>1, <2>1 DEF LookupInv
<1>2. CASE lookup.pc = "get"
  <2>a. lookup \in [pc : {"get"}, net : Networks, key : Spellings,
                    stays : BOOLEAN, was : BOOLEAN]
    BY <1>2, LookupFacts
  <2>b. /\ lookup.key \in wallets[lookup.net] => lookup.was
        /\ lookup.stays => lookup.key \in wallets[lookup.net]
    BY <1>2 DEF LookupInv
  <2>1. CASE StoreWallet(c, n, s)
    <3>1. wallets' = [wallets EXCEPT ![n] = @ \cup {k}]
      BY <2>1 DEF StoreWallet
    <3>2. CASE hit
      <4>1. lookup' = [lookup EXCEPT !.was = TRUE]
        BY <2>1, <3>2 DEF StoreWallet
      <4>2. /\ lookup'.pc = "get" /\ lookup'.net = n /\ lookup'.key = k
            /\ lookup'.was = TRUE /\ lookup'.stays = lookup.stays
        BY <2>a, <3>2, <4>1
      <4>3. lookup'.key \in wallets'[lookup'.net]
        BY <1>a, <3>1, <4>2
      <4>4. QED BY <4>2, <4>3 DEF LookupInv
    <3>3. CASE ~hit
      <4>1. lookup' = lookup
        BY <2>1, <3>3 DEF StoreWallet
      <4>2. lookup.key \in wallets'[lookup.net] <=> lookup.key \in wallets[lookup.net]
        BY <1>a, <1>2, <2>a, <3>1, <3>3
      <4>3. QED BY <1>2, <2>b, <4>1, <4>2 DEF LookupInv
    <3>4. QED BY <3>2, <3>3
  <2>2. CASE RemoveWallet(c, n, s)
    <3>1. wallets' = [wallets EXCEPT ![n] = @ \ {k}]
      BY <2>2 DEF RemoveWallet
    <3>2. CASE hit
      <4>1. lookup' = [lookup EXCEPT !.stays = FALSE]
        BY <2>2, <3>2 DEF RemoveWallet
      <4>2. /\ lookup'.pc = "get" /\ lookup'.net = n /\ lookup'.key = k
            /\ lookup'.stays = FALSE
        BY <2>a, <3>2, <4>1
      <4>3. lookup'.key \notin wallets'[lookup'.net]
        BY <1>a, <3>1, <4>2
      <4>4. QED BY <4>2, <4>3 DEF LookupInv
    <3>3. CASE ~hit
      <4>1. lookup' = lookup
        BY <2>2, <3>3 DEF RemoveWallet
      <4>2. lookup.key \in wallets'[lookup.net] <=> lookup.key \in wallets[lookup.net]
        BY <1>a, <1>2, <2>a, <3>1, <3>3
      <4>3. QED BY <1>2, <2>b, <4>1, <4>2 DEF LookupInv
    <3>4. QED BY <3>2, <3>3
  <2>3. QED BY <2>1, <2>2
<1>3. QED BY <1>1, <1>2

(* The fast negative path: a settled wallet of a seeded network passes the *)
(* filter unless additions to it have clashed.                             *)
LEMMA LookupTest ==
    ASSUME TypeOK, FilterInv, LookupInv, NEW n \in Networks, NEW s \in Spellings,
           TestFilter(n, s)
    PROVE  LookupInv'
<1> DEFINE k == Key(n, s)
           get == [pc |-> "get", net |-> n, key |-> k,
                   stays |-> k \in settled[n] \cap wallets[n],
                   was |-> k \in wallets[n]]
<1>a. /\ lookup' = IF MaybeContains(n, k) THEN get ELSE No(get)
      /\ UNCHANGED <<wallets, filters, seeded, clashed>>
  BY DEF TestFilter, walletVars
<1>b. /\ get.pc = "get" /\ get.net = n /\ get.key = k
      /\ get.stays <=> k \in settled[n] \cap wallets[n]
      /\ get.was <=> k \in wallets[n]
  OBVIOUS
<1>1. CASE MaybeContains(n, k)
  <2>1. lookup' = get
    BY <1>a, <1>1
  <2> HIDE DEF get, k
  <2>2. QED BY <1>a, <1>b, <2>1 DEF LookupInv
<1>2. CASE ~MaybeContains(n, k)
  <2>1. lookup' = [pc |-> "no", net |-> n, stays |-> k \in settled[n] \cap wallets[n]]
    BY <1>a, <1>2 DEF No
  <2>2. /\ lookup'.pc = "no" /\ lookup'.net = n
        /\ lookup'.stays <=> k \in settled[n] \cap wallets[n]
    BY <2>1
  <2>3. n \in filters /\ ~SetIn(n, Hash[k])
    BY <1>2 DEF MaybeContains, SetIn
  <2>4. k \in settled[n] => n \notin seeded \ clashed
    BY <2>3 DEF FilterInv
  <2>5. lookup'.stays => n \in (filters' \ seeded') \cup clashed'
    BY <1>a, <2>2, <2>3, <2>4
  <2> HIDE DEF k
  <2>6. QED BY <2>2, <2>5 DEF LookupInv
<1>3. QED BY <1>1, <1>2

(* The wallet itself is read.                                              *)
LEMMA LookupGet ==
    ASSUME TypeOK, LookupInv, GetWallet
    PROVE  LookupInv'
<1>a. /\ lookup.pc = "get"
      /\ lookup' = IF lookup.key \in wallets[lookup.net] THEN Yes(lookup) ELSE No(lookup)
  BY DEF GetWallet
<1>b. /\ lookup.key \in wallets[lookup.net] => lookup.was
      /\ lookup.stays => lookup.key \in wallets[lookup.net]
  BY <1>a DEF LookupInv
<1>1. CASE lookup.key \in wallets[lookup.net]
  <2>1. lookup' = [pc |-> "yes", was |-> lookup.was]
    BY <1>a, <1>1 DEF Yes
  <2>2. lookup'.pc = "yes" /\ lookup'.was = lookup.was
    BY <2>1
  <2>3. QED BY <1>b, <1>1, <2>2 DEF LookupInv
<1>2. CASE lookup.key \notin wallets[lookup.net]
  <2>1. lookup' = [pc |-> "no", net |-> lookup.net, stays |-> lookup.stays]
    BY <1>a, <1>2 DEF No
  <2>2. lookup'.pc = "no" /\ lookup'.stays = lookup.stays
    BY <2>1
  <2>3. QED BY <1>b, <1>2, <2>2 DEF LookupInv
<1>3. QED BY <1>1, <1>2

(* Every step keeps what is known of the lookup.                           *)
LEMMA LookupNext ==
    ASSUME TypeOK, RequestInv, FilterInv, LookupInv, [Next]_vars
    PROVE  LookupInv'
<1>1. CASE lookup' = NoLookup
  BY <1>1 DEF LookupInv, NoLookup
<1>2. ASSUME NEW c \in Clients,
             \/ FindFilter(c) \/ CreateFilter(c) \/ ReadWord(c) \/ WriteWord(c)
             \/ AddReturns(c)
      PROVE  LookupInv'
  <2>1. UNCHANGED <<lookup, wallets, seeded>>
    BY <1>2 DEF FindFilter, CreateFilter, BeginAdd, ReadWord, WriteWord,
                AddReturns, walletVars
  <2>2. filters \subseteq filters' /\ clashed \subseteq clashed'
    BY <1>2 DEF FindFilter, CreateFilter, BeginAdd, ReadWord, WriteWord,
                AddReturns, walletVars
  <2>3. QED BY <2>1, <2>2, LookupFrame
<1>3. ASSUME NEW c \in Clients, ClientStep(c) PROVE LookupInv'
  BY <1>2, <1>3, LookupStore DEF ClientStep
<1>4. CASE \E n \in Networks : SeedNetwork(n)
  BY <1>1, <1>4 DEF SeedNetwork, RequestInv
<1>5. CASE SeedFails \/ UNCHANGED vars
  BY <1>5, LookupFrame DEF SeedFails, vars, walletVars
<1>6. CASE Restart
  BY <1>1, <1>6 DEF Restart
<1>7. QED BY <1>3, <1>4, <1>5, <1>6, LookupTest, LookupGet DEF Next

(* The invariant: through concurrent additions, removals, lookups and      *)
(* restarts, the filters have the bits of all settled wallets wherever     *)
(* they were seeded and no additions clashed.                              *)
THEOREM Inductive == Spec => []IndInv
<1>1. Init => FilterInv /\ LookupInv
  BY DEF Init, FilterInv, LookupInv, Adding, NoLookup
<1>2. Spec => [](FilterInv /\ LookupInv)
  BY <1>1, FilterNext, LookupNext, TypeCorrect, PTL DEF Spec
<1>3. RequestInv /\ FilterInv /\ LookupInv => IndInv
  BY DEF IndInv
<1>4. QED BY <1>2, <1>3, TypeCorrect, PTL

(* The Bloom pre-check of IsWatchedWallet has no false negatives: a wallet *)
(* whose addition had returned and that nobody removes is found, whichever *)
(* its spelling and whatever else is added meanwhile, where the filter was *)
(* seeded or there is none and no two additions to it ran at once.         *)
THEOREM NoFalseNegative == Spec => []WatchedIsSeen
<1>1. IndInv => WatchedIsSeen
  BY DEF IndInv, LookupInv, WatchedIsSeen
<1>2. QED BY <1>1, Inductive, PTL

(* Nor does a lookup answer yes for a wallet that was not stored while it  *)
(* ran, whatever bits it shares with others.                               *)
THEOREM NoFalsePositive == Spec => []UnwatchedIsNotSeen
<1>1. IndInv => UnwatchedIsNotSeen
  BY DEF IndInv, LookupInv, UnwatchedIsNotSeen
<1>2. QED BY <1>1, Inductive, PTL
=============================================================================
