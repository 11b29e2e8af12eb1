------------------------------ MODULE Registry ------------------------------
(***************************************************************************)
(* The content tracker of the registry service                             *)
(* (crates/registry/src/main.rs, Tracker): which peers announced which     *)
(* content, found by blake3 or by a sha256 alias, browsed as a catalog,    *)
(* dropped on a withdraw or when a record is older than PROVIDER_TTL.      *)
(*                                                                         *)
(* A record keeps the ticks it has left instead of a date, so that time    *)
(* needs no bound; 0 is a record that expired and that nobody has dropped  *)
(* yet.  Names, sizes, licences and tickets are left out: a record is who  *)
(* announced, whether it may be listed, whether it carries a magnet.  The  *)
(* sha256 of an announce is taken as it comes: any peer may give any hash  *)
(* as the sha256 of any blob, another blob's blake3 included.              *)
(***************************************************************************)
EXTENDS Naturals, FiniteSets

CONSTANTS
    Peers,      \* stable node ids
    Blobs,      \* blake3 ids
    Shas,       \* hashes an announce may give as a sha256; they may be blake3 ids too
    NoSha,      \* an announce without a sha256
    TTL         \* PROVIDER_TTL in ticks

ASSUME RegistryAssumption ==
    /\ IsFiniteSet(Peers) /\ IsFiniteSet(Blobs)
    /\ NoSha \notin Shas \cup Blobs
    /\ TTL \in Nat \ {0}

VARIABLES
    providers,  \* Tracker.providers: blake3 -> records
    alias,      \* Tracker.alias: sha256 -> the blake3 it names, or NoSha
    claim       \* history: ticks until what a peer last said of a blob runs out

tracker == <<providers, alias>>
registryVars == <<providers, alias, claim>>

Provider == [id : Peers, listable : BOOLEAN, magnet : BOOLEAN, left : 0 .. TTL]
Item == [b3 : Blobs, sha : Shas \cup {NoSha}, listable : BOOLEAN, magnet : BOOLEAN]

RegistryTypeOK ==
    /\ providers \in [Blobs -> SUBSET Provider]
    /\ alias \in [Shas -> Blobs \cup {NoSha}]
    /\ claim \in [Peers -> [Blobs -> 0 .. TTL]]

RegistryInit ==
    /\ providers = [b \in Blobs |-> {}]
    /\ alias = [s \in Shas |-> NoSha]
    /\ claim = [p \in Peers |-> [b \in Blobs |-> 0]]

-----------------------------------------------------------------------------
(* Mutant: a record is still served when its TTL has run out. *)
LiveAtExpiry(b) == {r \in providers[b] : r.left >= 0}

Live(b) == {r \in providers[b] : r.left > 0}

(* Mutant: an announce adds its record beside the peer's earlier one. *)
AddRecord(records, r) == {x \in records : x.left > 0} \cup {r}

(* One record per device: the peer's prior claim and expired records go. *)
ReplaceRecord(records, r) == {x \in records : x.id # r.id /\ x.left > 0} \cup {r}

(* The blobs an announce gives the hash s to, as their sha256. *)
NamedBy(items, s) == {it.b3 : it \in {x \in items : x.sha = s}}

(* Tracker::announce: `items` names a blob at most once; of those that give
   one sha256 the last in the list has the alias, here any. *)
Announce(p, items) ==
    /\ providers' = [b \in Blobs |->
          IF \E it \in items : it.b3 = b
          THEN LET it == CHOOSE x \in items : x.b3 = b
               IN ReplaceRecord(providers[b],
                     [id |-> p, listable |-> it.listable, magnet |-> it.magnet, left |-> TTL])
          ELSE providers[b]]
    /\ LET given == {it.sha : it \in items} \cap Shas
       IN \E names \in [given -> {it.b3 : it \in items}] :
             /\ \A s \in given : names[s] \in NamedBy(items, s)
             /\ alias' = [s \in Shas |-> IF s \in given THEN names[s] ELSE alias[s]]
    /\ claim' = [claim EXCEPT ![p] =
          [b \in Blobs |-> IF \E it \in items : it.b3 = b THEN TTL ELSE @[b]]]

(* Tracker::prune of what a caller leaves: expired records go, and aliases
   whose blob has no live provider. *)
Prune(records, names) ==
    /\ providers' = [b \in Blobs |-> {r \in records[b] : r.left > 0}]
    /\ alias' = [s \in Shas |->
          IF names[s] # NoSha /\ (\E r \in records[names[s]] : r.left > 0) THEN names[s] ELSE NoSha]

(* Mutant: the alias goes with the first provider that withdraws. *)
WithdrawWithAlias(p, blobs) ==
    LET gone == IF blobs = {} THEN Blobs ELSE blobs
    IN /\ providers' = [b \in Blobs |-> {r \in Live(b) : b \notin gone \/ r.id # p}]
       /\ alias' = [s \in Shas |-> IF alias[s] \in gone THEN NoSha ELSE alias[s]]
       /\ claim' = [claim EXCEPT ![p] = [b \in Blobs |-> IF b \in gone THEN 0 ELSE @[b]]]

(* Tracker::withdraw; an empty list withdraws everything of the peer. *)
Withdraw(p, blobs) ==
    LET gone == IF blobs = {} THEN Blobs ELSE blobs
    IN /\ Prune([b \in Blobs |-> IF b \in gone THEN {r \in providers[b] : r.id # p}
                                 ELSE providers[b]], alias)
       /\ claim' = [claim EXCEPT ![p] = [b \in Blobs |-> IF b \in gone THEN 0 ELSE @[b]]]

(* stats and catalog prune before they answer. *)
Browse == Prune(providers, alias) /\ UNCHANGED claim

(* Tracker::get: any hash, a blake3 too, is resolved through the alias; the
   list it finds drops its expired records. *)
Resolve(h) == IF h \in Shas /\ alias[h] # NoSha THEN alias[h] ELSE h

Get(h) ==
    /\ providers' = [b \in Blobs |-> IF b = Resolve(h) THEN Live(b) ELSE providers[b]]
    /\ UNCHANGED <<alias, claim>>

(* What get returns to `self` for a hash, and browse for a blob: the row is
   public or the querier's own, counts the others and those with a magnet. *)
Found(h, self) == IF Resolve(h) \in Blobs THEN {r \in Live(Resolve(h)) : r.id # self} ELSE {}

Mine(b, self) == \E r \in Live(b) : r.id = self
Visible(b, self) == Mine(b, self) \/ \E r \in Live(b) : r.listable
RowPeers(b, self) ==
    Cardinality({r.id : r \in Live(b)}) - (IF Mine(b, self) THEN 1 ELSE 0)
RowBtSeeders(b, self) == Cardinality({r.id : r \in {x \in Live(b) : x.magnet /\ x.id # self}})

Elapse(n) == IF n > 0 THEN n - 1 ELSE 0

Tick ==
    /\ providers' = [b \in Blobs |-> {[r EXCEPT !.left = Elapse(@)] : r \in providers[b]}]
    /\ claim' = [p \in Peers |-> [b \in Blobs |-> Elapse(claim[p][b])]]
    /\ UNCHANGED alias

(* The tracker is in memory only. *)
RegistryRestart ==
    /\ providers' = [b \in Blobs |-> {}]
    /\ alias' = [s \in Shas |-> NoSha]
    /\ claim' = [p \in Peers |-> [b \in Blobs |-> 0]]

RegistryNext ==
    \/ \E p \in Peers : \/ \E it \in Item : Announce(p, {it})
                        \/ \E blobs \in SUBSET Blobs : Withdraw(p, blobs)
    \/ Browse \/ Tick \/ RegistryRestart
    \/ \E h \in Blobs \cup Shas : Get(h)

RegistrySpec == RegistryInit /\ [][RegistryNext]_registryVars

-----------------------------------------------------------------------------
(* A lookup returns exactly the other peers that announced, within the TTL,
   the blob the hash names and did not withdraw it since: nobody expired,
   nobody lost to another peer's announce, withdraw, lookup or prune.  The
   hash names the blob it was last announced as the sha256 of, if any, and
   otherwise itself: the tracker compares no sha256 with content, so a lookup
   by a blake3 that somebody announced as a sha256 is a lookup of the other
   blob. *)
LookupExact ==
    \A h \in Blobs \cup Shas, self \in Peers :
        {r.id : r \in Found(h, self)} =
            {p \in Peers \ {self} : Resolve(h) \in Blobs /\ claim[p][Resolve(h)] > 0}

(* What a catalog row says of a blob agrees with what a lookup of that blob
   would return: the peers other than the querier, and no more with a magnet than peers.
   Rows count node ids and lookups return records, so this needs a peer to be
   in the tracker once per blob however often it announced (announce: "One
   record per device"). *)
RowsAgree ==
    \A b \in Blobs, self \in Peers :
        /\ Resolve(b) = b => RowPeers(b, self) = Cardinality(Found(b, self))
        /\ RowBtSeeders(b, self) <= RowPeers(b, self)
        /\ Visible(b, self) /\ ~Mine(b, self) => RowPeers(b, self) > 0

(* The tracker returns exactly the live providers of a blob, and its catalog
   counts what it returns. *)
RegistryInv == RegistryTypeOK /\ LookupExact /\ RowsAgree

(* An alias comes to name a blob only when somebody announces that blob, and is
   dropped only when that blob has no live provider left, whoever withdraws,
   looks or lets a record expire; an announce may give it to another blob. *)
AliasKept ==
    \A s \in Shas :
        /\ alias'[s] \notin {alias[s], NoSha} => \E p \in Peers : claim'[p][alias'[s]] = TTL
        /\ alias[s] # NoSha /\ alias'[s] = NoSha => \A p \in Peers : claim'[p][alias[s]] = 0
=============================================================================
