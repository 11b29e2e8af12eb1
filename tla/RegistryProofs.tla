--------------------------- MODULE RegistryProofs ---------------------------
(***************************************************************************)
(* Machine-checked proofs about the tracker, for any peers, any content    *)
(* and any lifetime of a record.                                           *)
(***************************************************************************)
EXTENDS Registry, TLAPS, FiniteSetTheorems

(* Every record has exactly the ticks left that its peer's last word on the
   blob has, and a peer whose word still holds has a record. *)
RecordsClaimed == \A b \in Blobs : \A r \in providers[b] : r.left = claim[r.id][b]
ClaimsRecorded ==
    \A b \in Blobs, p \in Peers : claim[p][b] > 0 => \E r \in providers[b] : r.id = p

LookupInv == RegistryTypeOK /\ RecordsClaimed /\ ClaimsRecorded

LEMMA ConstantTypes ==
    TTL \in Nat /\ TTL > 0 /\ NoSha \notin Shas \cup Blobs
BY RegistryAssumption DEF RegistryAssumption

(* The records after an announce: the peer's own, with a full lifetime, for a
   blob that is named, and otherwise what there was. *)
LEMMA AnnounceRecords ==
    ASSUME LookupInv, NEW p \in Peers, NEW items \in SUBSET Item, Announce(p, items), NEW b \in Blobs
    PROVE  /\ (\E it \in items : it.b3 = b) =>
                 \E new \in Provider : /\ new.id = p /\ new.left = TTL
                                       /\ providers'[b] = ReplaceRecord(providers[b], new)
                                       /\ claim'[p][b] = TTL
           /\ ~(\E it \in items : it.b3 = b) =>
                 providers'[b] = providers[b] /\ claim'[p][b] = claim[p][b]
           /\ \A q \in Peers \ {p} : claim'[q][b] = claim[q][b]
<1>1. claim \in [Peers -> [Blobs -> 0 .. TTL]] /\ TTL \in Nat
  BY ConstantTypes DEF LookupInv, RegistryTypeOK
<1>2. CASE \E it \in items : it.b3 = b
  <2> DEFINE it == CHOOSE x \in items : x.b3 = b
             new == [id |-> p, listable |-> it.listable, magnet |-> it.magnet, left |-> TTL]
  <2>1. it \in items
    BY <1>2
  <2>2. new \in Provider
    BY <2>1, <1>1 DEF Item, Provider
  <2>3. providers'[b] = ReplaceRecord(providers[b], new)
    BY <1>2 DEF Announce
  <2>4. claim'[p][b] = TTL /\ \A q \in Peers \ {p} : claim'[q][b] = claim[q][b]
    BY <1>1, <1>2 DEF Announce
  <2> QED BY <1>2, <2>2, <2>3, <2>4
<1>3. CASE ~\E it \in items : it.b3 = b
  BY <1>1, <1>3 DEF Announce
<1> QED BY <1>2, <1>3

LEMMA AnnounceTypes ==
    ASSUME LookupInv, NEW p \in Peers, NEW items \in SUBSET Item, Announce(p, items)
    PROVE  RegistryTypeOK'
<1>1. /\ claim \in [Peers -> [Blobs -> 0 .. TTL]] /\ TTL \in Nat
      /\ alias \in [Shas -> Blobs \cup {NoSha}]
      /\ providers \in [Blobs -> SUBSET Provider]
  BY ConstantTypes DEF LookupInv, RegistryTypeOK
<1>2. providers' \in [Blobs -> SUBSET Provider]
  <2>1. \A b \in Blobs : providers'[b] \subseteq Provider
    BY <1>1, AnnounceRecords DEF ReplaceRecord
  <2>2. DOMAIN providers' = Blobs /\ providers' = [b \in Blobs |-> providers'[b]]
    BY DEF Announce
  <2> QED BY <2>1, <2>2
<1>3. claim' \in [Peers -> [Blobs -> 0 .. TTL]]
  BY <1>1 DEF Announce
<1>4. alias' \in [Shas -> Blobs \cup {NoSha}]
  <2> DEFINE given == {it.sha : it \in items} \cap Shas
  <2>1. PICK names \in [given -> {it.b3 : it \in items}] :
           alias' = [s \in Shas |-> IF s \in given THEN names[s] ELSE alias[s]]
    BY DEF Announce
  <2>2. {it.b3 : it \in items} \subseteq Blobs /\ alias \in [Shas -> Blobs \cup {NoSha}]
    BY DEF Item, LookupInv, RegistryTypeOK
  <2> QED BY <2>1, <2>2
<1> QED BY <1>2, <1>3, <1>4 DEF RegistryTypeOK

LEMMA AnnounceKeeps ==
    ASSUME LookupInv, NEW p \in Peers, NEW items \in SUBSET Item, Announce(p, items)
    PROVE  LookupInv'
<1>0. /\ claim \in [Peers -> [Blobs -> 0 .. TTL]] /\ TTL \in Nat /\ TTL > 0
      /\ providers \in [Blobs -> SUBSET Provider]
  BY ConstantTypes DEF LookupInv, RegistryTypeOK
<1>1. RegistryTypeOK'
  BY AnnounceTypes
<1>2. ASSUME NEW b \in Blobs, NEW r \in providers'[b] PROVE r.left = claim'[r.id][b]
  <2>1. CASE \E it \in items : it.b3 = b
    <3>1. PICK new \in Provider : /\ new.id = p /\ new.left = TTL
                                  /\ providers'[b] = ReplaceRecord(providers[b], new)
                                  /\ claim'[p][b] = TTL
      BY <2>1, AnnounceRecords
    <3>2. CASE r = new
      BY <3>1, <3>2
    <3>3. CASE r \in providers[b] /\ r.id # p
      <4>1. r.id \in Peers
        BY <1>0, <3>3 DEF Provider
      <4>2. r.left = claim[r.id][b]
        BY <3>3 DEF LookupInv, RecordsClaimed
      <4> QED BY <3>3, <4>1, <4>2, AnnounceRecords
    <3> QED BY <1>2, <3>1, <3>2, <3>3 DEF ReplaceRecord
  <2>2. CASE ~\E it \in items : it.b3 = b
    <3>1. r \in providers[b] /\ r.id \in Peers
      BY <1>0, <1>2, <2>2, AnnounceRecords DEF Provider
    <3>2. r.left = claim[r.id][b]
      BY <3>1 DEF LookupInv, RecordsClaimed
    <3> QED BY <2>2, <3>1, <3>2, AnnounceRecords
  <2> QED BY <2>1, <2>2
<1>3. ASSUME NEW b \in Blobs, NEW q \in Peers, claim'[q][b] > 0
      PROVE  \E r \in providers'[b] : r.id = q
  <2>1. CASE \E it \in items : it.b3 = b
    <3>1. PICK new \in Provider : /\ new.id = p /\ new.left = TTL
                                  /\ providers'[b] = ReplaceRecord(providers[b], new)
      BY <2>1, AnnounceRecords
    <3>2. CASE q = p
      BY <3>1, <3>2 DEF ReplaceRecord
    <3>3. CASE q # p
      <4>1. claim[q][b] > 0
        BY <1>3, <3>3, AnnounceRecords
      <4>2. PICK r \in providers[b] : r.id = q
        BY <4>1 DEF LookupInv, ClaimsRecorded
      <4>3. r.left > 0
        BY <4>1, <4>2 DEF LookupInv, RecordsClaimed
      <4> QED BY <3>1, <3>3, <4>2, <4>3 DEF ReplaceRecord
    <3> QED BY <3>2, <3>3
  <2>2. CASE ~\E it \in items : it.b3 = b
    <3>1. claim[q][b] > 0 /\ providers'[b] = providers[b]
      BY <1>3, <2>2, AnnounceRecords
    <3> QED BY <3>1 DEF LookupInv, ClaimsRecorded
  <2> QED BY <2>1, <2>2
<1> QED BY <1>1, <1>2, <1>3 DEF LookupInv, RecordsClaimed, ClaimsRecorded

(* Pruning what a caller leaves of the records keeps the types. *)
LEMMA PruneTypes ==
    ASSUME LookupInv, NEW records \in [Blobs -> SUBSET Provider], Prune(records, alias)
    PROVE  /\ providers' \in [Blobs -> SUBSET Provider]
           /\ alias' \in [Shas -> Blobs \cup {NoSha}]
<1>1. alias \in [Shas -> Blobs \cup {NoSha}]
  BY DEF LookupInv, RegistryTypeOK
<1> QED BY <1>1 DEF Prune

LEMMA WithdrawKeeps ==
    ASSUME LookupInv, NEW p \in Peers, NEW blobs \in SUBSET Blobs, Withdraw(p, blobs)
    PROVE  LookupInv'
<1> DEFINE gone == IF blobs = {} THEN Blobs ELSE blobs
           left == [b \in Blobs |-> IF b \in gone THEN {r \in providers[b] : r.id # p}
                                    ELSE providers[b]]
<1>1. /\ claim \in [Peers -> [Blobs -> 0 .. TTL]] /\ TTL \in Nat
      /\ providers \in [Blobs -> SUBSET Provider]
  BY ConstantTypes DEF LookupInv, RegistryTypeOK
<1>2. left \in [Blobs -> SUBSET Provider] /\ Prune(left, alias)
  BY <1>1 DEF Withdraw
<1>3. claim' = [claim EXCEPT ![p] = [b \in Blobs |-> IF b \in gone THEN 0 ELSE @[b]]]
  BY DEF Withdraw
<1>4. RegistryTypeOK'
  <2>1. claim' \in [Peers -> [Blobs -> 0 .. TTL]]
    BY <1>1, <1>3
  <2> HIDE DEF left
  <2> QED BY <1>2, <2>1, PruneTypes DEF RegistryTypeOK
<1>5. \A b \in Blobs, q \in Peers :
          claim'[q][b] = IF q = p /\ b \in gone THEN 0 ELSE claim[q][b]
  <2> HIDE DEF gone
  <2> QED BY <1>1, <1>3
<1>6. \A b \in Blobs : providers'[b] = {r \in providers[b] : r.left > 0 /\ ~(r.id = p /\ b \in gone)}
  <2>1. \A b \in Blobs : providers'[b] = {r \in left[b] : r.left > 0}
    BY <1>2 DEF Prune
  <2> HIDE DEF gone
  <2> QED BY <2>1
<1> HIDE DEF gone, left
<1>7. ASSUME NEW b \in Blobs, NEW r \in providers'[b] PROVE r.left = claim'[r.id][b]
  <2>1. r \in providers[b] /\ r.id \in Peers /\ ~(r.id = p /\ b \in gone)
    BY <1>1, <1>6, <1>7 DEF Provider
  <2>2. r.left = claim[r.id][b]
    BY <2>1 DEF LookupInv, RecordsClaimed
  <2> QED BY <1>5, <2>1, <2>2
<1>8. ASSUME NEW b \in Blobs, NEW q \in Peers, claim'[q][b] > 0
      PROVE  \E r \in providers'[b] : r.id = q
  <2>1. ~(q = p /\ b \in gone) /\ claim[q][b] > 0
    BY <1>5, <1>8
  <2>2. PICK r \in providers[b] : r.id = q
    BY <2>1 DEF LookupInv, ClaimsRecorded
  <2>3. r.left > 0
    BY <2>1, <2>2 DEF LookupInv, RecordsClaimed
  <2> QED BY <1>6, <2>1, <2>2, <2>3
<1> QED BY <1>4, <1>7, <1>8 DEF LookupInv, RecordsClaimed, ClaimsRecorded

(* A catalog drops expired records only. *)
LEMMA BrowseKeeps == ASSUME LookupInv, Browse PROVE LookupInv'
<1>1. providers \in [Blobs -> SUBSET Provider] /\ claim' = claim
  BY DEF LookupInv, RegistryTypeOK, Browse
<1>2. RegistryTypeOK'
  BY <1>1, PruneTypes DEF Browse, LookupInv, RegistryTypeOK
<1>3. \A b \in Blobs : providers'[b] = {r \in providers[b] : r.left > 0}
  BY DEF Browse, Prune
<1> QED BY <1>1, <1>2, <1>3 DEF LookupInv, RecordsClaimed, ClaimsRecorded

(* So does a lookup, for one blob. *)
LEMMA GetKeeps == ASSUME LookupInv, NEW h, Get(h) PROVE LookupInv'
<1>1. /\ providers \in [Blobs -> SUBSET Provider]
      /\ claim' = claim /\ alias' = alias
  BY DEF LookupInv, RegistryTypeOK, Get
<1>2. \A b \in Blobs : providers'[b] = providers[b] \/ providers'[b] = {r \in providers[b] : r.left > 0}
  BY DEF Get, Live
<1>3. providers' \in [Blobs -> SUBSET Provider]
  BY <1>1 DEF Get, Live
<1>4. RegistryTypeOK'
  BY <1>1, <1>3 DEF LookupInv, RegistryTypeOK
<1> QED BY <1>1, <1>2, <1>4 DEF LookupInv, RecordsClaimed, ClaimsRecorded

(* Time passes for a record and for the word it stands for alike. *)
LEMMA TickKeeps == ASSUME LookupInv, Tick PROVE LookupInv'
<1>1. /\ claim \in [Peers -> [Blobs -> 0 .. TTL]] /\ TTL \in Nat
      /\ providers \in [Blobs -> SUBSET Provider]
      /\ alias' = alias
  BY ConstantTypes DEF LookupInv, RegistryTypeOK, Tick
<1>2. \A b \in Blobs : providers'[b] = {[r EXCEPT !.left = Elapse(@)] : r \in providers[b]}
  BY DEF Tick
<1>3. \A b \in Blobs, q \in Peers : claim'[q][b] = Elapse(claim[q][b])
  BY DEF Tick
<1>4. \A n \in 0 .. TTL : Elapse(n) \in 0 .. TTL
  BY <1>1 DEF Elapse
<1>5. \A r \in Provider : LET e == [r EXCEPT !.left = Elapse(@)]
                          IN e \in Provider /\ e.id = r.id /\ e.left = Elapse(r.left)
  BY <1>4 DEF Provider
<1>6. RegistryTypeOK'
  <2>1. claim' \in [Peers -> [Blobs -> 0 .. TTL]]
    BY <1>1, <1>4 DEF Tick
  <2>2. \A b \in Blobs : providers'[b] \subseteq Provider
    BY <1>1, <1>2, <1>5
  <2>3. providers' \in [Blobs -> SUBSET Provider]
    BY <2>2 DEF Tick
  <2> QED BY <1>1, <2>1, <2>3 DEF LookupInv, RegistryTypeOK
<1>7. ASSUME NEW b \in Blobs, NEW r \in providers'[b] PROVE r.left = claim'[r.id][b]
  <2>1. PICK old \in providers[b] : r = [old EXCEPT !.left = Elapse(@)]
    BY <1>2, <1>7
  <2>2. old \in Provider /\ old.id \in Peers /\ old.left = claim[old.id][b]
    BY <1>1, <2>1 DEF Provider, LookupInv, RecordsClaimed
  <2>3. r.id = old.id /\ r.left = Elapse(old.left)
    BY <1>5, <2>1, <2>2
  <2> QED BY <1>3, <2>2, <2>3
<1>8. ASSUME NEW b \in Blobs, NEW q \in Peers, claim'[q][b] > 0
      PROVE  \E r \in providers'[b] : r.id = q
  <2>1. claim[q][b] > 0
    BY <1>1, <1>3, <1>8 DEF Elapse
  <2>2. PICK r \in providers[b] : r.id = q
    BY <2>1 DEF LookupInv, ClaimsRecorded
  <2>3. r \in Provider
    BY <1>1, <2>2
  <2> QED BY <1>2, <1>5, <2>2, <2>3
<1> QED BY <1>6, <1>7, <1>8 DEF LookupInv, RecordsClaimed, ClaimsRecorded

LEMMA EmptyTracker ==
    /\ RegistryInit => LookupInv
    /\ RegistryRestart => LookupInv'
BY ConstantTypes DEF RegistryInit, RegistryRestart, LookupInv, RegistryTypeOK, RecordsClaimed,
                     ClaimsRecorded

LEMMA LookupInductive == LookupInv /\ [RegistryNext]_registryVars => LookupInv'
<1> SUFFICES ASSUME LookupInv, [RegistryNext]_registryVars PROVE LookupInv'
  OBVIOUS
<1>1. ASSUME NEW p \in Peers, NEW it \in Item, Announce(p, {it}) PROVE LookupInv'
  <2>1. {it} \in SUBSET Item
    OBVIOUS
  <2> QED BY <1>1, <2>1, AnnounceKeeps
<1>2. ASSUME NEW p \in Peers, NEW blobs \in SUBSET Blobs, Withdraw(p, blobs) PROVE LookupInv'
  BY <1>2, WithdrawKeeps
<1>3. CASE UNCHANGED registryVars
  BY <1>3 DEF registryVars, LookupInv, RegistryTypeOK, RecordsClaimed, ClaimsRecorded
<1> QED BY <1>1, <1>2, <1>3, BrowseKeeps, TickKeeps, EmptyTracker, GetKeeps DEF RegistryNext

LEMMA LookupAlways == RegistrySpec => []LookupInv
BY EmptyTracker, LookupInductive, PTL DEF RegistrySpec

(* The types of the tracker. *)
THEOREM RegistryTypeCorrect == RegistrySpec => []RegistryTypeOK
<1>1. LookupInv => RegistryTypeOK
  BY DEF LookupInv
<1> QED BY <1>1, LookupAlways, PTL

LEMMA LookupIsExact == LookupInv => LookupExact
<1> SUFFICES ASSUME LookupInv, NEW h \in Blobs \cup Shas, NEW self \in Peers
             PROVE  {r.id : r \in Found(h, self)} =
                        {p \in Peers \ {self} : Resolve(h) \in Blobs /\ claim[p][Resolve(h)] > 0}
  BY DEF LookupExact
<1>1. CASE Resolve(h) \notin Blobs
  BY <1>1 DEF Found
<1>2. ASSUME NEW b \in Blobs, b = Resolve(h)
      PROVE  {r.id : r \in Found(h, self)} = {p \in Peers \ {self} : claim[p][b] > 0}
  <2>1. Found(h, self) = {r \in providers[b] : r.left > 0 /\ r.id # self}
    BY <1>2 DEF Found, Live
  <2>2. \A r \in providers[b] : r.id \in Peers /\ r.left = claim[r.id][b]
    BY DEF LookupInv, RegistryTypeOK, RecordsClaimed, Provider
  <2>3. \A p \in Peers : claim[p][b] > 0 => \E r \in providers[b] : r.id = p
    BY DEF LookupInv, ClaimsRecorded
  <2> QED BY <2>1, <2>2, <2>3
<1> QED BY <1>1, <1>2

(* A lookup returns exactly the other peers whose last word on the blob the
   hash names was an announce within the TTL, whatever was announced,
   withdrawn, looked up, pruned and expired in between; nothing is assumed of
   the sha256s the peers give. *)
THEOREM RegistryLookupExact == RegistrySpec => []LookupExact
BY LookupIsExact, LookupAlways, PTL

-----------------------------------------------------------------------------
(* Catalog rows count node ids, lookups return records: they agree because a
   device has one record per blob. *)

OnePerDevice == \A b \in Blobs : \A r, x \in providers[b] : r.id = x.id => r = x

LEMMA OneRecordKept == LookupInv /\ OnePerDevice /\ [RegistryNext]_registryVars => OnePerDevice'
<1> SUFFICES ASSUME LookupInv, OnePerDevice, [RegistryNext]_registryVars,
                    NEW b \in Blobs, NEW r \in providers'[b], NEW x \in providers'[b], r.id = x.id
             PROVE  r = x
  BY DEF OnePerDevice
<1>0. ASSUME providers'[b] \subseteq providers[b] PROVE r = x
  BY <1>0 DEF OnePerDevice
<1>1. ASSUME NEW p \in Peers, NEW it \in Item, Announce(p, {it}) PROVE r = x
  <2> DEFINE items == {it}
  <2>1. items \in SUBSET Item /\ Announce(p, items)
    BY <1>1
  <2> HIDE DEF items
  <2>2. CASE \E item \in items : item.b3 = b
    <3>1. PICK new \in Provider : new.id = p /\ providers'[b] = ReplaceRecord(providers[b], new)
      BY <2>1, <2>2, AnnounceRecords
    <3> QED BY <3>1 DEF ReplaceRecord, OnePerDevice
  <2>3. CASE ~\E item \in items : item.b3 = b
    BY <1>0, <2>1, <2>3, AnnounceRecords
  <2> QED BY <2>2, <2>3
<1>2. ASSUME NEW p \in Peers, NEW blobs \in SUBSET Blobs, Withdraw(p, blobs) PROVE r = x
  <2>1. providers'[b] \subseteq providers[b]
    BY <1>2 DEF Withdraw, Prune
  <2> QED BY <1>0, <2>1
<1>3. ASSUME Browse \/ RegistryRestart \/ \E h \in Blobs \cup Shas : Get(h) PROVE r = x
  <2>1. providers'[b] \subseteq providers[b]
    BY <1>3 DEF Browse, Prune, RegistryRestart, Get, Live
  <2> QED BY <1>0, <2>1
<1>4. ASSUME Tick PROVE r = x
  <2>1. providers'[b] = {[o EXCEPT !.left = Elapse(@)] : o \in providers[b]}
    BY <1>4 DEF Tick
  <2>2. PICK o \in providers[b], y \in providers[b] : /\ r = [o EXCEPT !.left = Elapse(@)]
                                                      /\ x = [y EXCEPT !.left = Elapse(@)]
    BY <2>1
  <2>3. o \in Provider /\ y \in Provider
    BY DEF LookupInv, RegistryTypeOK
  <2>4. r.id = o.id /\ x.id = y.id
    BY <2>2, <2>3 DEF Provider
  <2>5. o = y
    BY <2>4 DEF OnePerDevice
  <2> QED BY <2>2, <2>5
<1>5. CASE UNCHANGED registryVars
  BY <1>0, <1>5 DEF registryVars
<1> QED BY <1>1, <1>2, <1>3, <1>4, <1>5 DEF RegistryNext

(* Records and the devices they stand for are equally many. *)
LEMMA CountRecords ==
    ASSUME LookupInv, OnePerDevice, NEW b \in Blobs, NEW R \in SUBSET providers[b]
    PROVE  /\ IsFiniteSet({r.id : r \in R}) /\ IsFiniteSet(R)
           /\ Cardinality({r.id : r \in R}) = Cardinality(R)
<1> DEFINE N == {r.id : r \in R}
           f == [r \in R |-> r.id]
<1>1. N \subseteq Peers
  BY DEF LookupInv, RegistryTypeOK, Provider
<1>2. IsFiniteSet(N)
  BY <1>1, FS_Subset, RegistryAssumption DEF RegistryAssumption
<1>3. f \in Injection(R, N) /\ f \in Surjection(R, N)
  BY DEF Injection, Surjection, IsInjective, OnePerDevice
<1> HIDE DEF f, N
<1>4. IsFiniteSet(R) /\ Cardinality(R) = Cardinality(N)
  BY <1>2, <1>3, FS_Injection
<1> QED BY <1>2, <1>4 DEF N

LEMMA RowsDoAgree == LookupInv /\ OnePerDevice => RowsAgree
<1> SUFFICES ASSUME LookupInv, OnePerDevice, NEW b \in Blobs, NEW self \in Peers
             PROVE  /\ Resolve(b) = b => RowPeers(b, self) = Cardinality(Found(b, self))
                    /\ RowBtSeeders(b, self) <= RowPeers(b, self)
                    /\ Visible(b, self) /\ ~Mine(b, self) => RowPeers(b, self) > 0
  BY DEF RowsAgree
<1> DEFINE F == {r \in Live(b) : r.id # self}
           seeders == {x \in Live(b) : x.magnet /\ x.id # self}
           N == {r.id : r \in Live(b)}
<1>1. /\ Live(b) \in SUBSET providers[b] /\ F \in SUBSET providers[b]
      /\ seeders \in SUBSET providers[b] /\ seeders \in SUBSET F
  BY DEF Live
<1>2. Resolve(b) = b => Found(b, self) = F
  BY DEF Found
<1>3. {r.id : r \in F} = N \ {self} /\ (self \in N <=> Mine(b, self))
  BY DEF Mine
<1>4. RowPeers(b, self) = Cardinality(N) - (IF Mine(b, self) THEN 1 ELSE 0)
  BY DEF RowPeers
<1>5. RowBtSeeders(b, self) = Cardinality({r.id : r \in seeders})
  BY DEF RowBtSeeders
<1>6. /\ IsFiniteSet(N) /\ IsFiniteSet(F) /\ IsFiniteSet(seeders)
      /\ Cardinality({r.id : r \in F}) = Cardinality(F)
      /\ Cardinality({r.id : r \in seeders}) = Cardinality(seeders)
  BY <1>1, CountRecords
<1>7. Visible(b, self) /\ ~Mine(b, self) => F # {}
  BY DEF Visible, Mine
<1> HIDE DEF F, seeders, N
<1>8. Cardinality(N \ {self}) = (IF self \in N THEN Cardinality(N) - 1 ELSE Cardinality(N))
  BY <1>6, FS_RemoveElement
<1>9. Cardinality(seeders) <= Cardinality(F)
  BY <1>1, <1>6, FS_Subset
<1>10. F # {} => Cardinality(F) > 0
  BY <1>6, FS_EmptySet, FS_CardinalityType
<1>11. Cardinality(N) \in Nat /\ Cardinality(F) \in Nat /\ Cardinality(seeders) \in Nat
  BY <1>6, FS_CardinalityType
<1>12. RowPeers(b, self) = Cardinality(F)
  BY <1>3, <1>4, <1>6, <1>8, <1>11
<1> QED BY <1>2, <1>5, <1>6, <1>7, <1>9, <1>10, <1>11, <1>12

(* What the tracker returns and what its catalog says are exact and agree, for
   any peers, content and lifetime of a record. *)
THEOREM RegistryCorrect == RegistrySpec => []RegistryInv
<1> DEFINE Inv == LookupInv /\ OnePerDevice
<1>1. RegistryInit => Inv
  BY EmptyTracker DEF RegistryInit, OnePerDevice
<1>2. Inv /\ [RegistryNext]_registryVars => Inv'
  BY LookupInductive, OneRecordKept
<1>3. Inv => RegistryInv
  BY LookupIsExact, RowsDoAgree DEF RegistryInv, LookupInv
<1> QED
  <2> HIDE DEF Inv
  <2> QED BY <1>1, <1>2, <1>3, PTL DEF RegistrySpec

LEMMA PruneForgets ==
    ASSUME LookupInv, LookupInv', NEW records, Prune(records, alias),
           NEW s \in Shas, alias[s] # NoSha, alias'[s] = NoSha, NEW p \in Peers
    PROVE  claim'[p][alias[s]] = 0
<1>1. PICK b \in Blobs : b = alias[s]
  BY DEF LookupInv, RegistryTypeOK
<1>2. ~\E r \in records[b] : r.left > 0
  BY <1>1 DEF Prune
<1>3. providers'[b] = {}
  BY <1>2 DEF Prune
<1>4. claim' \in [Peers -> [Blobs -> 0 .. TTL]] /\ TTL \in Nat
  BY ConstantTypes DEF LookupInv, RegistryTypeOK
<1> QED BY <1>1, <1>3, <1>4 DEF LookupInv, ClaimsRecorded

(* An announce names blobs it announces, and takes no alias away. *)
LEMMA AnnounceNames ==
    ASSUME LookupInv, NEW p \in Peers, NEW it \in Item, Announce(p, {it}), NEW s \in Shas
    PROVE  /\ alias[s] # NoSha => alias'[s] # NoSha
           /\ alias'[s] # alias[s] => claim'[p][alias'[s]] = TTL
<1>1. claim \in [Peers -> [Blobs -> 0 .. TTL]] /\ it.b3 \in Blobs /\ it.b3 # NoSha
  BY ConstantTypes DEF LookupInv, RegistryTypeOK, Item
<1>2. NamedBy({it}, s) \subseteq {it.b3}
  BY DEF NamedBy
<1>3. alias'[s] = alias[s] \/ alias'[s] = it.b3
  BY <1>2 DEF Announce
<1>4. claim'[p][it.b3] = TTL
  BY <1>1 DEF Announce
<1> QED BY <1>1, <1>3, <1>4

(* An alias comes with an announce of the blob it names, and goes only with
   the last live provider of that blob. *)
LEMMA AliasStep == ASSUME LookupInv, LookupInv', RegistryNext PROVE AliasKept
<1> SUFFICES ASSUME NEW s \in Shas
             PROVE  /\ alias'[s] \notin {alias[s], NoSha} =>
                           \E p \in Peers : claim'[p][alias'[s]] = TTL
                    /\ alias[s] # NoSha /\ alias'[s] = NoSha =>
                           \A q \in Peers : claim'[q][alias[s]] = 0
  BY DEF AliasKept
<1>1. ASSUME NEW p \in Peers, NEW it \in Item, Announce(p, {it})
      PROVE  /\ alias[s] # NoSha => alias'[s] # NoSha
             /\ alias'[s] # alias[s] => claim'[p][alias'[s]] = TTL
  BY <1>1, AnnounceNames
<1>2. ASSUME NEW records, Prune(records, alias)
      PROVE  /\ alias'[s] \in {alias[s], NoSha}
             /\ alias[s] # NoSha /\ alias'[s] = NoSha => \A q \in Peers : claim'[q][alias[s]] = 0
  <2>1. alias'[s] \in {alias[s], NoSha}
    BY <1>2 DEF Prune
  <2> QED BY <1>2, <2>1, PruneForgets
<1>3. ASSUME NEW p \in Peers, NEW blobs \in SUBSET Blobs, Withdraw(p, blobs)
      PROVE  \E records : Prune(records, alias)
  BY <1>3 DEF Withdraw
<1>4. Browse => \E records : Prune(records, alias)
  BY DEF Browse
<1>5. Tick \/ (\E h \in Blobs \cup Shas : Get(h)) => alias' = alias
  BY DEF Tick, Get
<1>6. CASE RegistryRestart
  <2>1. /\ alias'[s] = NoSha /\ claim' = [p \in Peers |-> [b \in Blobs |-> 0]]
        /\ alias[s] \in Blobs \cup {NoSha}
    BY <1>6 DEF RegistryRestart, LookupInv, RegistryTypeOK
  <2> QED BY <2>1
<1> QED BY <1>1, <1>2, <1>3, <1>4, <1>5, <1>6 DEF RegistryNext

(* An alias names a blob because somebody announced that blob, and goes only
   when nobody's word on it holds any more, whoever withdraws, looks or lets a
   record expire. *)
THEOREM RegistryKeepsAliases == RegistrySpec => [][AliasKept]_registryVars
<1>1. LookupInv /\ LookupInv' /\ [RegistryNext]_registryVars => [AliasKept]_registryVars
  BY AliasStep
<1> QED BY <1>1, LookupAlways, PTL DEF RegistrySpec

=============================================================================
