----------------------- MODULE PartitionTable_proofs -----------------------
(***************************************************************************)
(* Theorems about PartitionTable and UpdateList for every PTN_SWAP_LIST,   *)
(* every entries array of any length, any number of calls and any number   *)
(* of LUNs.                                                                *)
(***************************************************************************)
EXTENDS UpdateList, Integers, FiniteSetTheorems, WellFoundedInduction, TLAPS

-----------------------------------------------------------------------------
(***************************************************************************)
(* The array between two names of the list.  A swap exchanges two entries  *)
(* that match one listed name, so which listed name a place matches never  *)
(* changes; an entry is the one SwappedArray has there when the number of  *)
(* exchanges of its name is odd.                                           *)
(***************************************************************************)
Distinct(a) == \A k, b \in Places(a) : a[k] = a[b] => k = b

\* This call is through with the listed name that an entry's name matches.
Done(name) == \E j \in 1 .. Len(SwapList) : j < i /\ Matches(SwapList[j], name)

Exchanged(name) == IF Done(name) THEN calls % 2 = 0 ELSE calls % 2 = 1

NamesInv == /\ Distinct(shipped) /\ Distinct(pentries)
            /\ \A k \in Places(shipped) : \A ptn \in Listed :
                  Matches(ptn, pentries[k]) <=> Matches(ptn, shipped[k])

ArrayInv ==
    \A k \in Places(shipped) :
        pentries[k] = IF Exchanged(shipped[k]) THEN SwappedArray(shipped)[k]
                                               ELSE shipped[k]

FoundInv ==
    backup_not_found = 0 <=> \E t \in Twins(shipped) : Done(shipped[t[1]])

SwapInv == TypeOK /\ NamesInv /\ ArrayInv /\ FoundInv

-----------------------------------------------------------------------------
\* A set of naturals has a least one.
LEMMA LeastNat ==
    ASSUME NEW T \in SUBSET Nat, T # {} PROVE \E m \in T : \A n \in T : m <= n
<1>1. IsWellFoundedOn(OpToRel(<, Nat), Nat)
  BY NatLessThanWellFounded, Zenon
<1>2. PICK m \in T : \A n \in T : <<n, m>> \notin OpToRel(<, Nat)
  BY <1>1, WFMin, Zenon
<1>3. \A n \in T : ~(n < m)
  BY <1>2, Zenon DEF OpToRel
<1> QED BY <1>3

\* Names of one length that agree piece by piece are one.
LEMMA SameName ==
    ASSUME NEW s \in Seq(Pieces), NEW t \in Seq(Pieces), Len(s) = Len(t),
           \A k \in 1 .. Len(t) : s[k] = t[k]
    PROVE  s = t
<1>1. /\ s = [k \in 1 .. Len(s) |-> s[k]] /\ Len(s) \in Nat
      /\ t = [k \in 1 .. Len(t) |-> t[k]]
  OBVIOUS
<1> QED BY <1>1

\* The test of gpt_pentry_seek lets exactly the name and that of its backup
\* pass, and no name that merely begins with it.
LEMMA MatchesWhole ==
    ASSUME NEW ptn \in Seq(Pieces), NEW name \in Seq(Pieces)
    PROVE  Matches(ptn, name) <=> name \in {ptn, ptn \o BAK_PTN_NAME_EXT}
<1> DEFINE Bak == BAK_PTN_NAME_EXT
           Rest == SubSeq(name, Len(ptn) + 1, Len(name))
<1>0. Bak \in Seq(Pieces) /\ Len(Bak) \in Nat /\ Len(ptn) \in Nat /\ Len(name) \in Nat
  BY NamesAssumption
<1>1. ASSUME IsPrefix(ptn, name) PROVE name = ptn \o Rest
  <2>1. Len(ptn) <= Len(name) /\ SubSeq(ptn, 1, Len(ptn)) = SubSeq(name, 1, Len(ptn))
    BY <1>1 DEF IsPrefix
  <2>2. \A k \in 1 .. Len(ptn) : ptn[k] = name[k]
    <3> SUFFICES ASSUME NEW k \in 1 .. Len(ptn) PROVE ptn[k] = name[k]
      OBVIOUS
    <3>1. SubSeq(ptn, 1, Len(ptn))[k] = ptn[k] /\ SubSeq(name, 1, Len(ptn))[k] = name[k]
      BY <1>0, <2>1
    <3> QED BY <3>1, <2>1
  <2>3. /\ Rest \in Seq(Pieces) /\ Len(Rest) = Len(name) - Len(ptn)
        /\ \A k \in 1 .. Len(Rest) : Rest[k] = name[Len(ptn) + k]
    BY <1>0, <2>1
  <2> HIDE DEF Rest
  <2>4. /\ ptn \o Rest \in Seq(Pieces) /\ Len(ptn \o Rest) = Len(name)
        /\ \A k \in 1 .. Len(name) : (ptn \o Rest)[k] = name[k]
    BY <1>0, <2>1, <2>2, <2>3
  <2> QED BY <1>0, <2>4, SameName
<1>2. ASSUME NEW rest \in Seq(Pieces), name = ptn \o rest
      PROVE  IsPrefix(ptn, name) /\ Rest = rest
  <2>1. /\ Len(name) = Len(ptn) + Len(rest) /\ Len(rest) \in Nat
        /\ \A k \in 1 .. Len(ptn) : name[k] = ptn[k]
        /\ \A k \in 1 .. Len(rest) : name[Len(ptn) + k] = rest[k]
    BY <1>0, <1>2
  <2>2. /\ SubSeq(name, 1, Len(ptn)) = ptn
        /\ SubSeq(ptn, 1, Len(ptn)) = ptn
    BY <1>0, <2>1
  <2>3. /\ Rest \in Seq(Pieces) /\ Len(Rest) = Len(rest)
        /\ \A k \in 1 .. Len(rest) : Rest[k] = rest[k]
    BY <1>0, <2>1
  <2> HIDE DEF Rest
  <2>4. Rest = rest
    BY <2>3, SameName
  <2> QED BY <2>1, <2>2, <2>4, <1>0 DEF IsPrefix
<1>3. ptn \o <<>> = ptn /\ <<>> \in Seq(Pieces)
  OBVIOUS
<1> HIDE DEF Rest
<1>4. Matches(ptn, name) <=> IsPrefix(ptn, name) /\ Rest \in {<<>>, Bak}
  BY DEF Matches, Rest
<1> QED BY <1>0, <1>1, <1>2, <1>3, <1>4

\* gpt_pentry_seek finds an entry of ptn if there is one from start on.
LEMMA SeekFinds ==
    ASSUME TypeOK, NEW ptn, NEW start \in Nat \ {0}, NEW k \in Places(pentries),
           k >= start, Matches(ptn, pentries[k])
    PROVE  gpt_pentry_seek(ptn, start) # {}
<1> DEFINE T == {n \in start .. Len(pentries) : Matches(ptn, pentries[n])}
<1>0. Len(pentries) \in Nat
  BY DEF TypeOK
<1>1. T \in SUBSET Nat /\ k \in T
  BY <1>0 DEF Places
<1>2. PICK m \in T : \A n \in T : m <= n
  <2> HIDE DEF T
  <2> QED BY <1>1, LeastNat
<1>3. \A j \in start .. m - 1 : ~Matches(ptn, pentries[j])
  BY <1>0, <1>2
<1>4. m \in gpt_pentry_seek(ptn, start)
  BY <1>3 DEF gpt_pentry_seek
<1> QED BY <1>4

-----------------------------------------------------------------------------
\* An entry's name matches one listed name at most.
LEMMA OneListedName ==
    ASSUME NEW p \in Listed, NEW q \in Listed, NEW name \in Names,
           Matches(p, name), Matches(q, name)
    PROVE  p = q
<1> DEFINE Bak == BAK_PTN_NAME_EXT
<1>0. p \in Seq(Pieces) /\ q \in Seq(Pieces) /\ name \in Seq(Pieces) /\ Bak \in Seq(Pieces)
  BY NamesAssumption, ListAssumption DEF Listed
<1>1. name \in {p, p \o Bak} /\ name \in {q, q \o Bak}
  BY <1>0, MatchesWhole
<1>2. p # q \o Bak /\ q # p \o Bak
  BY ListAssumption DEF Listed
<1>3. CASE p \o Bak = q \o Bak
  <2>1. /\ Len(p) \in Nat /\ Len(q) \in Nat /\ Len(Bak) \in Nat
        /\ Len(p \o Bak) = Len(p) + Len(Bak) /\ Len(q \o Bak) = Len(q) + Len(Bak)
        /\ \A k \in 1 .. Len(p) : (p \o Bak)[k] = p[k]
        /\ \A k \in 1 .. Len(q) : (q \o Bak)[k] = q[k]
    BY <1>0
  <2>2. Len(p) = Len(q) /\ \A k \in 1 .. Len(p) : p[k] = q[k]
    BY <2>1, <1>3
  <2> QED BY <2>2, <1>0
<1> QED BY <1>1, <1>2, <1>3

\* A listed name is not its backup's name, and both match it.
LEMMA ListedNames ==
    ASSUME NEW ptn \in Listed
    PROVE  /\ ptn \in Seq(Pieces) /\ ptn \o BAK_PTN_NAME_EXT \in Seq(Pieces)
           /\ ptn # ptn \o BAK_PTN_NAME_EXT
           /\ Matches(ptn, ptn) /\ Matches(ptn, ptn \o BAK_PTN_NAME_EXT)
<1>1. ptn \in Seq(Pieces) /\ ptn \o BAK_PTN_NAME_EXT \in Seq(Pieces)
  BY NamesAssumption, ListAssumption DEF Listed
<1>2. ptn # ptn \o BAK_PTN_NAME_EXT
  BY ListAssumption DEF Listed
<1> QED BY <1>1, <1>2, MatchesWhole

\* In an array without repetitions two places are twins when they match a
\* listed name that is not skipped.
LEMMA TwinsMatch ==
    ASSUME NEW a \in Seq(Names), Distinct(a), NEW k \in Places(a), NEW b \in Places(a)
    PROVE  <<k, b>> \in Twins(a) <=>
             /\ k # b
             /\ \E ptn \in Listed : /\ ~Skipped(ptn)
                                    /\ Matches(ptn, a[k]) /\ Matches(ptn, a[b])
<1>0. a[k] \in Names /\ a[b] \in Names /\ Names \subseteq Seq(Pieces)
  BY NamesAssumption DEF Places
<1>1. <<k, b>> \in Twins(a) <=> AreTwins(a[k], a[b])
  BY DEF Twins
<1>2. a[k] = a[b] <=> k = b
  BY DEF Distinct
<1>3. ASSUME NEW ptn \in Listed
      PROVE  {a[k], a[b]} = {ptn, ptn \o BAK_PTN_NAME_EXT}
               <=> a[k] # a[b] /\ Matches(ptn, a[k]) /\ Matches(ptn, a[b])
  <2>1. /\ Matches(ptn, a[k]) <=> a[k] \in {ptn, ptn \o BAK_PTN_NAME_EXT}
        /\ Matches(ptn, a[b]) <=> a[b] \in {ptn, ptn \o BAK_PTN_NAME_EXT}
    BY <1>0, ListedNames, MatchesWhole
  <2>2. ptn # ptn \o BAK_PTN_NAME_EXT
    BY ListedNames
  <2> QED BY <2>1, <2>2
<1> QED BY <1>1, <1>2, <1>3 DEF AreTwins

\* At most two entries of an array without repetitions match a listed name.
LEMMA TwoOfAName ==
    ASSUME NEW a \in Seq(Names), Distinct(a), NEW ptn \in Listed,
           NEW k \in Places(a), NEW b \in Places(a), NEW c \in Places(a),
           Matches(ptn, a[k]), Matches(ptn, a[b]), Matches(ptn, a[c]), k # b
    PROVE  c = k \/ c = b
<1>1. /\ a[k] \in Seq(Pieces) /\ a[b] \in Seq(Pieces) /\ a[c] \in Seq(Pieces)
      /\ ptn \in Seq(Pieces)
  BY NamesAssumption, ListedNames DEF Places
<1>2. /\ a[k] \in {ptn, ptn \o BAK_PTN_NAME_EXT}
      /\ a[b] \in {ptn, ptn \o BAK_PTN_NAME_EXT}
      /\ a[c] \in {ptn, ptn \o BAK_PTN_NAME_EXT}
  BY <1>1, MatchesWhole
<1>3. a[k] # a[b]
  BY DEF Distinct
<1>4. a[c] = a[k] \/ a[c] = a[b]
  BY <1>2, <1>3
<1> QED BY <1>4 DEF Distinct

\* SwappedArray exchanges the entries of two twins.
LEMMA TwinSwapped ==
    ASSUME NEW a \in Seq(Names), Distinct(a),
           NEW k \in Places(a), NEW b \in Places(a), <<k, b>> \in Twins(a)
    PROVE  SwappedArray(a)[k] = a[b]
<1>1. \A c \in Places(a) : <<k, c>> \in Twins(a) => c = b
  <2> SUFFICES ASSUME NEW c \in Places(a), <<k, c>> \in Twins(a) PROVE c = b
    OBVIOUS
  <2>1. PICK p \in Listed : Matches(p, a[k]) /\ Matches(p, a[b]) /\ k # b
    BY TwinsMatch
  <2>2. PICK q \in Listed : Matches(q, a[k]) /\ Matches(q, a[c]) /\ k # c
    BY TwinsMatch
  <2>3. a[k] \in Names
    BY DEF Places
  <2>4. p = q
    BY <2>1, <2>2, <2>3, OneListedName
  <2> QED BY <2>1, <2>2, <2>4, TwoOfAName
<1>2. (CHOOSE c \in Places(a) : <<k, c>> \in Twins(a)) = b
  BY <1>1
<1> QED BY <1>2 DEF SwappedArray

\* An entry without a twin is left where it is.
LEMMA LonelyStays ==
    ASSUME NEW a, NEW k \in Places(a), \A b \in Places(a) : <<k, b>> \notin Twins(a)
    PROVE  SwappedArray(a)[k] = a[k]
  BY DEF SwappedArray

-----------------------------------------------------------------------------
\* What a swap of the shipped array is meant to give does not change.
LEMMA ShippedStays ==
    ASSUME shipped' = shipped
    PROVE  /\ SwappedArray(shipped)' = SwappedArray(shipped)
           /\ Twins(shipped)' = Twins(shipped)
           /\ Places(shipped)' = Places(shipped)
  BY DEF SwappedArray, Twins, Places

\* The inductive step for the entries, said with what does not change.
LEMMA ArrayStep ==
    ASSUME shipped' = shipped,
           \A k \in Places(shipped) :
               pentries'[k] = IF Exchanged(shipped[k])'
                              THEN SwappedArray(shipped)[k] ELSE shipped[k]
    PROVE  ArrayInv'
<1>1. SwappedArray(shipped)' = SwappedArray(shipped) /\ Places(shipped)' = Places(shipped)
  BY ShippedStays
<1> QED BY <1>1 DEF ArrayInv

LEMMA InitSwap == Init => SwapInv
<1> SUFFICES ASSUME Init PROVE SwapInv
  OBVIOUS
<1> USE DEF Init
<1>1. PICK n \in 0 .. MaxEntries :
         /\ pentries \in [1 .. n -> Names]
         /\ \A k, b \in 1 .. n : pentries[k] = pentries[b] => k = b
  BY DEF Arrays
<1>2. pentries \in Seq(Names) /\ Len(pentries) = n
  BY <1>1, BoundsAssumption
<1>3. TypeOK
  BY <1>2, ListAssumption, BoundsAssumption DEF TypeOK
<1>4. NamesInv
  BY <1>1, <1>2 DEF NamesInv, Distinct, Places
<1>5. \A p : ~Done(p)
  BY DEF Done
<1>6. ArrayInv
  BY <1>5 DEF ArrayInv, Exchanged
<1>7. FoundInv
  BY <1>5 DEF FoundInv
<1> QED BY <1>3, <1>4, <1>6, <1>7 DEF SwapInv

\* Going on to the next name makes exactly that one done.
LEMMA OneMoreDone ==
    ASSUME TypeOK, NextName
    PROVE  /\ i \in 1 .. Len(SwapList)
           /\ \A n : Done(n)' <=> Done(n) \/ Matches(SwapList[i], n)
           /\ \A n \in Names : Matches(SwapList[i], n) => ~Done(n)
           /\ SwapList[i] \in Listed
           /\ i' \in 1 .. Len(SwapList) + 1
<1>0. Len(SwapList) \in Nat
  BY ListAssumption
<1>1. i \in 1 .. Len(SwapList) /\ i' = i + 1
  BY <1>0 DEF TypeOK, NextName
<1>2. \A n : Done(n)' <=> Done(n) \/ Matches(SwapList[i], n)
  BY <1>0, <1>1 DEF Done
<1>3. \A n \in Names : Matches(SwapList[i], n) => ~Done(n)
  <2> SUFFICES ASSUME NEW n \in Names, Matches(SwapList[i], n),
                      NEW j \in 1 .. Len(SwapList), j < i, Matches(SwapList[j], n)
               PROVE  FALSE
    BY DEF Done
  <2>1. SwapList[i] \in Listed /\ SwapList[j] \in Listed
    BY <1>1 DEF Listed
  <2>2. SwapList[i] = SwapList[j]
    BY <2>1, OneListedName
  <2> QED BY <2>2, <1>0, <1>1, ListAssumption
<1> QED BY <1>0, <1>1, <1>2, <1>3 DEF Listed

\* A step that exchanges nothing, because no entry of the name has a twin.
LEMMA PassedOver ==
    ASSUME SwapInv, NextName, UNCHANGED <<pentries, backup_not_found>>,
           \A k, b \in Places(shipped) :
               Matches(SwapList[i], shipped[k]) => <<k, b>> \notin Twins(shipped)
    PROVE  SwapInv'
<1> USE DEF SwapInv
<1>0. shipped' = shipped /\ calls' = calls /\ pentries' = pentries
      /\ backup_not_found' = backup_not_found
  BY DEF NextName
<1>1. /\ \A n : Done(n)' <=> Done(n) \/ Matches(SwapList[i], n)
      /\ i' \in 1 .. Len(SwapList) + 1
  BY OneMoreDone
<1>2. TypeOK'
  BY <1>0, <1>1 DEF TypeOK
<1>3. NamesInv'
  BY <1>0 DEF NamesInv, Distinct, Places
<1>4. ArrayInv'
  <2> SUFFICES ASSUME NEW k \in Places(shipped)
               PROVE  pentries'[k] = IF Exchanged(shipped[k])'
                                     THEN SwappedArray(shipped)[k] ELSE shipped[k]
    BY <1>0, ArrayStep
  <2>1. CASE Matches(SwapList[i], shipped[k])
    <3>1. SwappedArray(shipped)[k] = shipped[k]
      BY <2>1, LonelyStays
    <3> QED BY <3>1 DEF ArrayInv
  <2>2. CASE ~Matches(SwapList[i], shipped[k])
    BY <2>2, <1>0, <1>1 DEF ArrayInv, Exchanged
  <2> QED BY <2>1, <2>2
<1>5. FoundInv'
  <2>1. \A t \in Twins(shipped) : /\ t[1] \in Places(shipped)
                                  /\ ~Matches(SwapList[i], shipped[t[1]])
    BY DEF Twins
  <2>2. Twins(shipped)' = Twins(shipped)
    BY <1>0 DEF Twins, Places
  <2> QED BY <2>1, <2>2, <1>0, <1>1 DEF FoundInv
<1> QED BY <1>2, <1>3, <1>4, <1>5

\* The places that the two calls of gpt_pentry_seek find are twins.
LEMMA SeekFindsTwins ==
    ASSUME SwapInv, NextName, ~Skipped(SwapList[i]),
           NEW k \in gpt_pentry_seek(SwapList[i], 1),
           NEW b \in gpt_pentry_seek(SwapList[i], k + 1)
    PROVE  /\ k \in Places(shipped) /\ b \in Places(shipped) /\ k # b
           /\ Matches(SwapList[i], shipped[k]) /\ Matches(SwapList[i], shipped[b])
           /\ <<k, b>> \in Twins(shipped) /\ <<b, k>> \in Twins(shipped)
<1> USE DEF SwapInv
<1>0. Len(pentries) = Len(shipped) /\ Len(shipped) \in Nat
  BY DEF TypeOK
<1>1. k \in Places(shipped) /\ b \in Places(shipped) /\ k # b
  BY <1>0 DEF gpt_pentry_seek, Places
<1>2. Matches(SwapList[i], pentries[k]) /\ Matches(SwapList[i], pentries[b])
  BY DEF gpt_pentry_seek
<1>3. Matches(SwapList[i], shipped[k]) /\ Matches(SwapList[i], shipped[b])
  BY <1>1, <1>2, OneMoreDone DEF NamesInv
<1>4. SwapList[i] \in Listed
  BY OneMoreDone
<1>5. shipped \in Seq(Names) /\ Distinct(shipped)
  BY DEF TypeOK, NamesInv
<1> QED BY <1>1, <1>3, <1>4, <1>5, TwinsMatch

LEMMA SwapKeeps ==
    ASSUME SwapInv, Swap PROVE SwapInv'
<1> USE DEF SwapInv
<1>0. NextName /\ ~Skipped(SwapList[i]) /\ backup_not_found' = 0
  BY DEF Swap
<1>1. PICK k \in gpt_pentry_seek(SwapList[i], 1) :
         \E b \in gpt_pentry_seek(SwapList[i], k + 1) :
            pentries' = [pentries EXCEPT ![k] = pentries[b], ![b] = pentries[k]]
  BY DEF Swap
<1>2. PICK b \in gpt_pentry_seek(SwapList[i], k + 1) :
            pentries' = [pentries EXCEPT ![k] = pentries[b], ![b] = pentries[k]]
  BY <1>1
<1>3. /\ k \in Places(shipped) /\ b \in Places(shipped) /\ k # b
      /\ Matches(SwapList[i], shipped[k]) /\ Matches(SwapList[i], shipped[b])
      /\ <<k, b>> \in Twins(shipped) /\ <<b, k>> \in Twins(shipped)
  BY <1>0, SeekFindsTwins
<1>4. shipped' = shipped /\ calls' = calls
  BY <1>0 DEF NextName
<1>5. /\ \A n : Done(n)' <=> Done(n) \/ Matches(SwapList[i], n)
      /\ \A n \in Names : Matches(SwapList[i], n) => ~Done(n)
      /\ i' \in 1 .. Len(SwapList) + 1
  BY <1>0, OneMoreDone
<1>6. /\ Places(pentries) = Places(shipped)
      /\ shipped \in Seq(Names) /\ pentries \in Seq(Names)
      /\ calls \in Nat
  BY BoundsAssumption DEF TypeOK, Places
<1>7. /\ pentries' \in Seq(Names) /\ Len(pentries') = Len(shipped)
      /\ pentries'[k] = pentries[b] /\ pentries'[b] = pentries[k]
      /\ \A c \in Places(shipped) : c # k /\ c # b => pentries'[c] = pentries[c]
  BY <1>2, <1>3, <1>6 DEF TypeOK, Places
<1>8. TypeOK'
  BY <1>0, <1>4, <1>5, <1>7 DEF TypeOK
<1>9. NamesInv'
  <2>1. \A ptn \in Listed : Matches(ptn, shipped[k]) <=> Matches(ptn, shipped[b])
    <3>1. SwapList[i] \in Listed /\ shipped[k] \in Names /\ shipped[b] \in Names
      BY <1>0, <1>3, <1>6, OneMoreDone DEF Places
    <3> QED BY <3>1, <1>3, OneListedName
  <2>2. \A c \in Places(shipped) : \A ptn \in Listed :
           Matches(ptn, pentries'[c]) <=> Matches(ptn, shipped[c])
    BY <2>1, <1>3, <1>7 DEF NamesInv
  <2>3. \A c, d \in Places(shipped) : pentries'[c] = pentries'[d] => c = d
    BY <1>3, <1>6, <1>7 DEF NamesInv, Distinct
  <2>4. Listed' = Listed /\ Places(shipped)' = Places(shipped)
        /\ Places(pentries)' = Places(shipped)
    BY <1>4, <1>7 DEF Listed, Places
  <2> QED BY <2>2, <2>3, <2>4, <1>4 DEF NamesInv, Distinct
<1>10. ArrayInv'
  <2> SUFFICES ASSUME NEW c \in Places(shipped)
               PROVE  pentries'[c] = IF Exchanged(shipped[c])'
                                     THEN SwappedArray(shipped)[c] ELSE shipped[c]
    BY <1>4, ArrayStep
  <2>1. SwappedArray(shipped)[k] = shipped[b] /\ SwappedArray(shipped)[b] = shipped[k]
    BY <1>3, <1>6, TwinSwapped DEF NamesInv
  <2>2. \A n \in Names : Matches(SwapList[i], n) => (Exchanged(n)' <=> ~Exchanged(n))
    BY <1>4, <1>5, <1>6 DEF Exchanged
  <2>6. shipped[k] \in Names /\ shipped[b] \in Names
    BY <1>3, <1>6 DEF Places
  <2>3. CASE c = k
    <3>1. Exchanged(shipped[k])' <=> ~Exchanged(shipped[k])
      BY <2>2, <2>6, <1>3, <1>4
    <3>2. Exchanged(shipped[b]) <=> Exchanged(shipped[k])
      BY <2>6, <1>3, <1>5 DEF Exchanged
    <3> QED BY <3>1, <3>2, <2>1, <2>3, <1>3, <1>7 DEF ArrayInv
  <2>4. CASE c = b
    <3>1. Exchanged(shipped[b])' <=> ~Exchanged(shipped[b])
      BY <2>2, <2>6, <1>3, <1>4
    <3>2. Exchanged(shipped[b]) <=> Exchanged(shipped[k])
      BY <2>6, <1>3, <1>5 DEF Exchanged
    <3> QED BY <3>1, <3>2, <2>1, <2>4, <1>3, <1>7 DEF ArrayInv
  <2>5. CASE c # k /\ c # b
    <3>1. ~Matches(SwapList[i], shipped[c])
      BY <2>5, <1>0, <1>3, <1>6, OneMoreDone, TwoOfAName DEF NamesInv
    <3>2. Exchanged(shipped[c])' <=> Exchanged(shipped[c])
      BY <3>1, <1>4, <1>5 DEF Exchanged
    <3> QED BY <3>2, <2>5, <1>7 DEF ArrayInv
  <2> QED BY <2>3, <2>4, <2>5
<1>11. FoundInv'
  <2>1. Twins(shipped)' = Twins(shipped)
    BY <1>4 DEF Twins, Places
  <2>2. \E t \in Twins(shipped) : Matches(SwapList[i], shipped[t[1]])
    BY <1>3
  <2> QED BY <2>1, <2>2, <1>0, <1>4, <1>5 DEF FoundInv
<1> QED BY <1>8, <1>9, <1>10, <1>11

\* The next call makes no name done, and turns every exchange round.
LEMMA CallKeeps ==
    ASSUME SwapInv, CallAgain PROVE SwapInv'
<1> USE DEF SwapInv
<1>0. /\ Returned /\ calls < MaxCalls /\ calls' = calls + 1 /\ i' = 1
      /\ backup_not_found' = 1 /\ pentries' = pentries /\ shipped' = shipped
  BY DEF CallAgain
<1>1. \A p : ~Done(p)'
  BY <1>0, ListAssumption DEF Done
<1>2. \A n : \A ptn \in Listed : Matches(ptn, n) => Done(n)
  BY <1>0, ListAssumption DEF Listed, Done, Returned
<1>3. TypeOK'
  BY <1>0, BoundsAssumption, ListAssumption DEF TypeOK
<1>4. NamesInv'
  BY <1>0 DEF NamesInv, Distinct, Places
<1>5. ArrayInv'
  <2> SUFFICES ASSUME NEW k \in Places(shipped)
               PROVE  pentries'[k] = IF Exchanged(shipped[k])'
                                     THEN SwappedArray(shipped)[k] ELSE shipped[k]
    BY <1>0, ArrayStep
  <2>1. CASE \E ptn \in Listed : Matches(ptn, shipped[k])
    <3>1. calls \in Nat
      BY BoundsAssumption DEF TypeOK
    <3>2. Exchanged(shipped[k])' <=> Exchanged(shipped[k])
      BY <2>1, <3>1, <1>0, <1>1, <1>2 DEF Exchanged
    <3> QED BY <3>2, <1>0 DEF ArrayInv
  <2>2. CASE \A ptn \in Listed : ~Matches(ptn, shipped[k])
    <3>1. SwappedArray(shipped)[k] = shipped[k]
      BY <2>2, LonelyStays, TwinsMatch DEF SwapInv, TypeOK, NamesInv
    <3> QED BY <3>1, <1>0 DEF ArrayInv
  <2> QED BY <2>1, <2>2
<1>6. FoundInv'
  BY <1>0, <1>1 DEF FoundInv, Twins, Places
<1> QED BY <1>3, <1>4, <1>5, <1>6

LEMMA StepSwap == SwapInv /\ [Next]_vars => SwapInv'
<1> SUFFICES ASSUME SwapInv, [Next]_vars PROVE SwapInv'
  OBVIOUS
<1> USE DEF SwapInv
<1>0. Len(pentries) = Len(shipped) /\ Len(shipped) \in Nat
  BY DEF TypeOK
<1>1. CASE Skip
  <2>1. NextName /\ Skipped(SwapList[i]) /\ UNCHANGED <<pentries, backup_not_found>>
    BY <1>1 DEF Skip
  <2>2. \A k, b \in Places(shipped) :
           Matches(SwapList[i], shipped[k]) => <<k, b>> \notin Twins(shipped)
    <3> SUFFICES ASSUME NEW k \in Places(shipped), NEW b \in Places(shipped),
                        Matches(SwapList[i], shipped[k]), <<k, b>> \in Twins(shipped)
                 PROVE  FALSE
      OBVIOUS
    <3>1. PICK ptn \in Listed : ~Skipped(ptn) /\ Matches(ptn, shipped[k])
      BY TwinsMatch DEF TypeOK, NamesInv
    <3>2. SwapList[i] \in Listed /\ shipped[k] \in Names
      BY <2>1, OneMoreDone DEF TypeOK, Places
    <3> QED BY <3>1, <3>2, <2>1, OneListedName
  <2> QED BY <2>1, <2>2, PassedOver
<1>2. CASE NotFound
  <2>1. NextName /\ UNCHANGED <<pentries, backup_not_found>>
    BY <1>2 DEF NotFound
  <2>2. \A k \in Places(shipped) : ~Matches(SwapList[i], shipped[k])
    <3> SUFFICES ASSUME NEW k \in Places(shipped), Matches(SwapList[i], shipped[k])
                 PROVE  FALSE
      OBVIOUS
    <3>1. k \in Places(pentries) /\ k >= 1 /\ Matches(SwapList[i], pentries[k])
      BY <2>1, <1>0, OneMoreDone DEF Places, NamesInv
    <3>2. gpt_pentry_seek(SwapList[i], 1) # {}
      BY <3>1, SeekFinds
    <3> QED BY <3>2, <1>2 DEF NotFound
  <2> QED BY <2>1, <2>2, PassedOver
<1>3. CASE NotBackedUp
  <2>1. NextName /\ UNCHANGED <<pentries, backup_not_found>>
    BY <1>3 DEF NotBackedUp
  <2>2. PICK n \in gpt_pentry_seek(SwapList[i], 1) :
           gpt_pentry_seek(SwapList[i], n + 1) = {}
    BY <1>3 DEF NotBackedUp
  <2>3. /\ n \in Places(shipped)
        /\ \A j \in 1 .. n - 1 : ~Matches(SwapList[i], pentries[j])
    BY <1>0 DEF gpt_pentry_seek, Places
  <2>4. \A k \in Places(shipped) : Matches(SwapList[i], shipped[k]) => k = n
    <3> SUFFICES ASSUME NEW k \in Places(shipped), Matches(SwapList[i], shipped[k]),
                        k # n
                 PROVE  FALSE
      OBVIOUS
    <3>1. k \in Places(pentries) /\ Matches(SwapList[i], pentries[k])
      BY <2>1, <1>0, OneMoreDone DEF Places, NamesInv
    <3>2. n + 1 \in Nat \ {0} /\ k >= n + 1
      BY <1>0, <2>3, <3>1 DEF Places
    <3>3. gpt_pentry_seek(SwapList[i], n + 1) # {}
      BY <3>1, <3>2, SeekFinds
    <3> QED BY <3>3, <2>2
  <2>5. \A k, b \in Places(shipped) :
           Matches(SwapList[i], shipped[k]) => <<k, b>> \notin Twins(shipped)
    <3> SUFFICES ASSUME NEW k \in Places(shipped), NEW b \in Places(shipped),
                        Matches(SwapList[i], shipped[k]), <<k, b>> \in Twins(shipped)
                 PROVE  FALSE
      OBVIOUS
    <3>1. PICK ptn \in Listed :
             Matches(ptn, shipped[k]) /\ Matches(ptn, shipped[b]) /\ k # b
      BY TwinsMatch DEF TypeOK, NamesInv
    <3>2. SwapList[i] \in Listed /\ shipped[k] \in Names
      BY <2>1, OneMoreDone DEF TypeOK, Places
    <3>3. ptn = SwapList[i]
      BY <3>1, <3>2, OneListedName
    <3> QED BY <3>1, <3>3, <2>4
  <2> QED BY <2>1, <2>5, PassedOver
<1>4. CASE Swap
  BY <1>4, SwapKeeps
<1>5. CASE CallAgain
  BY <1>5, CallKeeps
<1>6. CASE UNCHANGED vars
  <2>1. /\ pentries' = pentries /\ i' = i /\ shipped' = shipped
        /\ backup_not_found' = backup_not_found /\ calls' = calls
    BY <1>6 DEF vars
  <2>2. TypeOK' /\ NamesInv'
    BY <2>1 DEF TypeOK, NamesInv, Distinct, Places
  <2>3. \A p : (Done(p)' <=> Done(p)) /\ (Exchanged(p)' <=> Exchanged(p))
    BY <2>1 DEF Done, Exchanged
  <2>4. ArrayInv'
    BY <2>1, <2>3, ArrayStep DEF ArrayInv
  <2>5. FoundInv'
    BY <2>1, <2>3, ShippedStays DEF FoundInv
  <2> QED BY <2>2, <2>4, <2>5
<1> QED BY <1>1, <1>2, <1>3, <1>4, <1>5, <1>6 DEF Next

\* The inductive invariant holds, however often the function is called.
THEOREM SwapInvHolds == Spec => []SwapInv
  BY InitSwap, StepSwap, PTL DEF Spec

-----------------------------------------------------------------------------
\* When the function returns it is through with every listed name.
LEMMA AllDone ==
    ASSUME SwapInv, Returned
    PROVE  \A n : Done(n) <=> \E ptn \in Listed : Matches(ptn, n)
<1>1. Len(SwapList) \in Nat
  BY ListAssumption
<1> QED BY <1>1 DEF Returned, Done, Listed

LEMMA SwapsImplied == SwapInv => SwapsTheTwins
<1> SUFFICES ASSUME SwapInv, Returned
             PROVE  pentries = IF calls % 2 = 0 THEN SwappedArray(shipped)
                                                ELSE shipped
  BY DEF SwapsTheTwins
<1>1. /\ pentries \in Seq(Names) /\ shipped \in Seq(Names)
      /\ Len(pentries) = Len(shipped) /\ Len(shipped) \in Nat /\ calls \in Nat
  BY BoundsAssumption DEF SwapInv, TypeOK
<1>2. /\ pentries = [k \in Places(shipped) |-> pentries[k]]
      /\ shipped = [k \in Places(shipped) |-> shipped[k]]
      /\ SwappedArray(shipped)
           = [k \in Places(shipped) |-> SwappedArray(shipped)[k]]
  BY <1>1 DEF Places, SwappedArray
<1>3. \A k \in Places(shipped) :
         pentries[k] = IF calls % 2 = 0 THEN SwappedArray(shipped)[k]
                                        ELSE shipped[k]
  <2> SUFFICES ASSUME NEW k \in Places(shipped)
               PROVE  pentries[k] = IF calls % 2 = 0 THEN SwappedArray(shipped)[k]
                                                     ELSE shipped[k]
    OBVIOUS
  <2>1. CASE \E ptn \in Listed : Matches(ptn, shipped[k])
    BY <2>1, AllDone DEF SwapInv, ArrayInv, Exchanged
  <2>2. CASE \A ptn \in Listed : ~Matches(ptn, shipped[k])
    <3>1. SwappedArray(shipped)[k] = shipped[k]
      BY <2>2, LonelyStays, TwinsMatch DEF SwapInv, TypeOK, NamesInv
    <3> QED BY <3>1 DEF SwapInv, ArrayInv
  <2> QED BY <2>1, <2>2
<1>4. CASE calls % 2 = 0
  <2>1. [k \in Places(shipped) |-> pentries[k]]
          = [k \in Places(shipped) |-> SwappedArray(shipped)[k]]
    BY <1>3, <1>4
  <2> QED BY <2>1, <1>2, <1>4
<1>5. CASE calls % 2 # 0
  <2>1. [k \in Places(shipped) |-> pentries[k]]
          = [k \in Places(shipped) |-> shipped[k]]
    BY <1>3, <1>5
  <2> QED BY <2>1, <1>2, <1>5
<1> QED BY <1>4, <1>5

\* Every call exchanges the entries of each name that has two, listed and not
\* skipped, and leaves all others alone: the second call undoes the first.
THEOREM Swapping == Spec => []SwapsTheTwins
  BY SwapInvHolds, SwapsImplied, PTL

LEMMA TellsImplied == SwapInv => TellsIfNothingSwapped
<1> SUFFICES ASSUME SwapInv, Returned
             PROVE  backup_not_found = 1 <=> Twins(pentries) = {}
  BY DEF TellsIfNothingSwapped
<1>1. Len(pentries) = Len(shipped) /\ backup_not_found \in {0, 1}
  BY DEF SwapInv, TypeOK
<1>2. Twins(pentries) = Twins(shipped)
  <2>1. /\ pentries \in Seq(Names) /\ shipped \in Seq(Names)
        /\ Distinct(pentries) /\ Distinct(shipped)
        /\ Places(pentries) = Places(shipped)
    BY <1>1 DEF SwapInv, TypeOK, NamesInv, Places
  <2>2. \A k, b \in Places(shipped) :
           <<k, b>> \in Twins(pentries) <=> <<k, b>> \in Twins(shipped)
    BY <2>1, TwinsMatch DEF SwapInv, NamesInv
  <2>3. /\ Twins(pentries) \subseteq Places(shipped) \X Places(shipped)
        /\ Twins(shipped) \subseteq Places(shipped) \X Places(shipped)
    BY <2>1 DEF Twins
  <2> QED BY <2>2, <2>3
<1>3. backup_not_found = 0 <=> Twins(shipped) # {}
  <2>1. \A t \in Twins(shipped) : Done(shipped[t[1]])
    <3> SUFFICES ASSUME NEW k \in Places(shipped), NEW b \in Places(shipped),
                        <<k, b>> \in Twins(shipped)
                 PROVE  Done(shipped[k])
      BY DEF Twins
    <3>1. \E ptn \in Listed : Matches(ptn, shipped[k])
      BY TwinsMatch DEF SwapInv, TypeOK, NamesInv
    <3> QED BY <3>1, AllDone
  <2> QED BY <2>1 DEF SwapInv, FoundInv
<1> QED BY <1>1, <1>2, <1>3

\* A call that returns 1, on which gpt2_set_boot_chain writes no table, has met
\* no partition with a backup; one that returns 0 has exchanged some.
THEOREM Telling == Spec => []TellsIfNothingSwapped
  BY SwapInvHolds, TellsImplied, PTL

LEMMA XblImplied == SwapInv => XblStaysPut
<1> SUFFICES ASSUME SwapInv, is_ufs, NEW k \in Places(shipped),
                    IsPrefix(PTN_XBL, shipped[k])
             PROVE  pentries[k] = shipped[k]
  BY DEF XblStaysPut
<1>1. \A b \in Places(shipped) : <<k, b>> \notin Twins(shipped)
  <2> SUFFICES ASSUME NEW b \in Places(shipped), <<k, b>> \in Twins(shipped)
               PROVE  FALSE
    OBVIOUS
  <2>1. PICK ptn \in Listed :
           ~Skipped(ptn) /\ shipped[k] \in {ptn, ptn \o BAK_PTN_NAME_EXT}
    BY DEF Twins, AreTwins
  <2>2. PICK j \in 1 .. Len(SwapList) : ptn = SwapList[j]
    BY DEF Listed
  <2>3. IsPrefix(PTN_XBL, ptn \o BAK_PTN_NAME_EXT) => IsPrefix(PTN_XBL, ptn)
    BY <2>2, ListAssumption
  <2>4. IsPrefix(PTN_XBL, ptn)
    BY <2>1, <2>3
  <2> QED BY <2>1, <2>4 DEF Skipped
<1>2. SwappedArray(shipped)[k] = shipped[k]
  BY <1>1, LonelyStays
<1> QED BY <1>2 DEF SwapInv, ArrayInv

\* On UFS no entry of xbl, nor of a name that begins with it, is ever moved:
\* which one is booted from is for the boot LUN alone to say.
THEOREM XblPut == Spec => []XblStaysPut
  BY SwapInvHolds, XblImplied, PTL

-----------------------------------------------------------------------------
(***************************************************************************)
(* The list of LUNs.  after[n] is what the loop has made of the first n    *)
(* names; that there is such a function is shown for every prefix of the   *)
(* list, the least one without it being extended by one name.              *)
(***************************************************************************)
Grown(list, where, n) ==
    IF Skipped(SwapList[n]) \/ where[SwapList[n]] = NoLun THEN list
    ELSE add_lun_to_update_list(list, where[SwapList[n]])

\* f is the loop's list after each of the first m names.
Loop(f, where, m) ==
    f = [n \in 0 .. m |-> IF n = 0 THEN <<>> ELSE Grown(f[n - 1], where, n)]

\* The LUNs that the first n names ask for.
SpreadTo(where, n) ==
    {where[SwapList[j]] : j \in {j \in 1 .. n : ~Skipped(SwapList[j])}} \ {NoLun}

\* A least number of names has no loop, or none.
LEMMA LoopExists ==
    ASSUME NEW where PROVE \E f : Loop(f, where, Len(SwapList))
<1> DEFINE Without == {m \in Nat : ~ \E f : Loop(f, where, m)}
<1>0. Len(SwapList) \in Nat
  BY ListAssumption
<1> SUFFICES ASSUME Without # {} PROVE FALSE
  BY <1>0
<1>1. PICK m \in Without : \A n \in Without : m <= n
  <2>1. Without \in SUBSET Nat
    OBVIOUS
  <2> HIDE DEF Without
  <2> QED BY <2>1, LeastNat
<1>2. m \in Nat /\ ~ \E f : Loop(f, where, m)
  OBVIOUS
<1>3. m # 0
  <2>1. Loop([n \in 0 .. 0 |-> <<>>], where, 0)
    BY DEF Loop
  <2> QED BY <2>1, <1>2
<1>4. m - 1 \in Nat /\ m - 1 \notin Without
  BY <1>1, <1>2, <1>3
<1>5. PICK f : Loop(f, where, m - 1)
  BY <1>4
<1> DEFINE g == [n \in 0 .. m |-> IF n < m THEN f[n] ELSE Grown(f[m - 1], where, m)]
<1>6. \A n \in 0 .. m : g[n] = IF n = 0 THEN <<>> ELSE Grown(g[n - 1], where, n)
  <2>1. \A n \in 0 .. m - 1 : f[n] = IF n = 0 THEN <<>> ELSE Grown(f[n - 1], where, n)
    BY <1>5 DEF Loop
  <2>2. \A n \in 0 .. m - 1 : g[n] = f[n]
    BY <1>2
  <2>3. g[m] = Grown(f[m - 1], where, m)
    BY <1>2
  <2> HIDE DEF g
  <2>4. g[m] = Grown(g[m - 1], where, m)
    BY <2>2, <2>3, <1>2, <1>3
  <2>5. \A n \in 0 .. m : n = m \/ n \in 0 .. m - 1
    BY <1>2
  <2>6. \A n \in 0 .. m - 1 : n # 0 => n - 1 \in 0 .. m - 1
    BY <1>2
  <2> QED BY <2>1, <2>2, <2>4, <2>5, <2>6, <1>3
<1>7. Loop(g, where, m)
  <2>1. g = [n \in 0 .. m |-> g[n]]
    OBVIOUS
  <2> HIDE DEF g
  <2> QED BY <2>1, <1>6 DEF Loop
<1> HIDE DEF g
<1> QED BY <1>7, <1>2

\* lun_list is the last list of a loop.
LEMMA ListIsLoop ==
    ASSUME NEW where
    PROVE  \E f : Loop(f, where, Len(SwapList)) /\ lun_list(where) = f[Len(SwapList)]
<1> DEFINE after == CHOOSE f : Loop(f, where, Len(SwapList))
<1>1. Loop(after, where, Len(SwapList))
  BY LoopExists
<1>2. lun_list(where) = after[Len(SwapList)]
  BY DEF lun_list, Loop, Grown
<1> HIDE DEF after
<1> QED BY <1>1, <1>2

\* One more name asks for the LUN of its backup, or for none.
LEMMA SpreadGrows ==
    ASSUME NEW where, NEW n \in 1 .. Len(SwapList)
    PROVE  SpreadTo(where, n)
             = IF Skipped(SwapList[n]) \/ where[SwapList[n]] = NoLun
               THEN SpreadTo(where, n - 1)
               ELSE SpreadTo(where, n - 1) \cup {where[SwapList[n]]}
<1>1. \A j : j \in 1 .. n <=> j \in 1 .. n - 1 \/ j = n
  BY ListAssumption
<1> QED BY <1>1 DEF SpreadTo

LEMMA SpreadOfNone ==
    ASSUME NEW where PROVE SpreadTo(where, 0) = {}
  BY DEF SpreadTo

LEMMA SpreadOfAll ==
    ASSUME NEW where \in Where PROVE Spread(where) = SpreadTo(where, Len(SwapList))
<1>1. Len(SwapList) \in Nat /\ ToSet(SwapList) = {SwapList[j] : j \in 1 .. Len(SwapList)}
  BY ListAssumption DEF ToSet
<1>2. DOMAIN where = {ptn \in ToSet(SwapList) : ~Skipped(ptn)}
  BY DEF Where
<1> QED BY <1>1, <1>2 DEF Spread, SpreadTo

LEMMA SpreadIsFinite ==
    ASSUME NEW where PROVE \A n \in 0 .. Len(SwapList) : IsFiniteSet(SpreadTo(where, n))
<1> DEFINE Bad == {n \in 0 .. Len(SwapList) : ~IsFiniteSet(SpreadTo(where, n))}
<1> SUFFICES ASSUME Bad # {} PROVE FALSE
  OBVIOUS
<1>0. Len(SwapList) \in Nat
  BY ListAssumption
<1>1. PICK n \in Bad : \A m \in Bad : n <= m
  <2>1. Bad \in SUBSET Nat
    BY <1>0
  <2> HIDE DEF Bad
  <2> QED BY <2>1, LeastNat
<1>2. n \in 0 .. Len(SwapList) /\ ~IsFiniteSet(SpreadTo(where, n))
  OBVIOUS
<1>3. n # 0
  BY <1>2, SpreadOfNone, FS_EmptySet
<1>4. n \in 1 .. Len(SwapList) /\ n - 1 \in 0 .. Len(SwapList) /\ n - 1 \notin Bad
  BY <1>0, <1>1, <1>2, <1>3
<1>5. IsFiniteSet(SpreadTo(where, n - 1))
  BY <1>4
<1> HIDE DEF Bad
<1>6. IsFiniteSet(SpreadTo(where, n - 1) \cup {where[SwapList[n]]})
  BY <1>5, FS_AddElement
<1> QED BY <1>2, <1>4, <1>5, <1>6, SpreadGrows

LEMMA AppendedTo ==
    ASSUME NEW S, NEW s \in Seq(S), NEW x \in S
    PROVE  ToSet(Append(s, x)) = ToSet(s) \cup {x}
<1>1. Len(s) \in Nat /\ DOMAIN s = 1 .. Len(s)
  OBVIOUS
<1>2. /\ DOMAIN Append(s, x) = 1 .. Len(s) + 1
      /\ \A j \in 1 .. Len(s) : Append(s, x)[j] = s[j]
      /\ Append(s, x)[Len(s) + 1] = x
  OBVIOUS
<1>3. \A j : j \in 1 .. Len(s) + 1 <=> j \in 1 .. Len(s) \/ j = Len(s) + 1
  BY <1>1
<1>4. ToSet(Append(s, x)) \subseteq ToSet(s) \cup {x}
  BY <1>1, <1>2, <1>3, Zenon DEF ToSet
<1>5. ToSet(s) \subseteq ToSet(Append(s, x))
  BY <1>1, <1>2, <1>3, Zenon DEF ToSet
<1>6. x \in ToSet(Append(s, x))
  BY <1>2, <1>3, Zenon DEF ToSet
<1> QED BY <1>4, <1>5, <1>6

\* As long as the LUNs leave two rows free, the list after n names has each
\* LUN that they ask for, once.
LEMMA ListIsSpread ==
    ASSUME NEW where \in Where, Cardinality(Spread(where)) < MAX_LUNS - 1,
           NEW f, Loop(f, where, Len(SwapList))
    PROVE  \A n \in 0 .. Len(SwapList) :
              /\ f[n] \in Seq(LunPaths)
              /\ ToSet(f[n]) = SpreadTo(where, n)
              /\ Len(f[n]) = Cardinality(SpreadTo(where, n))
<1> DEFINE Right(n) == /\ f[n] \in Seq(LunPaths)
                       /\ ToSet(f[n]) = SpreadTo(where, n)
                       /\ Len(f[n]) = Cardinality(SpreadTo(where, n))
<1> DEFINE Bad == {n \in 0 .. Len(SwapList) : ~Right(n)}
<1> SUFFICES ASSUME Bad # {} PROVE FALSE
  OBVIOUS
<1>0. Len(SwapList) \in Nat
  BY ListAssumption
<1>1. PICK n \in Bad : \A m \in Bad : n <= m
  <2>1. Bad \in SUBSET Nat
    BY <1>0
  <2> HIDE DEF Bad
  <2> QED BY <2>1, LeastNat
<1>2. n \in 0 .. Len(SwapList) /\ ~Right(n)
  OBVIOUS
<1>3. n # 0
  <2>1. f[0] = <<>>
    BY <1>0 DEF Loop
  <2>2. <<>> \in Seq(LunPaths) /\ ToSet(<<>>) = {} /\ Len(<<>>) = 0
    BY DEF ToSet
  <2> QED BY <2>1, <2>2, <1>2, SpreadOfNone, FS_EmptySet
<1>4. n \in 1 .. Len(SwapList) /\ n - 1 \in 0 .. Len(SwapList) /\ n - 1 \notin Bad
  BY <1>0, <1>1, <1>2, <1>3
<1>5. /\ f[n - 1] \in Seq(LunPaths)
      /\ ToSet(f[n - 1]) = SpreadTo(where, n - 1)
      /\ Len(f[n - 1]) = Cardinality(SpreadTo(where, n - 1))
  BY <1>4
<1> HIDE DEF Bad
<1>6. f[n] = Grown(f[n - 1], where, n)
  BY <1>4 DEF Loop
<1>7. CASE Skipped(SwapList[n]) \/ where[SwapList[n]] = NoLun
  BY <1>2, <1>4, <1>5, <1>6, <1>7, SpreadGrows DEF Grown
<1>8. CASE ~(Skipped(SwapList[n]) \/ where[SwapList[n]] = NoLun)
  <2> DEFINE lun == where[SwapList[n]]
  <2>1. SwapList[n] \in ToSet(SwapList)
    BY <1>4, ListAssumption DEF ToSet
  <2>2. lun \in LunPaths
    BY <2>1, <1>8 DEF Where
  <2>3. SpreadTo(where, n) = SpreadTo(where, n - 1) \cup {lun}
    BY <1>4, <1>8, SpreadGrows
  <2>4. IsFiniteSet(SpreadTo(where, n - 1)) /\ IsFiniteSet(Spread(where))
    BY <1>0, <1>4, SpreadIsFinite, SpreadOfAll
  <2>5. SpreadTo(where, n - 1) \subseteq Spread(where)
    BY <1>0, <1>4, SpreadOfAll DEF SpreadTo
  <2>6. Cardinality(SpreadTo(where, n - 1)) <= Cardinality(Spread(where))
    BY <2>4, <2>5, FS_Subset
  <2>7. Len(f[n - 1]) < MAX_LUNS - 1
    BY <2>4, <2>6, <1>5, FS_CardinalityType, LunsAssumption
  <2>8. f[n] = IF lun \in SpreadTo(where, n - 1) THEN f[n - 1]
               ELSE Append(f[n - 1], lun)
    BY <2>7, <1>5, <1>6, <1>8 DEF Grown, add_lun_to_update_list
  <2> HIDE DEF lun
  <2>9. CASE lun \in SpreadTo(where, n - 1)
    BY <2>3, <2>8, <2>9, <1>2, <1>5
  <2>10. CASE lun \notin SpreadTo(where, n - 1)
    <3>1. /\ Append(f[n - 1], lun) \in Seq(LunPaths)
          /\ Len(Append(f[n - 1], lun)) = Len(f[n - 1]) + 1
      BY <2>2, <1>5
    <3>2. ToSet(Append(f[n - 1], lun)) = ToSet(f[n - 1]) \cup {lun}
      BY <2>2, <1>5, AppendedTo
    <3>3. Cardinality(SpreadTo(where, n)) = Cardinality(SpreadTo(where, n - 1)) + 1
      BY <2>3, <2>4, <2>10, FS_AddElement
    <3> QED BY <3>1, <3>2, <3>3, <2>3, <2>8, <2>10, <1>2, <1>5
  <2> QED BY <2>9, <2>10
<1> QED BY <1>7, <1>8

LEMMA NoneMisled == Misled = {}
<1> SUFFICES ASSUME NEW where \in Where, Cardinality(Spread(where)) < MAX_LUNS - 1
             PROVE  /\ ToSet(lun_list(where)) = Spread(where)
                    /\ Len(lun_list(where)) = Cardinality(Spread(where))
  BY DEF Misled
<1>1. PICK f : Loop(f, where, Len(SwapList)) /\ lun_list(where) = f[Len(SwapList)]
  BY ListIsLoop
<1>2. Len(SwapList) \in 0 .. Len(SwapList)
  BY ListAssumption
<1> QED BY <1>1, <1>2, ListIsSpread, SpreadOfAll

\* Wherever the backups are, each LUN that has one of a boot critical image is
\* in the list that prepare_boot_update makes, once, and no other is, provided
\* that the LUNs leave two rows of the list free.
THEOREM EachLunListed == Spec => []ListsEachLun
<1>1. ListsEachLun
  BY NoneMisled DEF ListsEachLun
<1> QED BY <1>1, PTL
=============================================================================
