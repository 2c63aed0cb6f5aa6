---------------------- MODULE AudioConcurrency_proofs ----------------------
(***************************************************************************)
(* Theorems about AudioConcurrency, for any tracks, sessions, requests,    *)
(* handles, capture clients and settings that the statements allow.        *)
(***************************************************************************)
EXTENDS AudioConcurrency, FiniteSetTheorems, TLAPS

(***************************************************************************)
(* Lists of outputs.                                                       *)
(***************************************************************************)
\* A function that counts the members of a finite set of places.
Counts(e, places) ==
    /\ Cardinality(places) \in Nat
    /\ e \in [1 .. Cardinality(places) -> places]
    /\ \A m, n \in 1 .. Cardinality(places) : e[m] = e[n] => m = n
    /\ \A k \in places : \E n \in 1 .. Cardinality(places) : e[n] = k

\* What Pick picks are the members at its places, each of them once.
LEMMA PickEnumerates ==
    ASSUME NEW outs, \E len \in Nat : DOMAIN outs = 1 .. len,
           NEW places, places \subseteq DOMAIN outs
    PROVE  /\ \E e : /\ Counts(e, places)
                     /\ \A n \in 1 .. Cardinality(places) :
                            Pick(outs, places)[n] = outs[e[n]]
           /\ \A S : (\A k \in places : outs[k] \in S) =>
                        Pick(outs, places) \in Seq(S)
<1>. PICK len \in Nat : DOMAIN outs = 1 .. len
  OBVIOUS
<1>. DEFINE card == Cardinality(places)
            upTo(k) == {j \in places : j <= k}
            rank == [k \in places |-> Rank(places, k)]
            e == [n \in 1 .. card |->
                     CHOOSE k \in places : Rank(places, k) = n]
<1>0. \A k \in places : k \in Int
  OBVIOUS
<1>1. IsFiniteSet(places) /\ card \in Nat
  <2>1. IsFiniteSet(1 .. len)
    BY FS_Interval
  <2>2. IsFiniteSet(places)
    BY <2>1, FS_Subset
  <2>. QED
    BY <2>2, FS_CardinalityType
<1>2. ASSUME NEW k \in places
      PROVE  /\ IsFiniteSet(upTo(k)) /\ Cardinality(upTo(k)) \in Nat
             /\ Rank(places, k) = Cardinality(upTo(k))
             /\ Rank(places, k) \in 1 .. card
  <2>1. upTo(k) \in SUBSET places /\ upTo(k) # {}
    OBVIOUS
  <2>2. IsFiniteSet(upTo(k)) /\ Cardinality(upTo(k)) <= card
    BY <1>1, <2>1, FS_Subset
  <2>3. Cardinality(upTo(k)) \in Nat
    BY <2>2, FS_CardinalityType
  <2>4. Cardinality(upTo(k)) # 0
    BY <2>1, <2>2, FS_EmptySet
  <2>. QED
    BY <1>1, <2>2, <2>3, <2>4 DEF Rank
<1>3. ASSUME NEW j \in places, NEW k \in places, j < k
      PROVE  Rank(places, j) # Rank(places, k)
  <2>1. k \in upTo(k) /\ k \notin upTo(j)
    BY <1>0, <1>3
  <2>3. \A x \in places : x <= j => x <= k
    BY <1>0, <1>3
  <2>4. upTo(j) \in SUBSET upTo(k)
    BY <2>3
  <2>2. Cardinality(upTo(j)) # Cardinality(upTo(k))
    BY <1>2, <2>1, <2>4, FS_Subset
  <2>. QED
    BY <1>2, <2>2
<1>4. \A j, k \in places : Rank(places, j) = Rank(places, k) => j = k
  BY <1>3
<1>5. \A n \in 1 .. card : \E k \in places : Rank(places, k) = n
  <2>1. rank \in [places -> 1 .. card]
    BY <1>2
  <2>2. rank \in Injection(places, 1 .. card)
    BY <1>4, <2>1 DEF Injection, IsInjective
  <2>3. IsFiniteSet(1 .. card) /\ Cardinality(1 .. card) = card
    BY <1>1, FS_Interval
  <2>4. rank \in Surjection(places, 1 .. card)
    BY <2>2, <2>3, FS_Injection
  <2>. QED
    BY <2>4 DEF Surjection
<1>6. \A n \in 1 .. card : e[n] \in places /\ Rank(places, e[n]) = n
  BY <1>5
<1>7. e \in [1 .. card -> places]
  BY <1>6
<1>8. /\ Pick(outs, places) = [n \in 1 .. card |-> outs[e[n]]]
      /\ \A n \in 1 .. card : Pick(outs, places)[n] = outs[e[n]]
  BY DEF Pick
<1>9. \A m, n \in 1 .. card : e[m] = e[n] => m = n
  BY <1>6
<1>10. ASSUME NEW k \in places PROVE \E n \in 1 .. card : e[n] = k
  <2>1. Rank(places, k) \in 1 .. card
    BY <1>2
  <2>. QED
    BY <1>4, <1>6, <2>1
<1>11. Counts(e, places)
  BY <1>1, <1>7, <1>9, <1>10 DEF Counts
<1>. HIDE DEF e
<1>12. ASSUME NEW S, \A k \in places : outs[k] \in S
       PROVE  Pick(outs, places) \in Seq(S)
  <2>1. \A n \in 1 .. card : outs[e[n]] \in S
    BY <1>7, <1>12
  <2>. QED
    BY <1>1, <1>8, <2>1
<1>. QED
  BY <1>8, <1>11, <1>12

\* A list that has some of the members of another one, each at most once.
Sub(new, old) ==
    /\ \E len \in Nat : DOMAIN new = 1 .. len /\ new = [k \in 1 .. len |-> new[k]]
    /\ \E e \in [DOMAIN new -> DOMAIN old] :
          /\ \A k \in DOMAIN new : new[k] = old[e[k]]
          /\ \A j, k \in DOMAIN new : e[j] = e[k] => j = k

LEMMA PickMembers ==
    ASSUME NEW S, NEW outs \in Seq(S), NEW places \in SUBSET DOMAIN outs
    PROVE  \A n \in DOMAIN Pick(outs, places) :
               \E k \in places : Pick(outs, places)[n] = outs[k]
<1>1. /\ \E len \in Nat : DOMAIN outs = 1 .. len
      /\ places \subseteq DOMAIN outs
  OBVIOUS
<1>2. PICK e : /\ Counts(e, places)
               /\ \A n \in 1 .. Cardinality(places) :
                      Pick(outs, places)[n] = outs[e[n]]
  BY <1>1, PickEnumerates
<1>. QED
  BY <1>2 DEF Counts, Pick

LEMMA PickIsSub ==
    ASSUME NEW S, NEW outs \in Seq(S), NEW places \in SUBSET DOMAIN outs
    PROVE  Sub(Pick(outs, places), outs)
<1>1. /\ \E len \in Nat : DOMAIN outs = 1 .. len
      /\ places \subseteq DOMAIN outs
  OBVIOUS
<1>2. PICK e : /\ Counts(e, places)
               /\ \A n \in 1 .. Cardinality(places) :
                      Pick(outs, places)[n] = outs[e[n]]
  BY <1>1, PickEnumerates
<1>3. e \in [1 .. Cardinality(places) -> DOMAIN outs]
  BY <1>2 DEF Counts
<1>4. /\ Cardinality(places) \in Nat
      /\ DOMAIN Pick(outs, places) = 1 .. Cardinality(places)
      /\ Pick(outs, places) = [n \in 1 .. Cardinality(places) |->
                                  Pick(outs, places)[n]]
  BY <1>2 DEF Counts, Pick
<1>. QED
  BY <1>2, <1>3, <1>4 DEF Sub, Counts

LEMMA SubTransitive ==
    ASSUME NEW new, NEW mid, NEW old, Sub(new, mid), Sub(mid, old)
    PROVE  Sub(new, old)
<1>1. PICK e \in [DOMAIN new -> DOMAIN mid] :
          /\ \A k \in DOMAIN new : new[k] = mid[e[k]]
          /\ \A j, k \in DOMAIN new : e[j] = e[k] => j = k
  BY DEF Sub
<1>2. PICK f \in [DOMAIN mid -> DOMAIN old] :
          /\ \A k \in DOMAIN mid : mid[k] = old[f[k]]
          /\ \A j, k \in DOMAIN mid : f[j] = f[k] => j = k
  BY DEF Sub
<1>. DEFINE g == [k \in DOMAIN new |-> f[e[k]]]
<1>3. /\ g \in [DOMAIN new -> DOMAIN old]
      /\ \A k \in DOMAIN new : new[k] = old[g[k]]
      /\ \A j, k \in DOMAIN new : g[j] = g[k] => j = k
  BY <1>1, <1>2
<1>. QED
  BY <1>3 DEF Sub

LEMMA SubReflexive ==
    ASSUME NEW S, NEW outs \in Seq(S) PROVE Sub(outs, outs)
<1>. DEFINE e == [k \in DOMAIN outs |-> k]
<1>1. e \in [DOMAIN outs -> DOMAIN outs]
  OBVIOUS
<1>2. Len(outs) \in Nat /\ DOMAIN outs = 1 .. Len(outs)
      /\ outs = [k \in 1 .. Len(outs) |-> outs[k]]
  OBVIOUS
<1>. QED
  BY <1>1, <1>2 DEF Sub

LEMMA SubType ==
    ASSUME NEW S, NEW old \in Seq(S), NEW new, Sub(new, old)
    PROVE  new \in Seq(S)
<1>1. PICK len \in Nat : DOMAIN new = 1 .. len /\ new = [k \in 1 .. len |-> new[k]]
  BY DEF Sub
<1>2. \A k \in 1 .. len : new[k] \in S
  BY <1>1 DEF Sub
<1>. QED
  BY <1>1, <1>2

LEMMA CloseLoopIsSub ==
    ASSUME NEW S, NEW outs \in Seq(S), NEW closed
    PROVE  /\ Sub(CloseLoop(outs, closed), outs)
           /\ CloseLoop(outs, closed) \in Seq(S)
<1>1. Sub(CloseLoop(outs, closed), outs)
  BY PickIsSub DEF CloseLoop
<1>. QED
  BY <1>1, SubType

\* A loop closes the output that it is looking for, if there is only one.
LEMMA CloseLoopCloses ==
    ASSUME NEW S, NEW outs \in Seq(S), NEW closed,
           \A j, k \in DOMAIN outs :
               outs[j] \in closed /\ outs[k] \in closed => j = k
    PROVE  \A k \in DOMAIN CloseLoop(outs, closed) :
               CloseLoop(outs, closed)[k] \notin closed
<1>. DEFINE left == {k \in DOMAIN outs : ~ClosedAt(outs, closed, k)}
<1>1. DOMAIN outs = 1 .. Len(outs) /\ Len(outs) \in Nat
  OBVIOUS
<1>2. ASSUME NEW k \in DOMAIN outs, outs[k] \in closed
      PROVE  ClosedAt(outs, closed, k)
  <2>1. k - 1 \in 0 .. k - 1 /\ (k - (k - 1)) % 2 = 1
    BY <1>1
  <2>2. k - 1 = 0 \/ outs[k - 1] \notin closed
    BY <1>1, <1>2
  <2>3. \A n \in (k - 1) + 1 .. k : n = k
    BY <1>1
  <2>. QED
    BY <1>2, <2>1, <2>2, <2>3 DEF ClosedAt
<1>3. left \in SUBSET DOMAIN outs
  OBVIOUS
<1>. HIDE DEF left
<1>4. \A n \in DOMAIN Pick(outs, left) :
          \E k \in left : Pick(outs, left)[n] = outs[k]
  BY <1>3, PickMembers
<1>. QED
  BY <1>2, <1>4 DEF CloseLoop, left

-----------------------------------------------------------------------------
(***************************************************************************)
(* Open outputs and the tracks that play on them.                          *)
(***************************************************************************)
OutputType == [handle : Handles, format : Formats,
               profile : {"direct", "offload", "voip"},
               session : Sessions, opens : Nat \ {0}]

TracksType == [Tracks -> [output : Handles \cup Mixed \cup {"none", "gone"},
                          stream : Streams, stale : BOOLEAN]]

Users(ts, h) == {t \in Tracks : ts[t].output = h}

LEMMA OutputFields ==
    ASSUME NEW outs \in Seq(OutputType), NEW k \in DOMAIN outs
    PROVE  /\ outs[k] \in OutputType
           /\ outs[k].handle \in Handles
           /\ outs[k].opens \in Nat \ {0}
<1>1. outs[k] \in OutputType
  OBVIOUS
<1>. QED
  BY <1>1 DEF OutputType

\* Handles are not shared, each output counts its tracks, and no track plays
\* on an output that is closed.
Consistent(outs, ts) ==
    /\ outs \in Seq(OutputType)
    /\ ts \in TracksType
    /\ \A j, k \in DOMAIN outs : outs[j].handle = outs[k].handle => j = k
    /\ \A k \in DOMAIN outs :
           outs[k].opens = Cardinality(Users(ts, outs[k].handle))
    /\ \A t \in Tracks : ts[t].output \in Handles =>
           ts[t].output \in HandlesOf(outs)

\* Unless offload sessions may be multiple, a profile is opened once.
OnePerProfile(outs) ==
    isAudioMultipleOffloadEnable
    \/ \A j, k \in DOMAIN outs : outs[j].profile = outs[k].profile => j = k

LEMMA UsersFinite ==
    ASSUME NEW ts, NEW h
    PROVE  IsFiniteSet(Users(ts, h)) /\ Cardinality(Users(ts, h)) \in Nat
<1>1. Users(ts, h) \in SUBSET Tracks
  BY DEF Users
<1>2. IsFiniteSet(Users(ts, h))
  BY <1>1, FS_Subset, HandlesAssumption
<1>. QED
  BY <1>2, FS_CardinalityType

LEMMA DisturbedTracks ==
    ASSUME NEW ts \in TracksType, NEW outs, NEW streams
    PROVE  LET new == Disturbed(ts, outs, streams) IN
           /\ new \in TracksType
           /\ \A t \in Tracks :
                 /\ new[t].stream = ts[t].stream
                 /\ new[t].output # ts[t].output =>
                       /\ ts[t].output \in Handles \ HandlesOf(outs)
                       /\ new[t].output = "gone"
                 /\ new[t].output \in Handles => new[t].output \in HandlesOf(outs)
                 /\ ~new[t].stale => ~ts[t].stale /\ new[t] = ts[t]
                 /\ ~new[t].stale /\ ts[t].output # "none" =>
                       ts[t].stream \notin streams
<1>. DEFINE new == Disturbed(ts, outs, streams)
<1>1. ASSUME NEW t \in Tracks
      PROVE  /\ new[t] \in [output : Handles \cup Mixed \cup {"none", "gone"},
                            stream : Streams, stale : BOOLEAN]
             /\ new[t].stream = ts[t].stream
             /\ new[t].output # ts[t].output =>
                   /\ ts[t].output \in Handles \ HandlesOf(outs)
                   /\ new[t].output = "gone"
             /\ new[t].output \in Handles => new[t].output \in HandlesOf(outs)
             /\ ~new[t].stale => ~ts[t].stale /\ new[t] = ts[t]
             /\ ~new[t].stale /\ ts[t].output # "none" =>
                   ts[t].stream \notin streams
  <2>1. ts[t] \in [output : Handles \cup Mixed \cup {"none", "gone"},
                   stream : Streams, stale : BOOLEAN]
    BY DEF TracksType
  <2>2. new[t] = IF ts[t].output \in Handles /\ ts[t].output \notin HandlesOf(outs)
                 THEN [ts[t] EXCEPT !.output = "gone", !.stale = TRUE]
                 ELSE IF ts[t].output # "none" /\ ts[t].stream \in streams
                 THEN [ts[t] EXCEPT !.stale = TRUE]
                 ELSE ts[t]
    BY DEF Disturbed
  <2>. QED
    BY <2>1, <2>2, HandlesAssumption
<1>2. new \in TracksType
  BY <1>1 DEF Disturbed, TracksType
<1>. QED
  BY <1>1, <1>2

\* Closing outputs and sending their tracks away.
LEMMA ShrinkKeeps ==
    ASSUME NEW outs, NEW ts, Consistent(outs, ts),
           NEW left, Sub(left, outs), NEW streams
    PROVE  Consistent(left, Disturbed(ts, left, streams))
<1>. DEFINE new == Disturbed(ts, left, streams)
<1>1. left \in Seq(OutputType)
  BY SubType DEF Consistent
<1>2. /\ new \in TracksType
      /\ \A t \in Tracks :
            /\ new[t].output # ts[t].output =>
                  /\ ts[t].output \in Handles \ HandlesOf(left)
                  /\ new[t].output = "gone"
            /\ new[t].output \in Handles => new[t].output \in HandlesOf(left)
  BY DisturbedTracks DEF Consistent
<1>. HIDE DEF new
<1>3. \A j, k \in DOMAIN left : left[j].handle = left[k].handle => j = k
  BY DEF Consistent, Sub
<1>4. ASSUME NEW k \in DOMAIN left
      PROVE  left[k].opens = Cardinality(Users(new, left[k].handle))
  <2>0. left[k] \in OutputType
    BY <1>1
  <2>1. left[k].handle \in HandlesOf(left) /\ left[k].handle \in Handles
    BY <2>0 DEF HandlesOf, OutputType
  <2>2. Users(new, left[k].handle) = Users(ts, left[k].handle)
    BY <1>2, <2>1, HandlesAssumption DEF Users
  <2>3. PICK n \in DOMAIN outs : left[k] = outs[n]
    BY DEF Sub
  <2>. QED
    BY <2>2, <2>3 DEF Consistent
<1>. QED
  BY <1>1, <1>2, <1>3, <1>4 DEF Consistent, new

LEMMA ShrinkOnePerProfile ==
    ASSUME NEW outs, NEW left, Sub(left, outs), OnePerProfile(outs)
    PROVE  OnePerProfile(left)
BY DEF Sub, OnePerProfile

\* A track that is sent from no direct output to no direct output.
LEMMA RetrackKeeps ==
    ASSUME NEW outs, NEW ts, Consistent(outs, ts), NEW new \in TracksType,
           \A t \in Tracks : \/ new[t].output = ts[t].output
                             \/ /\ new[t].output \notin Handles
                                /\ ts[t].output \notin Handles
    PROVE  Consistent(outs, new)
<1>1. outs \in Seq(OutputType)
  BY DEF Consistent
<1>2. ASSUME NEW k \in DOMAIN outs
      PROVE  Users(new, outs[k].handle) = Users(ts, outs[k].handle)
  <2>1. outs[k] \in OutputType
    BY <1>1
  <2>2. outs[k].handle \in Handles
    BY <2>1 DEF OutputType
  <2>. QED
    BY <2>2 DEF Users
<1>3. \A k \in DOMAIN outs :
          outs[k].opens = Cardinality(Users(new, outs[k].handle))
  BY <1>2 DEF Consistent
<1>4. \A t \in Tracks : new[t].output \in Handles =>
          new[t].output \in HandlesOf(outs)
  BY DEF Consistent
<1>. QED
  BY <1>1, <1>3, <1>4 DEF Consistent

\* A track plays on an output of its own.
LEMMA AppendKeeps ==
    ASSUME NEW outs, NEW ts, Consistent(outs, ts),
           NEW t \in Tracks, ts[t].output \notin Handles,
           NEW o \in OutputType, o.opens = 1, o.handle \notin HandlesOf(outs),
           NEW new \in TracksType, new[t].output = o.handle,
           \A u \in Tracks \ {t} : new[u] = ts[u]
    PROVE  Consistent(Append(outs, o), new)
<1>. DEFINE more == Append(outs, o)
<1>1. outs \in Seq(OutputType)
  BY DEF Consistent
<1>2. /\ more \in Seq(OutputType)
      /\ DOMAIN more = DOMAIN outs \cup {Len(outs) + 1}
      /\ \A k \in DOMAIN outs : more[k] = outs[k] /\ k # Len(outs) + 1
      /\ more[Len(outs) + 1] = o
  BY <1>1
<1>3. o.handle \in Handles
  BY DEF OutputType
<1>4. \A k \in DOMAIN outs : outs[k].handle # o.handle
  BY DEF HandlesOf
<1>. HIDE DEF more
<1>5. \A j, k \in DOMAIN more : more[j].handle = more[k].handle => j = k
  BY <1>2, <1>4 DEF Consistent
<1>6. ASSUME NEW k \in DOMAIN outs
      PROVE  Users(new, outs[k].handle) = Users(ts, outs[k].handle)
  <2>1. outs[k] \in OutputType
    BY <1>1
  <2>2. outs[k].handle \in Handles /\ outs[k].handle # o.handle
    BY <1>4, <2>1 DEF OutputType
  <2>. QED
    BY <2>2 DEF Users
<1>7. Users(new, o.handle) = {t}
  <2>1. \A u \in Tracks : ts[u].output # o.handle
    BY <1>3 DEF Consistent
  <2>. QED
    BY <2>1 DEF Users
<1>8. Cardinality({t}) = 1
  BY FS_Singleton
<1>9. \A k \in DOMAIN more :
          more[k].opens = Cardinality(Users(new, more[k].handle))
  <2>1. \A k \in DOMAIN outs :
            outs[k].opens = Cardinality(Users(new, outs[k].handle))
    BY <1>6 DEF Consistent
  <2>2. o.opens = Cardinality(Users(new, o.handle))
    BY <1>7, <1>8
  <2>. QED
    BY <1>2, <2>1, <2>2
<1>10. \A u \in Tracks : new[u].output \in Handles =>
           new[u].output \in HandlesOf(more)
  <2>1. HandlesOf(more) = HandlesOf(outs) \cup {o.handle}
    BY <1>2 DEF HandlesOf
  <2>. QED
    BY <2>1 DEF Consistent
<1>11. Consistent(more, new)
  BY <1>2, <1>5, <1>9, <1>10 DEF Consistent
<1>. QED
  BY <1>11 DEF more

\* One more track plays on an output that is open.
LEMMA JoinKeeps ==
    ASSUME NEW outs, NEW ts, Consistent(outs, ts),
           NEW t \in Tracks, ts[t].output \notin Handles,
           NEW k \in DOMAIN outs,
           NEW new \in TracksType, new[t].output = outs[k].handle,
           \A u \in Tracks \ {t} : new[u] = ts[u]
    PROVE  Consistent([outs EXCEPT ![k].opens = @ + 1], new)
<1>. DEFINE more == [outs EXCEPT ![k].opens = @ + 1]
<1>1. outs \in Seq(OutputType)
  BY DEF Consistent
<1>2. \A j \in DOMAIN outs : /\ outs[j] \in OutputType
                             /\ outs[j].handle \in Handles
                             /\ outs[j].opens \in Nat \ {0}
  BY <1>1, OutputFields
<1>3. /\ DOMAIN more = DOMAIN outs
      /\ \A j \in DOMAIN outs \ {k} : more[j] = outs[j]
      /\ more[k] = [outs[k] EXCEPT !.opens = @ + 1]
  OBVIOUS
<1>4. /\ more[k] \in OutputType
      /\ more[k].handle = outs[k].handle
      /\ more[k].opens = outs[k].opens + 1
  BY <1>2, <1>3 DEF OutputType
<1>5. more \in Seq(OutputType)
  <2>1. DOMAIN more = 1 .. Len(outs) /\ Len(outs) \in Nat
    BY <1>1
  <2>2. \A j \in 1 .. Len(outs) : more[j] \in OutputType
    BY <1>1, <1>2, <1>3, <1>4
  <2>3. more = [j \in 1 .. Len(outs) |-> more[j]]
    BY <2>1
  <2>. HIDE DEF more
  <2>. QED
    BY <2>1, <2>2, <2>3
<1>. HIDE DEF more
<1>6. \A i, j \in DOMAIN more : more[i].handle = more[j].handle => i = j
  BY <1>3, <1>4 DEF Consistent
<1>7. \A j \in DOMAIN outs \ {k} :
          Users(new, outs[j].handle) = Users(ts, outs[j].handle)
  <2>1. \A j \in DOMAIN outs \ {k} : outs[j].handle # outs[k].handle
    BY DEF Consistent
  <2>. QED
    BY <1>2, <2>1 DEF Users
<1>8. Cardinality(Users(new, outs[k].handle)) = outs[k].opens + 1
  <2>1. /\ Users(new, outs[k].handle) = Users(ts, outs[k].handle) \cup {t}
        /\ t \notin Users(ts, outs[k].handle)
    BY <1>2 DEF Users
  <2>2. Cardinality(Users(ts, outs[k].handle) \cup {t})
            = Cardinality(Users(ts, outs[k].handle)) + 1
    BY <2>1, UsersFinite, FS_AddElement
  <2>. QED
    BY <2>1, <2>2 DEF Consistent
<1>9. \A j \in DOMAIN more :
          more[j].opens = Cardinality(Users(new, more[j].handle))
  <2>1. \A j \in DOMAIN outs \ {k} :
            outs[j].opens = Cardinality(Users(new, outs[j].handle))
    BY <1>7 DEF Consistent
  <2>. QED
    BY <1>3, <1>4, <1>8, <2>1
<1>10. HandlesOf(more) = HandlesOf(outs)
  BY <1>3, <1>4 DEF HandlesOf
<1>11. \A u \in Tracks : new[u].output \in Handles =>
           new[u].output \in HandlesOf(more)
  BY <1>10 DEF Consistent, HandlesOf
<1>12. Consistent(more, new)
  BY <1>5, <1>6, <1>9, <1>11 DEF Consistent
<1>. QED
  BY <1>12 DEF more

\* The outputs with a track less on the one that has this handle.
Dropped(outs, h) ==
    [k \in DOMAIN outs |-> IF outs[k].handle = h
                           THEN [outs[k] EXCEPT !.opens = @ - 1]
                           ELSE outs[k]]

StillUsed(less) == {k \in DOMAIN less : less[k].opens > 0}

\* A track leaves its output, which is closed if no other plays on it.
LEMMA LeaveKeeps ==
    ASSUME NEW outs, NEW ts, Consistent(outs, ts), NEW t \in Tracks,
           NEW new \in TracksType, new[t].output \notin Handles,
           \A u \in Tracks \ {t} : new[u] = ts[u]
    PROVE  LET less == Dropped(outs, ts[t].output)
               left == Pick(less, StillUsed(less))
           IN  /\ Consistent(left, new)
               /\ \A n \in DOMAIN left : \E k \in DOMAIN outs :
                      left[n].profile = outs[k].profile
               /\ OnePerProfile(outs) => OnePerProfile(left)
<1>. DEFINE less == Dropped(outs, ts[t].output)
            open == StillUsed(less)
            left == Pick(less, open)
<1>1. outs \in Seq(OutputType) /\ Len(outs) \in Nat /\ DOMAIN outs = 1 .. Len(outs)
  BY DEF Consistent
<1>2. ASSUME NEW k \in DOMAIN outs
      PROVE  /\ less[k].handle = outs[k].handle
             /\ less[k].profile = outs[k].profile
             /\ less[k].opens = Cardinality(Users(new, less[k].handle))
             /\ less[k].opens \in Nat
             /\ less[k].opens # 0 => less[k] \in OutputType
  <2>0. /\ outs[k] \in OutputType
        /\ outs[k].handle \in Handles
        /\ outs[k].opens \in Nat \ {0}
    BY <1>1, OutputFields
  <2>1. outs[k].opens = Cardinality(Users(ts, outs[k].handle))
    BY DEF Consistent
  <2>2. CASE outs[k].handle = ts[t].output
    <3>1. less[k] = [outs[k] EXCEPT !.opens = @ - 1]
      BY <2>2 DEF Dropped
    <3>2. /\ less[k].handle = outs[k].handle
          /\ less[k].profile = outs[k].profile
          /\ less[k].opens = outs[k].opens - 1
          /\ less[k].opens # 0 => less[k] \in OutputType
      BY <2>0, <3>1 DEF OutputType
    <3>3. /\ Users(new, outs[k].handle) = Users(ts, outs[k].handle) \ {t}
          /\ t \in Users(ts, outs[k].handle)
      BY <2>0, <2>2 DEF Users
    <3>4. Cardinality(Users(ts, outs[k].handle) \ {t})
              = Cardinality(Users(ts, outs[k].handle)) - 1
      BY <3>3, UsersFinite, FS_RemoveElement
    <3>. QED
      BY <2>0, <2>1, <3>2, <3>3, <3>4
  <2>3. CASE outs[k].handle # ts[t].output
    <3>1. less[k] = outs[k]
      BY <2>3 DEF Dropped
    <3>3. Users(new, outs[k].handle) = Users(ts, outs[k].handle)
      BY <2>0, <2>3 DEF Users
    <3>. QED
      BY <2>0, <2>1, <3>1, <3>3
  <2>. QED
    BY <2>2, <2>3
<1>3. DOMAIN less = DOMAIN outs
  BY DEF Dropped
<1>. HIDE DEF less
<1>4. \A k \in open : k \in DOMAIN outs /\ less[k].opens # 0
  BY <1>2, <1>3 DEF StillUsed
<1>5. \A k \in DOMAIN outs : less[k].opens # 0 => k \in open
  BY <1>2, <1>3 DEF StillUsed
<1>. HIDE DEF open
<1>. HIDE DEF left
<1>6. PICK e : /\ Counts(e, open)
               /\ \A n \in 1 .. Cardinality(open) :
                      Pick(less, open)[n] = less[e[n]]
  <2>1. /\ open \subseteq DOMAIN less
        /\ \E len \in Nat : DOMAIN less = 1 .. len
    BY <1>1, <1>3, <1>4
  <2>. QED
    BY <2>1, PickEnumerates
<1>. DEFINE card == Cardinality(open)
<1>7. /\ card \in Nat
      /\ DOMAIN left = 1 .. card
      /\ \A n \in 1 .. card : /\ e[n] \in DOMAIN outs
                              /\ left[n] = less[e[n]]
                              /\ less[e[n]].opens # 0
  BY <1>4, <1>6 DEF Counts, left, Pick
<1>8. left \in Seq(OutputType)
  <2>1. /\ open \subseteq DOMAIN less
        /\ \E len \in Nat : DOMAIN less = 1 .. len
        /\ \A k \in open : less[k] \in OutputType
    BY <1>1, <1>2, <1>3, <1>4
  <2>. QED
    BY <2>1, PickEnumerates DEF left
<1>. HIDE DEF card
<1>9. \A m, n \in DOMAIN left : e[m] = e[n] => m = n
  BY <1>6, <1>7 DEF Counts, card
<1>10. \A m, n \in DOMAIN left : left[m].handle = left[n].handle => m = n
  BY <1>2, <1>7, <1>9 DEF Consistent
<1>11. \A n \in DOMAIN left :
           left[n].opens = Cardinality(Users(new, left[n].handle))
  BY <1>2, <1>7
<1>12. ASSUME NEW u \in Tracks, new[u].output \in Handles
       PROVE  new[u].output \in HandlesOf(left)
  <2>1. u # t /\ new[u] = ts[u]
    BY <1>12
  <2>2. PICK k \in DOMAIN outs : outs[k].handle = new[u].output
    BY <1>12, <2>1 DEF Consistent, HandlesOf
  <2>3. u \in Users(new, less[k].handle)
    BY <1>2, <2>2 DEF Users
  <2>4. less[k].opens # 0
    BY <1>2, <2>3, UsersFinite, FS_EmptySet
  <2>5. PICK n \in 1 .. card : e[n] = k
    BY <1>5, <1>6, <2>4 DEF Counts, card
  <2>. QED
    BY <1>2, <1>7, <2>2, <2>5 DEF HandlesOf
<1>13. Consistent(left, new)
  BY <1>8, <1>10, <1>11, <1>12 DEF Consistent
<1>14. \A n \in DOMAIN left : \E k \in DOMAIN outs :
           left[n].profile = outs[k].profile
  BY <1>2, <1>7
<1>15. OnePerProfile(outs) => OnePerProfile(left)
  BY <1>2, <1>7, <1>9 DEF OnePerProfile
<1>. QED
  BY <1>13, <1>14, <1>15 DEF left, open, less

\* While a track has no output, there is a handle for it.
LEMMA HandleIsFree ==
    ASSUME NEW outs, NEW ts, Consistent(outs, ts),
           NEW t \in Tracks, ts[t].output \notin Handles
    PROVE  \E h \in Handles : h \notin HandlesOf(outs)
<1>. DEFINE taken == HandlesOf(outs)
            user == [h \in taken |-> CHOOSE u \in Tracks : ts[u].output = h]
<1>1. outs \in Seq(OutputType)
  BY DEF Consistent
<1>2. taken \in SUBSET Handles
  BY <1>1, OutputFields DEF HandlesOf
<1>3. ASSUME NEW h \in taken
      PROVE  \E u \in Tracks : ts[u].output = h
  <2>1. PICK k \in DOMAIN outs : outs[k].handle = h
    BY DEF HandlesOf
  <2>2. Cardinality(Users(ts, h)) # 0
    BY <1>1, <2>1, OutputFields DEF Consistent
  <2>3. Users(ts, h) # {}
    BY <2>2, FS_EmptySet
  <2>. QED
    BY <2>3 DEF Users
<1>4. \A h \in taken : user[h] \in Tracks \ {t} /\ ts[user[h]].output = h
  BY <1>2, <1>3
<1>5. user \in Injection(taken, Tracks \ {t})
  <2>1. user \in [taken -> Tracks \ {t}]
    BY <1>4
  <2>. HIDE DEF user, taken
  <2>. QED
    BY <1>4, <2>1 DEF Injection, IsInjective
<1>6. /\ IsFiniteSet(Tracks \ {t})
      /\ Cardinality(Tracks \ {t}) = Cardinality(Tracks) - 1
  BY HandlesAssumption, FS_RemoveElement
<1>7. IsFiniteSet(taken) /\ Cardinality(taken) <= Cardinality(Tracks \ {t})
  BY <1>5, <1>6, FS_Injection
<1>8. /\ Cardinality(taken) \in Nat /\ Cardinality(Tracks) \in Nat
      /\ Cardinality(Handles) \in Nat
  BY <1>7, HandlesAssumption, FS_CardinalityType
<1>9. taken # Handles
  BY <1>6, <1>7, <1>8, HandlesAssumption
<1>. QED
  BY <1>2, <1>9

-----------------------------------------------------------------------------
(***************************************************************************)
(* Every action keeps the outputs and the tracks consistent.               *)
(***************************************************************************)
Counted == Consistent(mOutputs, tracks) /\ OnePerProfile(mOutputs)

\* A list with the profiles of some members of another one.
ProfilesOf(outs) == {outs[k].profile : k \in DOMAIN outs}

LEMMA SubProfiles ==
    ASSUME NEW new, NEW old, Sub(new, old)
    PROVE  ProfilesOf(new) \subseteq ProfilesOf(old)
BY DEF Sub, ProfilesOf

LEMMA RequestFields ==
    ASSUME NEW r \in Asked
    PROVE  /\ r.stream \in Streams /\ r.format \in Formats
           /\ r.flags \subseteq Flags /\ r.media \in BOOLEAN
BY AskedAssumption DEF Requests

LEMMA PlaysTracks ==
    ASSUME NEW ts \in TracksType, NEW t \in Tracks, NEW r \in Asked,
           NEW output \in Handles \cup Mixed
    PROVE  LET new == Plays(ts, t, r, output) IN
           /\ new \in TracksType
           /\ new[t] = [output |-> output, stream |-> r.stream, stale |-> FALSE]
           /\ \A u \in Tracks \ {t} : new[u] = ts[u]
<1>1. r.stream \in Streams
  BY RequestFields
<1>2. [output |-> output, stream |-> r.stream, stale |-> FALSE] \in
          [output : Handles \cup Mixed \cup {"none", "gone"},
           stream : Streams, stale : BOOLEAN]
  BY <1>1
<1>. QED
  BY <1>2 DEF Plays, TracksType

LEMMA MixedProfiles ==
    ASSUME NEW r, NEW flags PROVE MixedProfile(r, flags) \in Mixed \ Handles
BY HandlesAssumption DEF MixedProfile, Mixed

LEMMA FallBackTracks ==
    ASSUME NEW outs, NEW ts, Consistent(outs, ts),
           NEW t \in Tracks, ts[t].output \notin Handles,
           NEW r \in Asked, NEW flags
    PROVE  LET new == FallBack(ts, t, r, flags) IN
           /\ Consistent(outs, new)
           /\ \A u \in Tracks \ {t} : new[u] = ts[u]
           /\ \/ new[t] = ts[t]
              \/ new[t] = [output |-> MixedProfile(r, flags),
                           stream |-> r.stream, stale |-> FALSE]
<1>. DEFINE mixed == MixedProfile(r, flags)
            new == Plays(ts, t, r, mixed)
<1>1. mixed \in Mixed \ Handles
  BY MixedProfiles
<1>2. ts \in TracksType
  BY DEF Consistent
<1>3. /\ new \in TracksType
      /\ new[t] = [output |-> mixed, stream |-> r.stream, stale |-> FALSE]
      /\ \A u \in Tracks \ {t} : new[u] = ts[u]
  BY <1>1, <1>2, PlaysTracks
<1>. HIDE DEF mixed, new
<1>4. Consistent(outs, new)
  <2>1. new[t].output \notin Handles
    BY <1>1, <1>3
  <2>2. \A u \in Tracks : \/ new[u].output = ts[u].output
                          \/ /\ new[u].output \notin Handles
                             /\ ts[u].output \notin Handles
    BY <1>3, <2>1
  <2>. QED
    BY <1>3, <2>2, RetrackKeeps
<1>. QED
  BY <1>3, <1>4 DEF FallBack, new, mixed

LEMMA KeptForIsSub ==
    ASSUME mOutputs \in Seq(OutputType), NEW r, NEW flags
    PROVE  /\ Sub(KeptFor(r, flags), mOutputs)
           /\ \/ isAudioMultipleOffloadEnable
              \/ \A k \in DOMAIN KeptFor(r, flags) :
                     KeptFor(r, flags)[k].profile # DirectProfile(r, flags)
<1>1. CASE isAudioMultipleOffloadEnable
  BY <1>1, SubReflexive DEF KeptFor
<1>2. CASE ~isAudioMultipleOffloadEnable
  <2>. DEFINE places == {k \in DOMAIN mOutputs :
                            mOutputs[k].profile # DirectProfile(r, flags)}
  <2>1. places \in SUBSET DOMAIN mOutputs
    OBVIOUS
  <2>2. \A k \in places : mOutputs[k].profile # DirectProfile(r, flags)
    OBVIOUS
  <2>3. KeptFor(r, flags) = Pick(mOutputs, places)
    BY <1>2 DEF KeptFor
  <2>. HIDE DEF places
  <2>4. /\ Sub(Pick(mOutputs, places), mOutputs)
        /\ \A n \in DOMAIN Pick(mOutputs, places) :
               \E k \in places : Pick(mOutputs, places)[n] = mOutputs[k]
    BY <2>1, PickIsSub, PickMembers
  <2>. QED
    BY <2>2, <2>3, <2>4
<1>. QED
  BY <1>1, <1>2

\* Opening an output for a track that has none.
LEMMA OpenDirectKeeps ==
    ASSUME Counted, NEW t \in Tracks, tracks[t].output = "none",
           NEW r \in Asked, OpenDirect(t, r)
    PROVE  /\ Counted'
           /\ ProfilesOf(mOutputs') \subseteq ProfilesOf(mOutputs)
                  \cup {DirectProfile(r, FinalFlags(r, Session[t]))}
           /\ tracks'[t].output \in Handles /\ tracks'[t].stream = r.stream
           /\ \A u \in Tracks \ {t} :
                  ~tracks'[u].stale => ~tracks[u].stale /\ tracks'[u] = tracks[u]
<1>. DEFINE flags == FinalFlags(r, Session[t])
            profile == DirectProfile(r, flags)
            kept == KeptFor(r, flags)
            h == CHOOSE h \in Handles : h \notin HandlesOf(mOutputs)
            o == [handle |-> h, format |-> r.format, profile |-> profile,
                  session |-> Session[t], opens |-> 1]
            left == Disturbed(tracks, kept, {})
<1>1. /\ Consistent(mOutputs, tracks) /\ OnePerProfile(mOutputs)
      /\ mOutputs \in Seq(OutputType) /\ tracks \in TracksType
  BY DEF Counted, Consistent
<1>2. h \in Handles /\ h \notin HandlesOf(mOutputs)
  <2>1. tracks[t].output \notin Handles
    BY HandlesAssumption
  <2>. QED
    BY <1>1, <2>1, HandleIsFree
<1>3. mOutputs' = Append(kept, o) /\ tracks' = Plays(left, t, r, h)
  BY DEF OpenDirect
<1>4. o \in OutputType
  <2>1. profile \in {"direct", "offload", "voip"}
    BY DEF DirectProfile
  <2>2. r.format \in Formats /\ Session[t] \in Sessions
    BY RequestFields, SessionAssumption
  <2>. HIDE DEF h, profile
  <2>. QED
    BY <1>2, <2>1, <2>2 DEF OutputType
<1>5. /\ Sub(kept, mOutputs)
      /\ \/ isAudioMultipleOffloadEnable
         \/ \A k \in DOMAIN kept : kept[k].profile # profile
  BY <1>1, KeptForIsSub
<1>. HIDE DEF flags, profile, h
<1>6. o.handle = h /\ o.opens = 1 /\ o.profile = profile
  OBVIOUS
<1>. HIDE DEF kept, o
<1>7. kept \in Seq(OutputType)
  BY <1>1, <1>5, SubType
<1>8. Consistent(kept, left)
  BY <1>1, <1>5, ShrinkKeeps
<1>9. h \notin HandlesOf(kept)
  <2>1. HandlesOf(kept) \subseteq HandlesOf(mOutputs)
    BY <1>5 DEF Sub, HandlesOf
  <2>. QED
    BY <1>2, <2>1
<1>10. /\ left \in TracksType
       /\ left[t].output = "none"
       /\ \A u \in Tracks :
              ~left[u].stale => ~tracks[u].stale /\ left[u] = tracks[u]
  <2>1. /\ left \in TracksType
        /\ \A u \in Tracks :
              /\ left[u].output # tracks[u].output => tracks[u].output \in Handles
              /\ ~left[u].stale => ~tracks[u].stale /\ left[u] = tracks[u]
    BY <1>1, DisturbedTracks
  <2>2. tracks[t].output \notin Handles
    BY HandlesAssumption
  <2>. QED
    BY <2>1, <2>2
<1>. HIDE DEF left
<1>11. /\ tracks' \in TracksType
       /\ tracks'[t] = [output |-> h, stream |-> r.stream, stale |-> FALSE]
       /\ \A u \in Tracks \ {t} : tracks'[u] = left[u]
  BY <1>2, <1>3, <1>10, PlaysTracks
<1>12. Consistent(Append(kept, o), tracks')
  <2>1. left[t].output \notin Handles /\ tracks'[t].output = o.handle
    BY <1>6, <1>10, <1>11, HandlesAssumption
  <2>. QED
    BY <1>4, <1>6, <1>8, <1>9, <1>11, <2>1, AppendKeeps
<1>13. /\ DOMAIN Append(kept, o) = DOMAIN kept \cup {Len(kept) + 1}
       /\ \A k \in DOMAIN kept : Append(kept, o)[k] = kept[k]
       /\ Append(kept, o)[Len(kept) + 1] = o
  BY <1>7
<1>14. OnePerProfile(kept)
  BY <1>1, <1>5, ShrinkOnePerProfile
<1>15. OnePerProfile(Append(kept, o))
  BY <1>5, <1>6, <1>13, <1>14 DEF OnePerProfile
<1>16. ProfilesOf(Append(kept, o)) \subseteq ProfilesOf(mOutputs) \cup {profile}
  <2>1. ProfilesOf(kept) \subseteq ProfilesOf(mOutputs)
    BY <1>5, SubProfiles
  <2>2. ProfilesOf(Append(kept, o)) \subseteq ProfilesOf(kept) \cup {profile}
    BY <1>6, <1>13 DEF ProfilesOf
  <2>. QED
    BY <2>1, <2>2
<1>17. tracks'[t].output \in Handles /\ tracks'[t].stream = r.stream
  BY <1>2, <1>11
<1>. QED
  BY <1>3, <1>10, <1>11, <1>12, <1>15, <1>16, <1>17 DEF Counted, profile, flags

LEMMA ReuseKeeps ==
    ASSUME Counted, NEW t \in Tracks, tracks[t].output = "none",
           NEW r \in Asked, Reuse(t, r)
    PROVE  /\ Counted'
           /\ ProfilesOf(mOutputs') = ProfilesOf(mOutputs)
           /\ tracks'[t].output \in Handles /\ tracks'[t].stream = r.stream
           /\ \A u \in Tracks \ {t} : tracks'[u] = tracks[u]
<1>1. /\ Consistent(mOutputs, tracks) /\ OnePerProfile(mOutputs)
      /\ mOutputs \in Seq(OutputType) /\ tracks \in TracksType
  BY DEF Counted, Consistent
<1>2. PICK k \in DOMAIN mOutputs :
          /\ mOutputs' = [mOutputs EXCEPT ![k].opens = @ + 1]
          /\ tracks' = Plays(tracks, t, r, mOutputs[k].handle)
  BY DEF Reuse, Reusable, SameProfile, Open
<1>3. mOutputs[k] \in OutputType /\ mOutputs[k].handle \in Handles
  BY <1>1, OutputFields
<1>4. /\ tracks' \in TracksType
      /\ tracks'[t] = [output |-> mOutputs[k].handle, stream |-> r.stream,
                       stale |-> FALSE]
      /\ \A u \in Tracks \ {t} : tracks'[u] = tracks[u]
  BY <1>1, <1>2, <1>3, PlaysTracks
<1>5. /\ tracks[t].output \notin Handles
      /\ tracks'[t].output = mOutputs[k].handle
      /\ tracks'[t].stream = r.stream
  BY <1>4, HandlesAssumption
<1>6. Consistent(mOutputs', tracks')
  <2>1. Consistent([mOutputs EXCEPT ![k].opens = @ + 1], tracks')
    BY <1>1, <1>4, <1>5, JoinKeeps
  <2>. QED
    BY <1>2, <2>1
<1>7. /\ DOMAIN mOutputs' = DOMAIN mOutputs
      /\ \A j \in DOMAIN mOutputs : mOutputs'[j].profile = mOutputs[j].profile
  BY <1>2, <1>3 DEF OutputType
<1>8. OnePerProfile(mOutputs')
  BY <1>1, <1>7 DEF OnePerProfile
<1>9. ProfilesOf(mOutputs') = ProfilesOf(mOutputs)
  BY <1>7 DEF ProfilesOf
<1>. QED
  BY <1>3, <1>4, <1>5, <1>6, <1>8, <1>9 DEF Counted

LEMMA TakeMixedKeeps ==
    ASSUME Counted, NEW t \in Tracks, tracks[t].output = "none",
           NEW r \in Asked, TakeMixed(t, r)
    PROVE  /\ Counted' /\ mOutputs' = mOutputs
           /\ \A u \in Tracks \ {t} : tracks'[u] = tracks[u]
           /\ \/ tracks'[t] = tracks[t]
              \/ tracks'[t] = [output |-> MixedProfile(r, FinalFlags(r, Session[t])),
                               stream |-> r.stream, stale |-> FALSE]
<1>. DEFINE flags == FinalFlags(r, Session[t])
<1>1. Consistent(mOutputs, tracks) /\ OnePerProfile(mOutputs)
  BY DEF Counted
<1>2. tracks' = FallBack(tracks, t, r, flags) /\ mOutputs' = mOutputs
  BY DEF TakeMixed
<1>3. tracks[t].output \notin Handles
  BY HandlesAssumption
<1>. HIDE DEF flags
<1>4. /\ Consistent(mOutputs, FallBack(tracks, t, r, flags))
      /\ \A u \in Tracks \ {t} : FallBack(tracks, t, r, flags)[u] = tracks[u]
      /\ \/ FallBack(tracks, t, r, flags)[t] = tracks[t]
         \/ FallBack(tracks, t, r, flags)[t] =
                [output |-> MixedProfile(r, flags),
                 stream |-> r.stream, stale |-> FALSE]
  BY <1>1, <1>3, FallBackTracks
<1>. QED
  BY <1>1, <1>2, <1>4 DEF Counted, flags

LEMMA OpenFailsKeeps ==
    ASSUME Counted, NEW t \in Tracks, tracks[t].output = "none",
           NEW r \in Asked, OpenFails(t, r)
    PROVE  /\ Counted'
           /\ ProfilesOf(mOutputs') \subseteq ProfilesOf(mOutputs)
           /\ \A u \in Tracks \ {t} :
                  ~tracks'[u].stale => ~tracks[u].stale /\ tracks'[u] = tracks[u]
           /\ \/ tracks'[t].output = "none"
              \/ tracks'[t] = [output |-> MixedProfile(r, FinalFlags(r, Session[t])),
                               stream |-> r.stream, stale |-> FALSE]
<1>. DEFINE flags == FinalFlags(r, Session[t])
            kept == KeptFor(r, flags)
            left == Disturbed(tracks, kept, {})
<1>1. /\ Consistent(mOutputs, tracks) /\ OnePerProfile(mOutputs)
      /\ mOutputs \in Seq(OutputType) /\ tracks \in TracksType
  BY DEF Counted, Consistent
<1>2. tracks' = FallBack(left, t, r, flags) /\ mOutputs' = kept
  BY DEF OpenFails
<1>3. Sub(kept, mOutputs)
  BY <1>1, KeptForIsSub
<1>. HIDE DEF flags, kept
<1>4. Consistent(kept, left)
  BY <1>1, <1>3, ShrinkKeeps
<1>5. OnePerProfile(kept)
  BY <1>1, <1>3, ShrinkOnePerProfile
<1>6. ProfilesOf(kept) \subseteq ProfilesOf(mOutputs)
  BY <1>3, SubProfiles
<1>7. /\ left[t].output = "none" /\ left[t].output \notin Handles
      /\ \A u \in Tracks :
              ~left[u].stale => ~tracks[u].stale /\ left[u] = tracks[u]
  <2>1. \A u \in Tracks :
            /\ left[u].output # tracks[u].output => tracks[u].output \in Handles
            /\ ~left[u].stale => ~tracks[u].stale /\ left[u] = tracks[u]
    BY <1>1, DisturbedTracks
  <2>2. tracks[t].output \notin Handles
    BY HandlesAssumption
  <2>. QED
    BY <2>1, <2>2
<1>. HIDE DEF left
<1>8. /\ Consistent(kept, FallBack(left, t, r, flags))
      /\ \A u \in Tracks \ {t} : FallBack(left, t, r, flags)[u] = left[u]
      /\ \/ FallBack(left, t, r, flags)[t] = left[t]
         \/ FallBack(left, t, r, flags)[t] =
                [output |-> MixedProfile(r, flags),
                 stream |-> r.stream, stale |-> FALSE]
  BY <1>4, <1>7, FallBackTracks
<1>. QED
  BY <1>2, <1>5, <1>6, <1>7, <1>8 DEF Counted, flags

LEMMA ReleaseKeeps ==
    ASSUME Counted, NEW t \in Tracks, ReleaseOutput(t)
    PROVE  /\ Counted'
           /\ ProfilesOf(mOutputs') \subseteq ProfilesOf(mOutputs)
           /\ tracks'[t] = NoTrack
           /\ \A u \in Tracks \ {t} : tracks'[u] = tracks[u]
<1>. DEFINE less == Dropped(mOutputs, tracks[t].output)
            left == Pick(less, StillUsed(less))
<1>1. /\ Consistent(mOutputs, tracks) /\ OnePerProfile(mOutputs)
      /\ tracks \in TracksType
  BY DEF Counted, Consistent
<1>2. mOutputs' = left /\ tracks' = [tracks EXCEPT ![t] = NoTrack]
  BY DEF ReleaseOutput, Dropped, StillUsed
<1>3. /\ tracks' \in TracksType /\ tracks'[t] = NoTrack
      /\ \A u \in Tracks \ {t} : tracks'[u] = tracks[u]
  <2>1. NoTrack \in [output : Handles \cup Mixed \cup {"none", "gone"},
                     stream : Streams, stale : BOOLEAN]
    BY DEF NoTrack, Streams
  <2>. QED
    BY <1>1, <1>2, <2>1 DEF TracksType
<1>4. tracks'[t].output \notin Handles
  BY <1>3, HandlesAssumption DEF NoTrack
<1>5. /\ Consistent(left, tracks')
      /\ \A n \in DOMAIN left : \E k \in DOMAIN mOutputs :
             left[n].profile = mOutputs[k].profile
      /\ OnePerProfile(mOutputs) => OnePerProfile(left)
  BY <1>1, <1>3, <1>4, LeaveKeeps
<1>6. ProfilesOf(left) \subseteq ProfilesOf(mOutputs)
  BY <1>5 DEF ProfilesOf
<1>. QED
  BY <1>1, <1>2, <1>3, <1>5, <1>6 DEF Counted

\* Closing outputs and invalidating streams.
LEMMA ClosingKeeps ==
    ASSUME Counted, Sub(mOutputs', mOutputs), NEW streams,
           tracks' = Disturbed(tracks, mOutputs', streams)
    PROVE  /\ Counted'
           /\ ProfilesOf(mOutputs') \subseteq ProfilesOf(mOutputs)
           /\ \A u \in Tracks :
                  /\ ~tracks'[u].stale => ~tracks[u].stale /\ tracks'[u] = tracks[u]
                  /\ ~tracks'[u].stale /\ tracks[u].output # "none" =>
                         tracks[u].stream \notin streams
<1>1. /\ Consistent(mOutputs, tracks) /\ OnePerProfile(mOutputs)
      /\ tracks \in TracksType
  BY DEF Counted, Consistent
<1>2. Consistent(mOutputs', tracks')
  BY <1>1, ShrinkKeeps
<1>3. OnePerProfile(mOutputs')
  BY <1>1, ShrinkOnePerProfile
<1>4. ProfilesOf(mOutputs') \subseteq ProfilesOf(mOutputs)
  BY SubProfiles
<1>5. \A u \in Tracks :
          /\ ~tracks'[u].stale => ~tracks[u].stale /\ tracks'[u] = tracks[u]
          /\ ~tracks'[u].stale /\ tracks[u].output # "none" =>
                 tracks[u].stream \notin streams
  BY <1>1, DisturbedTracks
<1>. QED
  BY <1>2, <1>3, <1>4, <1>5 DEF Counted

LEMMA AnnounceKeeps ==
    ASSUME Counted, AnnounceCapture
    PROVE  /\ Counted'
           /\ ProfilesOf(mOutputs') \subseteq ProfilesOf(mOutputs)
           /\ \A u \in Tracks :
                  ~tracks'[u].stale => ~tracks[u].stale /\ tracks'[u] = tracks[u]
<1>1. CASE RecPlayBegins
  <2>1. mOutputs \in Seq(OutputType)
    BY DEF Counted, Consistent
  <2>2. Sub(mOutputs', mOutputs)
    BY <1>1, <2>1, CloseLoopIsSub DEF AnnounceCapture
  <2>3. tracks' = Disturbed(tracks, mOutputs', FromSystem \ {"ENFORCED_AUDIBLE"})
    BY <1>1 DEF AnnounceCapture
  <2>. QED
    BY <2>2, <2>3, ClosingKeeps
<1>2. CASE ~RecPlayBegins
  BY <1>2 DEF AnnounceCapture, Counted
<1>. QED
  BY <1>1, <1>2

LEMMA LoopsSub ==
    ASSUME mOutputs \in Seq(OutputType), NEW new
    PROVE  /\ Sub(AfterCallLoop(new), mOutputs)
           /\ Sub(AfterAllLoops(new), AfterCallLoop(new))
           /\ Sub(AfterAllLoops(new), mOutputs)
<1>1. Sub(AfterCallLoop(new), mOutputs) /\ AfterCallLoop(new) \in Seq(OutputType)
  BY CloseLoopIsSub, SubReflexive DEF AfterCallLoop
<1>2. /\ Sub(AfterDsdLoop(new), AfterCallLoop(new))
      /\ AfterDsdLoop(new) \in Seq(OutputType)
  BY <1>1, CloseLoopIsSub DEF AfterDsdLoop
<1>3. Sub(AfterAllLoops(new), AfterDsdLoop(new))
  BY <1>2, CloseLoopIsSub, SubReflexive DEF AfterAllLoops
<1>4. Sub(AfterAllLoops(new), AfterCallLoop(new))
  BY <1>2, <1>3, SubTransitive
<1>. QED
  BY <1>1, <1>4, SubTransitive

LEMMA PhoneStateKeeps ==
    ASSUME Counted, NEW new \in Modes, setPhoneState(new)
    PROVE  /\ Counted'
           /\ ProfilesOf(mOutputs') \subseteq ProfilesOf(mOutputs)
           /\ \A u \in Tracks :
                  ~tracks'[u].stale => ~tracks[u].stale /\ tracks'[u] = tracks[u]
<1>1. mOutputs \in Seq(OutputType)
  BY DEF Counted, Consistent
<1>2. Sub(mOutputs', mOutputs)
  BY <1>1, LoopsSub DEF setPhoneState
<1>3. PICK streams : tracks' = Disturbed(tracks, mOutputs', streams)
  BY DEF setPhoneState
<1>. QED
  BY <1>2, <1>3, ClosingKeeps

LEMMA GetOutputKeeps ==
    ASSUME Counted, NEW t \in Tracks, NEW r \in Asked, GetOutput(t, r)
    PROVE  LET flags == FinalFlags(r, Session[t]) IN
           /\ Counted'
           /\ Served(r, Session[t])
           /\ ProfilesOf(mOutputs') \subseteq ProfilesOf(mOutputs) \cup
                  (IF SkipsDirect(r, flags) THEN {} ELSE {DirectProfile(r, flags)})
           /\ \A u \in Tracks \ {t} :
                  ~tracks'[u].stale => ~tracks[u].stale /\ tracks'[u] = tracks[u]
           /\ \/ tracks'[t].output = "none"
              \/ /\ tracks'[t].output \in Handles /\ tracks'[t].stream = r.stream
                 /\ ~SkipsDirect(r, flags)
              \/ tracks'[t] = [output |-> MixedProfile(r, flags),
                               stream |-> r.stream, stale |-> FALSE]
<1>. DEFINE flags == FinalFlags(r, Session[t])
<1>1. /\ tracks[t].output = "none" /\ Served(r, Session[t])
      /\ TakeMixed(t, r) \/ GetDirect(t, r)
  BY DEF GetOutput
<1>2. CASE TakeMixed(t, r)
  <2>1. ProfilesOf(mOutputs') = ProfilesOf(mOutputs)
    BY <1>1, <1>2, TakeMixedKeeps
  <2>. HIDE DEF flags
  <2>. QED
    BY <1>1, <1>2, <2>1, TakeMixedKeeps DEF flags
<1>3. CASE GetDirect(t, r)
  <2>1. /\ ~SkipsDirect(r, flags)
        /\ Reuse(t, r) \/ OpenDirect(t, r) \/ OpenFails(t, r)
    BY <1>3 DEF GetDirect
  <2>. HIDE DEF flags
  <2>2. CASE Reuse(t, r)
    BY <1>1, <2>1, <2>2, ReuseKeeps DEF flags
  <2>3. CASE OpenDirect(t, r)
    BY <1>1, <2>1, <2>3, OpenDirectKeeps DEF flags
  <2>4. CASE OpenFails(t, r)
    BY <1>1, <2>1, <2>4, OpenFailsKeeps DEF flags
  <2>. QED
    BY <2>1, <2>2, <2>3, <2>4
<1>. QED
  BY <1>1, <1>2, <1>3

LEMMA NextKeeps == ASSUME Counted, Next PROVE Counted'
<1>1. ASSUME NEW t \in Tracks, ReleaseOutput(t) PROVE Counted'
  BY <1>1, ReleaseKeeps
<1>2. ASSUME NEW t \in Tracks, NEW r \in Asked, GetOutput(t, r) PROVE Counted'
  BY <1>2, GetOutputKeeps
<1>3. ASSUME NEW c \in Clients, StartInput(c) \/ StartFails(c) PROVE Counted'
  BY <1>3, AnnounceKeeps DEF StartInput, StartFails
<1>4. ASSUME NEW c \in Clients, StopInput(c) PROVE Counted'
  <2>1. mOutputs \in Seq(OutputType)
    BY DEF Counted, Consistent
  <2>2. Sub(mOutputs', mOutputs)
    BY <1>4, <2>1, SubReflexive DEF StopInput
  <2>3. PICK streams : tracks' = Disturbed(tracks, mOutputs, streams)
    BY <1>4 DEF StopInput
  <2>4. tracks' = Disturbed(tracks, mOutputs', streams)
    BY <1>4, <2>3 DEF StopInput
  <2>. QED
    BY <2>2, <2>4, ClosingKeeps
<1>5. ASSUME NEW new \in Modes, setPhoneState(new) PROVE Counted'
  BY <1>5, PhoneStateKeeps
<1>6. ASSUME UNCHANGED <<mOutputs, tracks>> PROVE Counted'
  BY <1>6 DEF Counted
<1>7. ASSUME NEW t \in Tracks, NEW r \in Asked, AskOffload(t, r) PROVE Counted'
  BY <1>6, <1>7 DEF AskOffload
<1>8. ASSUME NEW c \in Clients, ReleaseInput(c) PROVE Counted'
  BY <1>6, <1>8 DEF ReleaseInput, outVars
<1>9. ASSUME NEW c \in Clients, NEW source \in Sources, OpenInput(c, source)
      PROVE  Counted'
  BY <1>6, <1>9 DEF OpenInput, outVars
<1>. QED
  BY <1>1, <1>2, <1>3, <1>4, <1>5, <1>7, <1>8, <1>9 DEF Next

LEMMA InitCounted == Init => Counted
<1>. SUFFICES ASSUME Init PROVE Counted
  OBVIOUS
<1>1. mOutputs = <<>> /\ tracks = [t \in Tracks |-> NoTrack]
  BY DEF Init
<1>2. NoTrack \in [output : Handles \cup Mixed \cup {"none", "gone"},
                   stream : Streams, stale : BOOLEAN]
  BY DEF NoTrack, Streams
<1>3. tracks \in TracksType /\ \A t \in Tracks : tracks[t].output = "none"
  BY <1>1, <1>2 DEF TracksType, NoTrack
<1>4. mOutputs \in Seq(OutputType) /\ DOMAIN mOutputs = {}
  BY <1>1
<1>. QED
  BY <1>3, <1>4, HandlesAssumption DEF Counted, Consistent, OnePerProfile

\* The number of tracks on a direct output is right in any configuration:
\* offload sessions may be multiple, and any two of the rules may be on.
THEOREM CountsRight == Spec => []DirectCountsRight
<1>1. Counted => DirectCountsRight
  BY DEF Counted, Consistent, HandlesOf, Users, DirectCountsRight
<1>2. Counted /\ [Next]_vars => Counted'
  <2>1. ASSUME Counted, UNCHANGED vars PROVE Counted'
    BY <2>1 DEF vars, outVars, Counted
  <2>. QED
    BY <2>1, NextKeeps
<1>. QED
  BY <1>1, <1>2, InitCounted, PTL DEF Spec

-----------------------------------------------------------------------------
(***************************************************************************)
(* Types.                                                                  *)
(***************************************************************************)
LEMMA SetStateType ==
    ASSUME inputs \in [Clients -> [state : {"none", "idle", "active"},
                                   source : Sources]],
           NEW c \in Clients, NEW state \in {"none", "idle", "active"}
    PROVE  /\ SetState(c, state) \in
                  [Clients -> [state : {"none", "idle", "active"}, source : Sources]]
           /\ SetState(c, state)[c].state = state
           /\ SetState(c, state)[c].source = inputs[c].source
           /\ \A d \in Clients \ {c} : SetState(c, state)[d] = inputs[d]
<1>. DEFINE new == [inputs[c] EXCEPT !.state = state]
<1>1. inputs[c] \in [state : {"none", "idle", "active"}, source : Sources]
  OBVIOUS
<1>2. /\ new \in [state : {"none", "idle", "active"}, source : Sources]
      /\ new.state = state /\ new.source = inputs[c].source
  BY <1>1
<1>3. SetState(c, state) = [inputs EXCEPT ![c] = new]
  BY DEF SetState
<1>. HIDE DEF new
<1>. QED
  BY <1>2, <1>3

TypedInputs ==
    /\ inputs \in [Clients -> [state : {"none", "idle", "active"},
                               source : Sources]]
    /\ recPlayConc \in BOOLEAN /\ capture \in BOOLEAN
    /\ mIsInputRequestOnProgress \in BOOLEAN

TypedModes ==
    /\ phone \in Modes /\ mPrevPhoneState \in Modes
    /\ mvoice_call_state \in BOOLEAN
    /\ mFallBackflag \in {"NONE", "FAST", "DEEP_BUFFER"}
    /\ suspended \in 0 .. MaxSuspends

TypedOffers == offers \in [Tracks -> Formats \cup {"none"}]

LEMMA InitTyped == Init => TypedInputs /\ TypedModes /\ TypedOffers
<1>1. NoInput \in [state : {"none", "idle", "active"}, source : Sources]
  BY DEF NoInput, Sources
<1>2. Init => TypedInputs
  BY <1>1 DEF Init, TypedInputs
<1>3. Init => TypedModes
  BY BoundAssumption DEF Init, TypedModes, Modes
<1>4. Init => TypedOffers
  BY DEF Init, TypedOffers
<1>. QED
  BY <1>2, <1>3, <1>4

LEMMA NextTyped ==
    ASSUME TypedInputs, TypedModes, TypedOffers, Next
    PROVE  TypedInputs' /\ TypedModes' /\ TypedOffers'
<1>1. ASSUME NEW t \in Tracks, ReleaseOutput(t)
      PROVE  TypedInputs' /\ TypedModes' /\ TypedOffers'
  BY <1>1 DEF ReleaseOutput, inVars, modeVars, TypedInputs, TypedModes, TypedOffers
<1>2. ASSUME NEW t \in Tracks, NEW r \in Asked, AskOffload(t, r) \/ GetOutput(t, r)
      PROVE  TypedInputs' /\ TypedModes' /\ TypedOffers'
  <2>1. r.format \in Formats
    BY RequestFields
  <2>2. TypedOffers'
    BY <1>2, <2>1 DEF AskOffload, GetOutput, TypedOffers
  <2>. QED
    BY <1>2, <2>2 DEF AskOffload, GetOutput, inVars, modeVars, TypedInputs, TypedModes
<1>3. ASSUME NEW c \in Clients, NEW source \in Sources, OpenInput(c, source)
      PROVE  TypedInputs' /\ TypedModes' /\ TypedOffers'
  BY <1>3 DEF OpenInput, outVars, modeVars, TypedInputs, TypedModes, TypedOffers
<1>4. ASSUME NEW c \in Clients, StartInput(c)
      PROVE  TypedInputs' /\ TypedModes' /\ TypedOffers'
  <2>1. inputs' \in [Clients -> [state : {"none", "idle", "active"},
                                 source : Sources]]
    BY <1>4, SetStateType DEF StartInput, TypedInputs
  <2>2. /\ recPlayConc' \in BOOLEAN /\ capture' \in BOOLEAN
        /\ mIsInputRequestOnProgress' \in BOOLEAN
    BY <1>4 DEF StartInput, AnnounceCapture, TypedInputs
  <2>. QED
    BY <1>4, <2>1, <2>2
       DEF StartInput, modeVars, TypedInputs, TypedModes, TypedOffers
<1>5. ASSUME NEW c \in Clients, StartFails(c)
      PROVE  TypedInputs' /\ TypedModes' /\ TypedOffers'
  BY <1>5 DEF StartFails, AnnounceCapture, modeVars,
              TypedInputs, TypedModes, TypedOffers
<1>6. ASSUME NEW c \in Clients, StopInput(c)
      PROVE  TypedInputs' /\ TypedModes' /\ TypedOffers'
  <2>1. inputs' \in [Clients -> [state : {"none", "idle", "active"},
                                 source : Sources]]
    BY <1>6, SetStateType DEF StopInput, Stop, TypedInputs
  <2>. QED
    BY <1>6, <2>1
       DEF StopInput, Stop, modeVars, TypedInputs, TypedModes, TypedOffers
<1>7. ASSUME NEW c \in Clients, ReleaseInput(c)
      PROVE  TypedInputs' /\ TypedModes' /\ TypedOffers'
  BY <1>7 DEF ReleaseInput, NoInput, Sources, outVars, modeVars,
              TypedInputs, TypedModes, TypedOffers
<1>8. ASSUME NEW new \in Modes, setPhoneState(new)
      PROVE  TypedInputs' /\ TypedModes' /\ TypedOffers'
  <2>1. TypedInputs'
    <3>1. inputs' \in [Clients -> [state : {"none", "idle", "active"},
                                   source : Sources]]
      BY <1>8 DEF setPhoneState, Stop, NoInput, Sources, TypedInputs
    <3>. QED
      BY <1>8, <3>1 DEF setPhoneState, Stop, TypedInputs
  <2>2. suspended' \in 0 .. MaxSuspends
    BY <1>8, BoundAssumption DEF setPhoneState, Suspends, TypedModes
  <2>3. TypedModes' /\ TypedOffers'
    BY <1>8, <2>2 DEF setPhoneState, TypedModes, TypedOffers
  <2>. QED
    BY <2>1, <2>3
<1>. QED
  BY <1>1, <1>2, <1>3, <1>4, <1>5, <1>6, <1>7, <1>8 DEF Next

THEOREM TypeCorrect == Spec => []TypeOK
<1>. DEFINE Inv == TypedInputs /\ TypedModes /\ TypedOffers /\ Counted
<1>1. Init => Inv
  BY InitTyped, InitCounted
<1>2. Inv /\ [Next]_vars => Inv'
  <2>1. ASSUME Inv, UNCHANGED vars PROVE Inv'
    BY <2>1 DEF vars, outVars, inVars, modeVars, TypedInputs, TypedModes,
                TypedOffers, Counted
  <2>. QED
    BY <2>1, NextTyped, NextKeeps
<1>3. Inv => TypeOK
  BY DEF TypedInputs, TypedModes, TypedOffers, Counted, Consistent,
         OutputType, TracksType, TypeOK
<1>. QED
  BY <1>1, <1>2, <1>3, PTL DEF Spec

-----------------------------------------------------------------------------
(***************************************************************************)
(* What becomes of the flags of a request.                                 *)
(***************************************************************************)
LEMMA MusicFlags ==
    ASSUME NEW r \in Asked, r.stream = "MUSIC", NEW session
    PROVE  LET flags == FirstFlags(r, session) IN
           /\ flags \subseteq r.flags
           /\ "VOIP_RX" \notin flags
           /\ "COMPRESS_OFFLOAD" \in r.flags => "COMPRESS_OFFLOAD" \in flags
           /\ "FAST" \in flags =>
                 flags \cap {"DIRECT", "COMPRESS_OFFLOAD", "HW_AV_SYNC"} = {}
<1>1. VoipFlags(r, session) = r.flags
  BY DEF VoipFlags
<1>2. FirstFlags(r, session) = VrFlags(r.flags)
  BY <1>1 DEF FirstFlags
<1>3. /\ "VOIP_RX" \notin r.flags
      /\ "FAST" \in r.flags =>
            r.flags \cap {"DIRECT", "COMPRESS_OFFLOAD", "HW_AV_SYNC"} = {}
  BY AskedAssumption
<1>4. /\ VrFlags(r.flags) \subseteq r.flags
      /\ "COMPRESS_OFFLOAD" \in r.flags => "COMPRESS_OFFLOAD" \in VrFlags(r.flags)
  BY DEF VrFlags
<1>. QED
  BY <1>2, <1>3, <1>4

\* Compressed data is asked for as music that is offloaded.
LEMMA CompressedIsMusic ==
    ASSUME NEW r \in Asked, r.format \notin LinearPcm, NEW session,
           Served(r, session)
    PROVE  r.stream = "MUSIC" /\ "COMPRESS_OFFLOAD" \in r.flags
BY AskedAssumption DEF Served

\* Flags for a fast output stay so: no rule makes them direct.
LEMMA FastStays ==
    ASSUME NEW r, NEW flags, "FAST" \in flags,
           flags \cap {"DIRECT", "COMPRESS_OFFLOAD", "HW_AV_SYNC"} = {}
    PROVE  "DIRECT" \notin StreamFlags(r, DirectFlags(r, flags))
<1>1. DirectFlags(r, flags) = flags
  BY DEF DirectFlags, PlaysDirect
<1>. QED
  BY <1>1 DEF StreamFlags

LEMMA DeepStays ==
    ASSUME NEW r
    PROVE  "DIRECT" \notin StreamFlags(r, DirectFlags(r, {"DEEP_BUFFER"}))
<1>1. DirectFlags(r, {"DEEP_BUFFER"}) = {"DEEP_BUFFER"}
  BY DEF DirectFlags, PlaysDirect
<1>. QED
  BY <1>1 DEF StreamFlags

\* With the fast fallback a request made during a voice call opens no
\* offload output.
LEMMA NoOffloadAsked ==
    ASSUME NEW r \in Asked, NEW session, Served(r, session),
           isVoiceConcEnabled, isVoicePlayConcDisabled, VoiceCallRuns,
           mFallBackflag = "FAST",
           ~SkipsDirect(r, FinalFlags(r, session))
    PROVE  DirectProfile(r, FinalFlags(r, session)) # "offload"
<1>. SUFFICES ASSUME r.format \notin LinearPcm PROVE FALSE
  BY DEF DirectProfile
<1>. DEFINE first == FirstFlags(r, session)
<1>1. r.stream = "MUSIC" /\ "COMPRESS_OFFLOAD" \in first /\ "VOIP_RX" \notin first
  BY CompressedIsMusic, MusicFlags
<1>. HIDE DEF first
<1>2. VoiceConcFlags(r, first) = {"FAST"}
  BY <1>1 DEF VoiceConcFlags
<1>3. RecPlayFlags(r, {"FAST"}) = {"FAST"}
  BY DEF RecPlayFlags
<1>4. FinalFlags(r, session) = StreamFlags(r, DirectFlags(r, {"FAST"}))
  BY <1>2, <1>3 DEF FinalFlags, first
<1>. QED
  BY <1>4, FastStays DEF SkipsDirect

\* During a capture no request of music gets a direct output.
LEMMA MusicStaysMixed ==
    ASSUME NEW r \in Asked, NEW session, r.stream = "MUSIC",
           isRecPlayConcEnabled, isRecPlayConcDisabled, Recording
    PROVE  SkipsDirect(r, FinalFlags(r, session))
<1>. DEFINE first == FirstFlags(r, session)
            voice == VoiceConcFlags(r, first)
<1>1. /\ "VOIP_RX" \notin first
      /\ "FAST" \in first =>
            first \cap {"DIRECT", "COMPRESS_OFFLOAD", "HW_AV_SYNC"} = {}
  BY MusicFlags
<1>. HIDE DEF first
<1>2. /\ "VOIP_RX" \notin voice
      /\ "FAST" \in voice =>
            voice \cap {"DIRECT", "COMPRESS_OFFLOAD", "HW_AV_SYNC"} = {}
  <2>1. voice \in {first, {"FAST"}, {"DEEP_BUFFER"}}
    BY DEF VoiceConcFlags
  <2>. HIDE DEF voice
  <2>. QED
    BY <1>1, <2>1
<1>. HIDE DEF voice
<1>3. FinalFlags(r, session) = StreamFlags(r, DirectFlags(r, RecPlayFlags(r, voice)))
  BY DEF FinalFlags, voice, first
<1>4. RecPlayFlags(r, voice) = IF "FAST" \in voice THEN voice ELSE {"DEEP_BUFFER"}
  BY <1>2 DEF RecPlayFlags
<1>. QED
  BY <1>2, <1>3, <1>4, FastStays, DeepStays DEF SkipsDirect

\* With the fast fallback a request made during a voice call gets the deep
\* buffer only if a capture sends it there.
LEMMA NoDeepAsked ==
    ASSUME NEW r \in Asked, NEW session,
           isVoiceConcEnabled, isVoicePlayConcDisabled, VoiceCallRuns,
           mFallBackflag = "FAST",
           ~(isRecPlayConcEnabled /\ isRecPlayConcDisabled)
    PROVE  MixedProfile(r, FinalFlags(r, session)) # "deep"
<1>. DEFINE first == FirstFlags(r, session)
            final == FinalFlags(r, session)
<1>1. ~ForcedDeep(r, final)
  BY DEF ForcedDeep, VoiceCallRuns, isInCall
<1>2. "DEEP_BUFFER" \notin final
  <2>1. CASE r.stream # "MUSIC"
    BY <2>1 DEF FinalFlags, StreamFlags
  <2>2. CASE r.stream = "MUSIC"
    <3>1. "VOIP_RX" \notin first
      BY <2>2, MusicFlags
    <3>. HIDE DEF first
    <3>2. "DEEP_BUFFER" \notin VoiceConcFlags(r, first)
      BY <3>1 DEF VoiceConcFlags
    <3>3. final = StreamFlags(r, DirectFlags(r, VoiceConcFlags(r, first)))
      BY DEF FinalFlags, RecPlayFlags, first
    <3>. QED
      BY <3>2, <3>3 DEF StreamFlags, DirectFlags
  <2>. QED
    BY <2>1, <2>2
<1>. QED
  BY <1>1, <1>2 DEF MixedProfile

\* What isOffloadSupported promises getOutputForDevices keeps, in any state.
LEMMA OfferKept == OfferIsHonoured
<1>. SUFFICES ASSUME NEW r \in Asked, NEW session \in Sessions,
                     r.format \notin LinearPcm, "COMPRESS_OFFLOAD" \in r.flags,
                     isOffloadSupported(r)
              PROVE  /\ Served(r, session)
                     /\ "COMPRESS_OFFLOAD" \in FinalFlags(r, session)
  BY DEF OfferIsHonoured
<1>. DEFINE first == FirstFlags(r, session)
<1>1. r.stream = "MUSIC"
  BY DEF isOffloadSupported
<1>2. "COMPRESS_OFFLOAD" \in first /\ "VOIP_RX" \notin first /\ "FAST" \notin first
  BY <1>1, MusicFlags
<1>3. Served(r, session)
  BY <1>1, <1>2 DEF Served, VoipRefused
<1>. HIDE DEF first
<1>4. VoiceConcFlags(r, first) = first
  BY DEF isOffloadSupported, VoiceConcFlags, VoiceCallRuns, isInCall
<1>5. RecPlayFlags(r, first) = first
  BY <1>1 DEF isOffloadSupported, RecPlayFlags
<1>6. FinalFlags(r, session) = StreamFlags(r, DirectFlags(r, first))
  BY <1>4, <1>5 DEF FinalFlags, first
<1>7. "COMPRESS_OFFLOAD" \in StreamFlags(r, DirectFlags(r, first))
  BY <1>1, <1>2 DEF StreamFlags, DirectFlags, PlaysDirect
<1>. QED
  BY <1>3, <1>6, <1>7

\* A format that a player is told may be offloaded is not turned into another
\* request, whatever calls and captures go on when the two are asked.
THEOREM OfferHonoured == Spec => []OfferIsHonoured
BY OfferKept, PTL

-----------------------------------------------------------------------------
(***************************************************************************)
(* Calls.                                                                  *)
(***************************************************************************)
\* All that a step may do to the profiles that are open and to the tracks, if
\* it is not a request for an output and no call begins or ends.
LEMMA OtherSteps ==
    ASSUME Counted, Next
    PROVE  \/ \E t \in Tracks, r \in Asked : GetOutput(t, r)
           \/ \E new \in Modes : setPhoneState(new)
           \/ /\ UNCHANGED modeVars
              /\ ProfilesOf(mOutputs') \subseteq ProfilesOf(mOutputs)
              /\ \A u \in Tracks :
                    ~tracks'[u].stale /\ tracks'[u].output # "none" =>
                        ~tracks[u].stale /\ tracks'[u] = tracks[u]
<1>. DEFINE Quiet ==
              /\ UNCHANGED modeVars
              /\ ProfilesOf(mOutputs') \subseteq ProfilesOf(mOutputs)
              /\ \A u \in Tracks :
                    ~tracks'[u].stale /\ tracks'[u].output # "none" =>
                        ~tracks[u].stale /\ tracks'[u] = tracks[u]
<1>1. ASSUME UNCHANGED <<mOutputs, tracks>>, UNCHANGED modeVars PROVE Quiet
  BY <1>1
<1>2. ASSUME NEW t \in Tracks, ReleaseOutput(t) PROVE Quiet
  <2>1. UNCHANGED modeVars
    BY <1>2 DEF ReleaseOutput
  <2>2. tracks'[t].output = "none"
    BY <1>2, ReleaseKeeps DEF NoTrack
  <2>. QED
    BY <1>2, <2>1, <2>2, ReleaseKeeps
<1>3. ASSUME NEW t \in Tracks, NEW r \in Asked, AskOffload(t, r) PROVE Quiet
  BY <1>1, <1>3 DEF AskOffload
<1>4. ASSUME NEW c \in Clients, NEW source \in Sources, OpenInput(c, source)
      PROVE  Quiet
  BY <1>1, <1>4 DEF OpenInput, outVars
<1>5. ASSUME NEW c \in Clients, StartInput(c) \/ StartFails(c) PROVE Quiet
  BY <1>5, AnnounceKeeps DEF StartInput, StartFails
<1>6. ASSUME NEW c \in Clients, StopInput(c) PROVE Quiet
  <2>1. mOutputs \in Seq(OutputType)
    BY DEF Counted, Consistent
  <2>2. Sub(mOutputs', mOutputs)
    BY <1>6, <2>1, SubReflexive DEF StopInput
  <2>3. PICK streams : tracks' = Disturbed(tracks, mOutputs, streams)
    BY <1>6 DEF StopInput
  <2>4. tracks' = Disturbed(tracks, mOutputs', streams) /\ UNCHANGED modeVars
    BY <1>6, <2>3 DEF StopInput
  <2>. QED
    BY <2>2, <2>4, ClosingKeeps
<1>7. ASSUME NEW c \in Clients, ReleaseInput(c) PROVE Quiet
  BY <1>1, <1>7 DEF ReleaseInput, outVars
<1>. QED
  BY <1>2, <1>3, <1>4, <1>5, <1>6, <1>7 DEF Next

\* A voice call runs after setPhoneState because it begins or ran before.
LEMMA CallGoesOn ==
    ASSUME NEW new \in Modes, setPhoneState(new), VoiceCallRuns',
           isVoiceConcEnabled
    PROVE  CallBegins(new) \/ VoiceCallRuns
BY DEF setPhoneState, VoiceCallRuns, CallBegins

\* No list has two offload outputs of one profile.
LEMMA OffloadOnce ==
    ASSUME NEW outs \in Seq(OutputType), OnePerProfile(outs),
           ~isAudioMultipleOffloadEnable, NEW closed,
           \A o \in ToSet(outs) : o \in closed <=> IsOffload(o)
    PROVE  "offload" \notin ProfilesOf(CloseLoop(outs, closed))
<1>1. \A k \in DOMAIN outs : outs[k] \in ToSet(outs) /\ outs[k] \in OutputType
  BY OutputFields DEF ToSet
<1>2. \A o \in OutputType : IsOffload(o) <=> o.profile = "offload"
  BY DEF OutputType, IsOffload, OutputFlags, ProfileFlags
<1>3. \A j, k \in DOMAIN outs : outs[j] \in closed /\ outs[k] \in closed => j = k
  BY <1>1, <1>2 DEF OnePerProfile
<1>. DEFINE left == CloseLoop(outs, closed)
<1>4. \A k \in DOMAIN left : left[k] \notin closed
  BY <1>3, CloseLoopCloses
<1>5. Sub(left, outs)
  BY CloseLoopIsSub
<1>. HIDE DEF left
<1>6. \A k \in DOMAIN left : \E j \in DOMAIN outs : left[k] = outs[j]
  BY <1>5 DEF Sub
<1>7. "offload" \notin ProfilesOf(left)
  BY <1>1, <1>2, <1>4, <1>6 DEF ProfilesOf
<1>. QED
  BY <1>7 DEF left

QuietInCall == VoiceCallRuns => "offload" \notin ProfilesOf(mOutputs)

LEMMA QuietInCallKept ==
    ASSUME isVoiceConcEnabled, isVoicePlayConcDisabled,
           ~isAudioMultipleOffloadEnable, mFallBackflag = "FAST",
           Counted, QuietInCall, Next
    PROVE  QuietInCall'
<1>. SUFFICES ASSUME VoiceCallRuns' PROVE "offload" \notin ProfilesOf(mOutputs')
  BY DEF QuietInCall
<1>1. ASSUME NEW t \in Tracks, NEW r \in Asked, GetOutput(t, r)
      PROVE  "offload" \notin ProfilesOf(mOutputs')
  <2>1. VoiceCallRuns
    BY <1>1 DEF GetOutput, modeVars, VoiceCallRuns
  <2>2. /\ Served(r, Session[t])
        /\ ProfilesOf(mOutputs') \subseteq ProfilesOf(mOutputs) \cup
               (IF SkipsDirect(r, FinalFlags(r, Session[t])) THEN {}
                ELSE {DirectProfile(r, FinalFlags(r, Session[t]))})
    BY <1>1, GetOutputKeeps
  <2>3. "offload" \notin ProfilesOf(mOutputs)
    BY <2>1 DEF QuietInCall
  <2>4. CASE SkipsDirect(r, FinalFlags(r, Session[t]))
    BY <2>2, <2>3, <2>4
  <2>5. CASE ~SkipsDirect(r, FinalFlags(r, Session[t]))
    <3>1. DirectProfile(r, FinalFlags(r, Session[t])) # "offload"
      BY <2>1, <2>2, <2>5, NoOffloadAsked
    <3>. QED
      BY <2>2, <2>3, <2>5, <3>1
  <2>. QED
    BY <2>4, <2>5
<1>2. ASSUME NEW new \in Modes, setPhoneState(new)
      PROVE  "offload" \notin ProfilesOf(mOutputs')
  <2>1. CASE VoiceCallRuns
    BY <1>2, <2>1, PhoneStateKeeps DEF QuietInCall
  <2>2. CASE CallBegins(new)
    <3>. DEFINE closed == {o \in ToSet(mOutputs) : ClosedByCall(o)}
    <3>1. mOutputs \in Seq(OutputType) /\ OnePerProfile(mOutputs)
      BY DEF Counted, Consistent
    <3>2. \A o \in ToSet(mOutputs) : o \in closed <=> IsOffload(o)
      BY DEF ClosedByCall
    <3>3. "offload" \notin ProfilesOf(CloseLoop(mOutputs, closed))
      BY <3>1, <3>2, OffloadOnce
    <3>4. AfterCallLoop(new) = CloseLoop(mOutputs, closed)
      BY <2>2 DEF AfterCallLoop
    <3>5. ProfilesOf(AfterAllLoops(new)) \subseteq ProfilesOf(AfterCallLoop(new))
      BY <3>1, LoopsSub, SubProfiles
    <3>6. mOutputs' = AfterAllLoops(new)
      BY <1>2 DEF setPhoneState
    <3>. QED
      BY <3>3, <3>4, <3>5, <3>6
  <2>. QED
    BY <1>2, <2>1, <2>2, CallGoesOn
<1>3. ASSUME UNCHANGED modeVars, ProfilesOf(mOutputs') \subseteq ProfilesOf(mOutputs)
      PROVE  "offload" \notin ProfilesOf(mOutputs')
  BY <1>3 DEF QuietInCall, VoiceCallRuns, modeVars
<1>. QED
  BY <1>1, <1>2, <1>3, OtherSteps

LEMMA FallBackflagStays == Next => mFallBackflag' = mFallBackflag
BY DEF Next, AskOffload, GetOutput, ReleaseOutput, OpenInput, StartInput,
       StartFails, StopInput, ReleaseInput, setPhoneState, modeVars

LEMMA StutterKeeps ==
    ASSUME UNCHANGED vars
    PROVE  /\ Counted => Counted'
           /\ QuietInCall => QuietInCall'
BY DEF vars, outVars, inVars, modeVars, Counted, QuietInCall, VoiceCallRuns

\* Whichever way the phone comes to a voice call, no compressed playback has
\* an output while it runs, as long as the fallback is not the deep buffer and
\* offload sessions are not multiple: the loop that closes outputs then
\* finds the only one there is.
THEOREM NoOffload ==
    ASSUME fallback_path # "deep-buffer", ~isAudioMultipleOffloadEnable
    PROVE  Spec => []NoOffloadInCall
<1>. DEFINE Inv == /\ Counted
                   /\ isVoiceConcEnabled => mFallBackflag = "FAST"
                   /\ isVoiceConcEnabled /\ isVoicePlayConcDisabled => QuietInCall
<1>1. Init => Inv
  <2>1. Init => QuietInCall
    BY DEF Init, QuietInCall, VoiceCallRuns
  <2>2. Init /\ isVoiceConcEnabled => mFallBackflag = "FAST"
    BY DEF Init
  <2>. QED
    BY <2>1, <2>2, InitCounted
<1>2. Inv /\ [Next]_vars => Inv'
  <2>1. ASSUME Inv, Next PROVE Inv'
    BY <2>1, NextKeeps, FallBackflagStays, QuietInCallKept
  <2>2. ASSUME Inv, UNCHANGED vars PROVE Inv'
    BY <2>2, StutterKeeps DEF vars, modeVars
  <2>. QED
    BY <2>1, <2>2
<1>3. Inv => NoOffloadInCall
  BY DEF QuietInCall, ProfilesOf, NoOffloadInCall, Open
<1>. QED
  BY <1>1, <1>2, <1>3, PTL DEF Spec

\* With the fast fallback what plays afresh on the deep buffer is voice.
DeepIsVoice ==
    VoiceCallRuns =>
        \A t \in Tracks : Fresh(t) /\ tracks[t].stream # "VOICE_CALL" =>
            tracks[t].output # "deep"

LEMMA DeepIsVoiceKept ==
    ASSUME isVoiceConcEnabled, isVoicePlayConcDisabled,
           ~(isRecPlayConcEnabled /\ isRecPlayConcDisabled),
           mFallBackflag = "FAST",
           Counted, DeepIsVoice, Next
    PROVE  DeepIsVoice'
<1>. SUFFICES ASSUME VoiceCallRuns', NEW u \in Tracks,
                     tracks'[u].output # "none", ~tracks'[u].stale,
                     tracks'[u].stream # "VOICE_CALL"
              PROVE  tracks'[u].output # "deep"
  BY DEF DeepIsVoice, Fresh
<1>1. ASSUME VoiceCallRuns, ~tracks[u].stale, tracks'[u] = tracks[u]
      PROVE  tracks'[u].output # "deep"
  BY <1>1 DEF DeepIsVoice, Fresh
<1>2. ASSUME NEW t \in Tracks, NEW r \in Asked, GetOutput(t, r)
      PROVE  tracks'[u].output # "deep"
  <2>1. VoiceCallRuns
    BY <1>2 DEF GetOutput, modeVars, VoiceCallRuns
  <2>2. CASE u # t
    BY <1>1, <1>2, <2>1, <2>2, GetOutputKeeps
  <2>3. CASE u = t
    <3>. DEFINE mixed == MixedProfile(r, FinalFlags(r, Session[t]))
    <3>1. \/ tracks'[u].output \in Handles
          \/ tracks'[u] = [output |-> mixed, stream |-> r.stream, stale |-> FALSE]
      BY <1>2, <2>3, GetOutputKeeps
    <3>2. mixed # "deep"
      BY <2>1, NoDeepAsked
    <3>. HIDE DEF mixed
    <3>. QED
      BY <3>1, <3>2, HandlesAssumption
  <2>. QED
    BY <2>2, <2>3
<1>3. ASSUME NEW new \in Modes, setPhoneState(new)
      PROVE  tracks'[u].output # "deep"
  <2>1. CASE VoiceCallRuns
    BY <1>1, <1>3, <2>1, PhoneStateKeeps
  <2>2. CASE CallBegins(new)
    <3>1. PICK streams : /\ tracks' = Disturbed(tracks, mOutputs', streams)
                         /\ FromSystem \subseteq streams
      BY <1>3, <2>2 DEF setPhoneState, Invalidated, MovedStreams
    <3>2. mOutputs \in Seq(OutputType) /\ tracks \in TracksType
      BY DEF Counted, Consistent
    <3>3. Sub(mOutputs', mOutputs)
      BY <1>3, <3>2, LoopsSub DEF setPhoneState
    <3>4. /\ tracks'[u] = tracks[u]
          /\ tracks[u].output # "none" => tracks[u].stream \notin streams
      BY <3>1, <3>3, ClosingKeeps
    <3>5. tracks[u].stream \in Streams
      BY <3>2 DEF TracksType
    <3>. QED
      BY <3>1, <3>4, <3>5 DEF FromSystem
  <2>. QED
    BY <1>3, <2>1, <2>2, CallGoesOn
<1>4. ASSUME UNCHANGED modeVars, ~tracks[u].stale, tracks'[u] = tracks[u]
      PROVE  tracks'[u].output # "deep"
  BY <1>1, <1>4 DEF VoiceCallRuns, modeVars
<1>. QED
  BY <1>2, <1>3, <1>4, OtherSteps

\* During a voice call with the fast fallback nothing but the voice plays on
\* the deep buffer, unless the rules for capture are on as well: they send
\* music back to it.
THEOREM NoDeep ==
    ASSUME ~(isRecPlayConcEnabled /\ isRecPlayConcDisabled)
    PROVE  Spec => []NoDeepInCall
<1>. DEFINE Inv ==
              /\ Counted
              /\ isVoiceConcEnabled /\ isVoicePlayConcDisabled
                     /\ mFallBackflag = "FAST" => DeepIsVoice
<1>1. Init => Inv
  <2>1. Init => DeepIsVoice
    BY DEF Init, DeepIsVoice, VoiceCallRuns
  <2>. QED
    BY <2>1, InitCounted
<1>2. Inv /\ [Next]_vars => Inv'
  <2>1. ASSUME Inv, Next PROVE Inv'
    BY <2>1, NextKeeps, FallBackflagStays, DeepIsVoiceKept
  <2>2. ASSUME Inv, UNCHANGED vars PROVE Inv'
    BY <2>2, StutterKeeps
       DEF vars, outVars, modeVars, DeepIsVoice, VoiceCallRuns, Fresh
  <2>. QED
    BY <2>1, <2>2
<1>3. Inv => NoDeepInCall
  BY DEF DeepIsVoice, NoDeepInCall
<1>. QED
  BY <1>1, <1>2, <1>3, PTL DEF Spec

-----------------------------------------------------------------------------
(***************************************************************************)
(* Captures.                                                               *)
(***************************************************************************)
\* What the steps do to the captures.
LEMMA CaptureSteps ==
    ASSUME TypedInputs, Next
    PROVE  \/ /\ \A c \in Clients : inputs'[c].state = "active" <=>
                                        inputs[c].state = "active"
              /\ \A c \in Clients : inputs[c].state = "active" =>
                                        inputs'[c] = inputs[c]
              /\ UNCHANGED <<recPlayConc, capture, mIsInputRequestOnProgress>>
           \/ \E c \in Clients : StartInput(c) \/ StartFails(c)
           \/ /\ UNCHANGED mIsInputRequestOnProgress
              /\ \E cs \in SUBSET Clients : \E ins :
                    /\ Stop(cs, ins)
                    /\ \A c \in cs : ins[c].state # "active"
                    /\ \A c \in Clients \ cs : ins[c] = inputs[c]
<1>1. ASSUME NEW t \in Tracks, NEW r \in Asked,
             AskOffload(t, r) \/ GetOutput(t, r)
      PROVE  UNCHANGED inVars
  BY <1>1 DEF AskOffload, GetOutput
<1>2. ASSUME NEW t \in Tracks, ReleaseOutput(t)
      PROVE  UNCHANGED inVars
  BY <1>2 DEF ReleaseOutput
<1>3. ASSUME NEW c \in Clients,
             \/ \E source \in Sources : OpenInput(c, source)
             \/ ReleaseInput(c)
      PROVE  /\ \A d \in Clients : inputs'[d].state = "active" <=>
                                        inputs[d].state = "active"
             /\ \A d \in Clients : inputs[d].state = "active" =>
                                        inputs'[d] = inputs[d]
             /\ UNCHANGED <<recPlayConc, capture, mIsInputRequestOnProgress>>
  BY <1>3 DEF OpenInput, ReleaseInput, NoInput, TypedInputs
<1>4. ASSUME NEW c \in Clients, StopInput(c)
      PROVE  \E cs \in SUBSET Clients : \E ins :
                /\ Stop(cs, ins)
                /\ \A d \in cs : ins[d].state # "active"
                /\ \A d \in Clients \ cs : ins[d] = inputs[d]
  <2>. DEFINE stopped == SetState(c, "idle")
  <2>1. /\ stopped[c].state = "idle"
        /\ \A d \in Clients \ {c} : stopped[d] = inputs[d]
    BY SetStateType DEF TypedInputs
  <2>2. Stop({c}, stopped)
    BY <1>4 DEF StopInput
  <2>. HIDE DEF stopped
  <2>3. {c} \in SUBSET Clients
    OBVIOUS
  <2>. QED
    BY <2>1, <2>2, <2>3
<1>5. ASSUME NEW new \in Modes, setPhoneState(new)
      PROVE  \E cs \in SUBSET Clients : \E ins :
                /\ Stop(cs, ins)
                /\ \A d \in cs : ins[d].state # "active"
                /\ \A d \in Clients \ cs : ins[d] = inputs[d]
  <2>. DEFINE cut == Cut(new)
              left == [d \in Clients |-> IF d \in cut THEN NoInput ELSE inputs[d]]
  <2>1. Stop(cut, left)
    BY <1>5 DEF setPhoneState
  <2>2. cut \in SUBSET Clients
    BY DEF Cut
  <2>3. /\ \A d \in cut : left[d].state # "active"
        /\ \A d \in Clients \ cut : left[d] = inputs[d]
    BY <2>2 DEF NoInput
  <2>. HIDE DEF cut, left
  <2>. QED
    BY <2>1, <2>2, <2>3
<1>6. ASSUME NEW new \in Modes, setPhoneState(new)
      PROVE  UNCHANGED mIsInputRequestOnProgress
  BY <1>6 DEF setPhoneState
<1>7. ASSUME NEW c \in Clients, StopInput(c)
      PROVE  UNCHANGED mIsInputRequestOnProgress
  BY <1>7 DEF StopInput
<1>. QED
  <2>1. ASSUME \E t \in Tracks : \/ ReleaseOutput(t)
                                 \/ \E r \in Asked : AskOffload(t, r) \/ GetOutput(t, r)
        PROVE  UNCHANGED inVars
    BY <1>1, <1>2, <2>1
  <2>2. CASE UNCHANGED inVars
    BY <2>2 DEF inVars
  <2>. QED
    BY <1>3, <1>4, <1>5, <1>6, <1>7, <2>1, <2>2 DEF Next

Announced ==
    /\ ActiveOnPrimary # {} => recPlayConc
    /\ recPlayConc => \/ mIsInputRequestOnProgress
                      \/ \E c \in Clients : inputs[c].state = "active"

LEMMA AnnouncedKept ==
    ASSUME isRecPlayConcEnabled, isRecPlayConcDisabled,
           TypedInputs, Announced, Next
    PROVE  Announced'
<1>1. ASSUME \A c \in Clients : inputs'[c].state = "active" <=>
                                    inputs[c].state = "active",
             UNCHANGED <<recPlayConc, mIsInputRequestOnProgress>>
      PROVE  Announced'
  BY <1>1 DEF Announced, ActiveOnPrimary
<1>2. ASSUME NEW c \in Clients, StartInput(c) PROVE Announced'
  <2>1. recPlayConc'
    BY <1>2 DEF StartInput, AnnounceCapture, RecPlayBegins, Announced
  <2>2. inputs'[c].state = "active"
    BY <1>2, SetStateType DEF StartInput, TypedInputs
  <2>. QED
    BY <2>1, <2>2 DEF Announced
<1>3. ASSUME NEW c \in Clients, StartFails(c) PROVE Announced'
  <2>1. recPlayConc' /\ mIsInputRequestOnProgress'
    BY <1>3 DEF StartFails, AnnounceCapture, RecPlayBegins, Announced
  <2>. QED
    BY <2>1 DEF Announced
<1>4. ASSUME UNCHANGED mIsInputRequestOnProgress,
             NEW cs \in SUBSET Clients, NEW ins, Stop(cs, ins),
             \A c \in cs : ins[c].state # "active",
             \A c \in Clients \ cs : ins[c] = inputs[c]
      PROVE  Announced'
  <2>1. inputs' = ins /\ recPlayConc' = (recPlayConc /\ ~RecPlayEnds(cs, ins))
    BY <1>4 DEF Stop
  <2>2. ActiveOnPrimary' = Mics(ins) /\ Mics(ins) \subseteq ActiveOnPrimary
    BY <1>4, <2>1 DEF ActiveOnPrimary, Mics
  <2>3. CASE Mics(ins) # {}
    BY <2>1, <2>2, <2>3 DEF Announced, RecPlayEnds, Mics
  <2>4. CASE Mics(ins) = {} /\ cs # {}
    BY <2>1, <2>2, <2>4 DEF Announced, RecPlayEnds
  <2>5. CASE Mics(ins) = {} /\ cs = {}
    BY <1>4, <2>1, <2>2, <2>5 DEF Announced, RecPlayEnds
  <2>. QED
    BY <2>3, <2>4, <2>5
<1>. QED
  BY <1>1, <1>2, <1>3, <1>4, CaptureSteps

LEMMA TypedKept ==
    /\ Init => TypedInputs /\ TypedModes /\ TypedOffers /\ Counted
    /\ TypedInputs /\ TypedModes /\ TypedOffers /\ Counted /\ [Next]_vars =>
           (TypedInputs /\ TypedModes /\ TypedOffers /\ Counted)'
<1>1. ASSUME TypedInputs, TypedModes, TypedOffers, Counted, UNCHANGED vars
      PROVE  (TypedInputs /\ TypedModes /\ TypedOffers /\ Counted)'
  BY <1>1 DEF vars, outVars, inVars, modeVars, TypedInputs, TypedModes,
              TypedOffers, Counted
<1>. QED
  BY <1>1, InitTyped, InitCounted, NextTyped, NextKeeps

\* The HAL knows of a capture from the microphones for as long as there is
\* one, for any clients on any modules.
THEOREM Announces == Spec => []RecordingIsAnnounced
<1>. DEFINE Inv ==
              /\ TypedInputs /\ TypedModes /\ TypedOffers /\ Counted
              /\ isRecPlayConcEnabled /\ isRecPlayConcDisabled => Announced
<1>1. Init => Inv
  <2>1. Init => Announced
    BY DEF Init, Announced, ActiveOnPrimary, NoInput
  <2>. QED
    BY <2>1, TypedKept
<1>2. Inv /\ [Next]_vars => Inv'
  <2>1. ASSUME Announced, UNCHANGED vars PROVE Announced'
    BY <2>1 DEF vars, inVars, Announced, ActiveOnPrimary
  <2>. QED
    BY <2>1, TypedKept, AnnouncedKept
<1>3. Inv => RecordingIsAnnounced
  BY DEF Announced, RecordingIsAnnounced
<1>. QED
  BY <1>1, <1>2, <1>3, PTL DEF Spec

\* The invariant of NoOffloadWhileRecording: it speaks of the lists.
MixedWhileRecording ==
    Recording =>
        /\ "offload" \notin ProfilesOf(mOutputs)
        /\ \A t \in Tracks : Fresh(t) /\ tracks[t].stream = "MUSIC" =>
               tracks[t].output \in Mixed

\* A start that begins a recording leaves no compressed playback and no music
\* that has not been sent through getOutput.
LEMMA AnnounceClears ==
    ASSUME isRecPlayConcEnabled, isRecPlayConcDisabled,
           ~isAudioMultipleOffloadEnable,
           Counted, MixedWhileRecording, AnnounceCapture
    PROVE  /\ "offload" \notin ProfilesOf(mOutputs')
           /\ \A t \in Tracks :
                  tracks'[t].output # "none" /\ ~tracks'[t].stale
                      /\ tracks'[t].stream = "MUSIC" => tracks'[t].output \in Mixed
<1>1. mOutputs \in Seq(OutputType) /\ OnePerProfile(mOutputs) /\ tracks \in TracksType
  BY DEF Counted, Consistent
<1>2. CASE RecPlayBegins
  <2>1. \A o \in ToSet(mOutputs) : o \in Offloads <=> IsOffload(o)
    BY DEF Offloads
  <2>2. mOutputs' = CloseLoop(mOutputs, Offloads)
    BY <1>2 DEF AnnounceCapture
  <2>3. "offload" \notin ProfilesOf(mOutputs')
    BY <1>1, <2>1, <2>2, OffloadOnce
  <2>4. Sub(mOutputs', mOutputs)
    BY <1>1, <2>2, CloseLoopIsSub
  <2>5. tracks' = Disturbed(tracks, mOutputs', FromSystem \ {"ENFORCED_AUDIBLE"})
    BY <1>2 DEF AnnounceCapture
  <2>6. \A t \in Tracks : ~tracks'[t].stale =>
            /\ tracks'[t] = tracks[t]
            /\ tracks[t].output # "none" =>
                   tracks[t].stream \notin FromSystem \ {"ENFORCED_AUDIBLE"}
    BY <2>4, <2>5, ClosingKeeps
  <2>7. "MUSIC" \in FromSystem \ {"ENFORCED_AUDIBLE"}
    BY DEF FromSystem, Streams
  <2>. QED
    BY <2>3, <2>6, <2>7
<1>3. CASE ~RecPlayBegins
  <2>1. Recording
    BY <1>3 DEF RecPlayBegins, Recording
  <2>2. mOutputs' = mOutputs /\ tracks' = tracks
    BY <1>3 DEF AnnounceCapture
  <2>. QED
    BY <2>1, <2>2 DEF MixedWhileRecording, Fresh
<1>. QED
  BY <1>2, <1>3

LEMMA MixedKept ==
    ASSUME isRecPlayConcEnabled, isRecPlayConcDisabled,
           ~isAudioMultipleOffloadEnable,
           TypedInputs, Counted, MixedWhileRecording, Next
    PROVE  MixedWhileRecording'
<1>1. ASSUME Recording' => Recording,
             ProfilesOf(mOutputs') \subseteq ProfilesOf(mOutputs),
             \A u \in Tracks :
                 ~tracks'[u].stale /\ tracks'[u].output # "none" =>
                     ~tracks[u].stale /\ tracks'[u] = tracks[u]
      PROVE  MixedWhileRecording'
  BY <1>1 DEF MixedWhileRecording, Fresh
<1>2. ASSUME NEW t \in Tracks, NEW r \in Asked, GetOutput(t, r)
      PROVE  MixedWhileRecording'
  <2>. DEFINE flags == FinalFlags(r, Session[t])
  <2>. SUFFICES ASSUME Recording' PROVE MixedWhileRecording'
    BY DEF MixedWhileRecording
  <2>1. Recording
    BY <1>2 DEF GetOutput, inVars, Recording, ActiveOnPrimary
  <2>2. /\ Served(r, Session[t])
        /\ ProfilesOf(mOutputs') \subseteq ProfilesOf(mOutputs) \cup
               (IF SkipsDirect(r, flags) THEN {} ELSE {DirectProfile(r, flags)})
        /\ \A u \in Tracks \ {t} :
               ~tracks'[u].stale => ~tracks[u].stale /\ tracks'[u] = tracks[u]
        /\ \/ tracks'[t].output = "none"
           \/ tracks'[t].stream = r.stream /\ ~SkipsDirect(r, flags)
           \/ tracks'[t] = [output |-> MixedProfile(r, flags),
                            stream |-> r.stream, stale |-> FALSE]
    BY <1>2, GetOutputKeeps
  <2>3. r.stream = "MUSIC" => SkipsDirect(r, flags)
    BY <2>1, MusicStaysMixed
  <2>. HIDE DEF flags
  <2>4. ~SkipsDirect(r, flags) => DirectProfile(r, flags) # "offload"
    BY <2>2, <2>3, CompressedIsMusic DEF DirectProfile
  <2>5. "offload" \notin ProfilesOf(mOutputs')
    BY <2>1, <2>2, <2>4 DEF MixedWhileRecording
  <2>6. MixedProfile(r, flags) \in Mixed
    BY MixedProfiles
  <2>. DEFINE mixed == MixedProfile(r, flags)
  <2>. HIDE DEF mixed
  <2>7. ASSUME NEW u \in Tracks, tracks'[u].output # "none", ~tracks'[u].stale,
               tracks'[u].stream = "MUSIC"
        PROVE  tracks'[u].output \in Mixed
    <3>1. CASE u = t
      <4>1. \/ tracks'[t].stream = r.stream /\ ~SkipsDirect(r, flags)
            \/ tracks'[t] = [output |-> mixed, stream |-> r.stream, stale |-> FALSE]
        BY <2>2, <2>7, <3>1 DEF mixed
      <4>2. mixed \in Mixed
        BY <2>6 DEF mixed
      <4>3. CASE tracks'[t].stream = r.stream /\ ~SkipsDirect(r, flags)
        BY <2>3, <2>7, <3>1, <4>3
      <4>4. CASE tracks'[t] = [output |-> mixed, stream |-> r.stream, stale |-> FALSE]
        BY <3>1, <4>2, <4>4
      <4>. QED
        BY <4>1, <4>3, <4>4
    <3>2. CASE u # t
      BY <2>1, <2>2, <2>7, <3>2 DEF MixedWhileRecording, Fresh
    <3>. QED
      BY <3>1, <3>2
  <2>. QED
    BY <2>5, <2>7 DEF MixedWhileRecording, Fresh
<1>3. ASSUME NEW c \in Clients, StartInput(c) \/ StartFails(c)
      PROVE  MixedWhileRecording'
  BY <1>3, AnnounceClears DEF StartInput, StartFails, MixedWhileRecording, Fresh
<1>4. ASSUME ~\E c \in Clients : StartInput(c) \/ StartFails(c)
      PROVE  Recording' => Recording
  <2>1. ASSUME \A c \in Clients : inputs'[c].state = "active" <=>
                                      inputs[c].state = "active",
               UNCHANGED mIsInputRequestOnProgress
        PROVE  Recording' => Recording
    BY <2>1 DEF Recording, ActiveOnPrimary
  <2>2. ASSUME UNCHANGED mIsInputRequestOnProgress,
               NEW cs \in SUBSET Clients, NEW ins, Stop(cs, ins),
               \A c \in cs : ins[c].state # "active",
               \A c \in Clients \ cs : ins[c] = inputs[c]
        PROVE  Recording' => Recording
    BY <2>2 DEF Stop, Recording, ActiveOnPrimary
  <2>. QED
    BY <1>4, <2>1, <2>2, CaptureSteps
<1>5. ASSUME NEW new \in Modes, setPhoneState(new),
             ~\E c \in Clients : StartInput(c) \/ StartFails(c)
      PROVE  MixedWhileRecording'
  BY <1>1, <1>4, <1>5, PhoneStateKeeps
<1>. QED
  BY <1>1, <1>2, <1>3, <1>4, <1>5, OtherSteps

\* From the start of a capture, or of the attempt, to its stop there is no
\* compressed playback and no music on a direct output, unless offload
\* sessions are multiple: the loop of startInput then leaves some open.
THEOREM NoOffloadInCapture ==
    ASSUME ~isAudioMultipleOffloadEnable
    PROVE  Spec => []NoOffloadWhileRecording
<1>. DEFINE Inv ==
              /\ TypedInputs /\ TypedModes /\ TypedOffers /\ Counted
              /\ isRecPlayConcEnabled /\ isRecPlayConcDisabled =>
                     MixedWhileRecording
<1>1. Init => Inv
  <2>1. Init => MixedWhileRecording
    BY DEF Init, MixedWhileRecording, Recording, ActiveOnPrimary, NoInput
  <2>. QED
    BY <2>1, TypedKept
<1>2. Inv /\ [Next]_vars => Inv'
  <2>1. ASSUME MixedWhileRecording, UNCHANGED vars PROVE MixedWhileRecording'
    BY <2>1 DEF vars, outVars, inVars, MixedWhileRecording, Recording,
                ActiveOnPrimary, Fresh
  <2>. QED
    BY <2>1, TypedKept, MixedKept
<1>3. Inv => NoOffloadWhileRecording
  BY DEF MixedWhileRecording, NoOffloadWhileRecording, ProfilesOf, Open
<1>. QED
  BY <1>1, <1>2, <1>3, PTL DEF Spec

\* The captures that count for the sound trigger service.
Heard(ins) ==
    IF isVAConcEnabled THEN activeNonSoundTriggerInputs(ins) ELSE Mics(ins)

LEMMA HeardKept ==
    ASSUME isVAConcEnabled => OtherModule = {},
           TypedInputs, capture <=> Heard(inputs) # {}, Next
    PROVE  (capture <=> Heard(inputs) # {})'
<1>1. ASSUME \A c \in Clients : inputs'[c].state = "active" <=>
                                    inputs[c].state = "active",
             \A c \in Clients : inputs[c].state = "active" =>
                                    inputs'[c] = inputs[c],
             UNCHANGED capture
      PROVE  (capture <=> Heard(inputs) # {})'
  BY <1>1 DEF Heard, Mics, activeNonSoundTriggerInputs
<1>2. ASSUME NEW c \in Clients, StartFails(c)
      PROVE  (capture <=> Heard(inputs) # {})'
  BY <1>2 DEF StartFails
<1>3. ASSUME NEW c \in Clients, StartInput(c)
      PROVE  (capture <=> Heard(inputs) # {})'
  <2>1. /\ inputs'[c].state = "active"
        /\ inputs[c].state = "idle"
        /\ \A d \in Clients \ {c} : inputs'[d] = inputs[d]
        /\ capture' = (capture \/ (/\ c \notin OtherModule
                                   /\ Cardinality(Heard(inputs')) = 1))
    BY <1>3, SetStateType DEF StartInput, TypedInputs, Heard
  <2>2. CASE c \in OtherModule
    <3>1. Heard(inputs') = Heard(inputs)
      BY <2>1, <2>2 DEF Heard, Mics
    <3>. QED
      BY <2>1, <2>2, <3>1
  <2>3. CASE /\ c \notin OtherModule
             /\ isVAConcEnabled /\ inputs'[c].source = "HOTWORD"
    <3>1. Heard(inputs') = Heard(inputs)
      BY <2>1, <2>3 DEF Heard, Mics, activeNonSoundTriggerInputs
    <3>2. Heard(inputs) = {} => Cardinality(Heard(inputs)) # 1
      BY FS_EmptySet
    <3>. QED
      BY <2>1, <3>1, <3>2
  <2>4. CASE /\ c \notin OtherModule
             /\ ~(isVAConcEnabled /\ inputs'[c].source = "HOTWORD")
    <3>1. Heard(inputs') = Heard(inputs) \cup {c}
      BY <2>1, <2>4 DEF Heard, Mics, activeNonSoundTriggerInputs
    <3>2. Heard(inputs) = {} => Cardinality(Heard(inputs')) = 1
      BY <3>1, FS_Singleton
    <3>. QED
      BY <2>1, <2>4, <3>1, <3>2
  <2>. QED
    BY <2>2, <2>3, <2>4
<1>4. ASSUME NEW cs \in SUBSET Clients, NEW ins, Stop(cs, ins),
             \A c \in cs : ins[c].state # "active",
             \A c \in Clients \ cs : ins[c] = inputs[c]
      PROVE  (capture <=> Heard(inputs) # {})'
  <2>1. inputs' = ins /\ capture' = (capture /\ ~CaptureStops(cs, ins))
    BY <1>4 DEF Stop
  <2>2. Heard(ins) \subseteq Heard(inputs)
    BY <1>4 DEF Heard, Mics, activeNonSoundTriggerInputs
  <2>3. CASE isVAConcEnabled
    <3>1. CaptureStops(cs, ins) <=> cs # {} /\ Heard(ins) = {}
      BY <2>3 DEF CaptureStops, Heard, Mics, activeNonSoundTriggerInputs
    <3>2. cs = {} => Heard(ins) = Heard(inputs)
      BY <1>4 DEF Heard, Mics, activeNonSoundTriggerInputs
    <3>. QED
      BY <2>1, <2>2, <3>1, <3>2
  <2>4. CASE ~isVAConcEnabled
    <3>1. CaptureStops(cs, ins) <=> Mics(inputs) \cap cs # {} /\ Heard(ins) = {}
      BY <2>4 DEF CaptureStops, Heard
    <3>2. Mics(inputs) \cap cs = {} => Heard(ins) = Heard(inputs)
      BY <1>4, <2>4 DEF Heard, Mics
    <3>. QED
      BY <2>1, <2>2, <3>1, <3>2
  <2>. QED
    BY <2>3, <2>4
<1>. QED
  BY <1>1, <1>2, <1>3, <1>4, CaptureSteps

\* The sound trigger service knows of a capture as long as a microphone is
\* in use and not when none is.  The parenthesis in the rule of
\* stopInput counts only where some client is off the primary module.
THEOREM CaptureKnown ==
    ASSUME isVAConcEnabled => OtherModule = {}
    PROVE  Spec => []CaptureTracksMic
<1>. DEFINE Inv == /\ TypedInputs /\ TypedModes /\ TypedOffers /\ Counted
                   /\ capture <=> Heard(inputs) # {}
<1>1. Init => Inv
  <2>1. Init => ~capture /\ Heard(inputs) = {}
    BY DEF Init, Heard, Mics, activeNonSoundTriggerInputs, NoInput
  <2>. QED
    BY <2>1, TypedKept
<1>2. Inv /\ [Next]_vars => Inv'
  <2>1. ASSUME capture <=> Heard(inputs) # {}, UNCHANGED vars
        PROVE  (capture <=> Heard(inputs) # {})'
    BY <2>1 DEF vars, inVars
  <2>. QED
    BY <2>1, TypedKept, HeardKept
<1>3. Inv => CaptureTracksMic
  BY DEF Heard, Mics, ActiveOnPrimary, activeNonSoundTriggerInputs, CaptureTracksMic
<1>. QED
  BY <1>1, <1>2, <1>3, PTL DEF Spec
=============================================================================
