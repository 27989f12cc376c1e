-------------------------- MODULE GameListProofs --------------------------
(***************************************************************************)
(* Proofs about GameList, for any hosts, ads, times and numbers of entries.*)
(***************************************************************************)
EXTENDS GameList, SequenceTheorems, TLAPS

\* Entries are kept in the order of their indices, which were all given out.
Ascend ==
    \A i \in 1..Len(game_list) :
        /\ game_list[i].game_index <= next_game_ad_id
        /\ \A j \in 1..Len(game_list) :
             i < j => game_list[i].game_index < game_list[j].game_index

\* pNext leads further down the list, or out of it.
Chained ==
    \A i \in 1..Len(game_list) :
        \/ game_list[i].pNext \in {None, StatusAd}
        \/ \E j \in 1..Len(game_list) : i < j /\ game_list[i].pNext = game_list[j].game_index

\* Every entry is filled in, but for the one that is being rewritten.
Rewritten(i) == rewriting # None /\ rewriting.at = i
Joinable(e) == e.version_id = OurVersion => e.crownlink_mode = OurMode
Filled ==
    \A i \in 1..Len(game_list) :
        IF Rewritten(i) THEN ~game_list[i].whole
        ELSE game_list[i].whole /\ game_list[i].host \in Hosts /\ Joinable(game_list[i])

Stamped ==
    \A i \in 1..Len(game_list) :
        game_list[i].host_last_time = game_list[i].at % TickMod /\ game_list[i].at <= clock

\* What Storm has met comes before what its pointer leads to.
Ahead ==
    /\ cursor = Unlocked => seen = <<>>
    /\ \A k \in 1..Len(seen) :
         /\ cursor \in Nat => seen[k] < cursor
         /\ cursor = StatusAd => seen[k] < status_index
    /\ cursor # Unlocked =>
         \A i \in 1..Len(game_list) :
            game_list[i].pNext = StatusAd => game_list[i].game_index < status_index

\* A shown index was given out, and the entry with that index that is being
\* rewritten is for the host it was shown for.
ShownBefore ==
    \A s \in shown :
        /\ s[1] <= next_game_ad_id
        /\ \A i \in 1..Len(game_list) :
             Rewritten(i) /\ game_list[i].game_index = s[1] => rewriting.host = s[2]

\* The inductive invariant.
IInv ==
    /\ TypeOK /\ Ascend /\ Chained /\ Filled /\ Stamped
    /\ CursorLive /\ Ahead /\ WalkOrdered
    /\ ShownBefore /\ IndexMeansHost /\ GameInfoJoinable

-----------------------------------------------------------------------------

LEMMA ConstantTypes ==
    /\ TickMod \in Nat /\ TickMod > 0 /\ Timeout \in Nat /\ MaxClock \in Nat
    /\ FirstClock \in 0..MaxClock /\ MaxAds \in Nat /\ MaxAds > 0
BY GameListAssumption

\* The model values are no numbers and no hosts.
LEMMA Pointers ==
    /\ None # StatusAd /\ Unlocked # None /\ Unlocked # StatusAd
    /\ None \notin Nat /\ StatusAd \notin Nat /\ Unlocked \notin Nat
    /\ None \notin Hosts
BY GameListAssumption

LEMMA TickCount == ASSUME NEW t \in Nat PROVE t % TickMod \in 0..TickMod-1
BY ConstantTypes

LEMMA EntryFacts ==
    ASSUME IInv, NEW i \in 1..Len(game_list)
    PROVE  /\ game_list[i] \in Entries
           /\ game_list[i].game_index \in 2..MaxAds
           /\ game_list[i].game_index \in Nat
           /\ Len(game_list) \in Nat
<1>1. game_list \in Seq(Entries)
  BY DEF IInv, TypeOK
<1>2. game_list[i] \in Entries /\ Len(game_list) \in Nat
  BY <1>1
<1>3. game_list[i].game_index \in 2..MaxAds
  BY <1>2 DEF Entries
<1>. QED BY <1>2, <1>3, ConstantTypes

LEMMA CopiedType ==
    ASSUME NEW ad \in Ads, NEW index \in 2..MaxAds
    PROVE  /\ Copied(ad, index) \in Entries
           /\ Copied(ad, index).game_index = index
           /\ Copied(ad, index).pNext = None
           /\ Copied(ad, index).host_last_time = Copied(ad, index).at % TickMod
           /\ Copied(ad, index).at = 0
           /\ ~Copied(ad, index).whole
<1>1. 0 \in 0..TickMod-1 /\ 0 \in 0..MaxClock /\ 0 % TickMod = 0
  BY ConstantTypes
<1>. QED BY <1>1 DEF Copied, Entries

LEMMA InitIInv == Init => IInv
<1>. SUFFICES ASSUME Init PROVE IInv
  OBVIOUS
<1>1. /\ game_list = <<>> /\ game_list \in Seq(Entries) /\ Len(game_list) = 0
      /\ seen = <<>> /\ Len(seen) = 0 /\ seen \in Seq(0..MaxAds+1)
      /\ cursor = Unlocked /\ rewriting = None /\ shown = {} /\ out_game = None
  BY DEF Init
<1>2. TypeOK
  BY <1>1, ConstantTypes DEF Init, TypeOK
<1>3. Ascend /\ Chained /\ Filled /\ Stamped
  BY <1>1 DEF Ascend, Chained, Filled, Stamped
<1>4. CursorLive /\ Ahead /\ WalkOrdered
  BY <1>1, Pointers DEF CursorLive, Ahead, WalkOrdered
<1>5. ShownBefore /\ IndexMeansHost /\ GameInfoJoinable
  BY <1>1 DEF ShownBefore, IndexMeansHost, GameInfoJoinable
<1>. QED BY <1>2, <1>3, <1>4, <1>5 DEF IInv

-----------------------------------------------------------------------------
(* Steps that leave the list alone.                                          *)

LEMMA ListUnchanged ==
    ASSUME IInv, UNCHANGED <<listVars, rewriting>>, clock' \in Nat, clock <= clock'
    PROVE  (Ascend /\ Chained /\ Filled /\ Stamped)'
<1>1. clock \in Nat
  BY ConstantTypes DEF IInv, TypeOK
<1>2. (Ascend /\ Chained /\ Filled)'
  BY DEF IInv, listVars, Ascend, Chained, Filled, Rewritten, Joinable
<1>3. Stamped'
  <2>. SUFFICES ASSUME NEW i \in 1..Len(game_list)
                PROVE  game_list[i].host_last_time = game_list[i].at % TickMod
                       /\ game_list[i].at <= clock'
    BY DEF listVars, Stamped
  <2>1. /\ game_list[i].host_last_time = game_list[i].at % TickMod
        /\ game_list[i].at <= clock /\ game_list[i].at \in Nat
    BY EntryFacts, ConstantTypes DEF IInv, Stamped, Entries
  <2>. QED BY <1>1, <2>1
<1>. QED BY <1>2, <1>3

LEMMA TickKeeps == IInv /\ Tick => IInv'
<1>. SUFFICES ASSUME IInv, Tick PROVE IInv'
  OBVIOUS
<1>1. clock' \in 0..MaxClock /\ clock' \in Nat /\ clock <= clock'
  BY ConstantTypes DEF IInv, TypeOK, Tick
<1>2. TypeOK'
  BY <1>1 DEF IInv, TypeOK, Tick, listVars, statusVars, walkVars
<1>3. (Ascend /\ Chained /\ Filled /\ Stamped)'
  BY <1>1, ListUnchanged DEF Tick
<1>4. (CursorLive /\ Ahead /\ WalkOrdered)'
  BY DEF IInv, Tick, listVars, statusVars, walkVars, CursorLive, Indices, Ahead, WalkOrdered
<1>5. (ShownBefore /\ IndexMeansHost /\ GameInfoJoinable)'
  BY DEF IInv, Tick, listVars, walkVars, ShownBefore, Rewritten, IndexMeansHost, GameInfoJoinable
<1>. QED BY <1>2, <1>3, <1>4, <1>5 DEF IInv

LEMMA GetGameInfoKeeps ==
    ASSUME IInv, NEW index, GetGameInfo(index)
    PROVE  IInv'
<1>1. UNCHANGED <<listVars, statusVars, rewriting, clock, walkVars>>
  BY DEF GetGameInfo
<1>2. clock' \in Nat /\ clock <= clock'
  BY <1>1, ConstantTypes DEF IInv, TypeOK
<1>3. \/ out_game' = None
      \/ \E i \in 1..Len(game_list) : out_game' = game_list[i] /\ game_list[i].whole
           /\ Joinable(game_list[i])
  BY DEF GetGameInfo, IInv, Filled, Rewritten
<1>4. TypeOK'
  <2>1. out_game' \in Entries \cup {None}
    BY <1>3, EntryFacts
  <2>. QED BY <1>1, <2>1 DEF IInv, TypeOK, listVars, statusVars, walkVars
<1>5. (Ascend /\ Chained /\ Filled /\ Stamped)'
  BY <1>1, <1>2, ListUnchanged
<1>6. (CursorLive /\ Ahead /\ WalkOrdered)'
  BY <1>1
  DEF IInv, listVars, statusVars, walkVars, CursorLive, Indices, Ahead, WalkOrdered
<1>7. (ShownBefore /\ IndexMeansHost)'
  BY <1>1 DEF IInv, listVars, walkVars, ShownBefore, Rewritten, IndexMeansHost
<1>8. GameInfoJoinable'
  BY <1>3 DEF GameInfoJoinable, Joinable
<1>. QED BY <1>4, <1>5, <1>6, <1>7, <1>8 DEF IInv

LEMMA UnlockKeeps == IInv /\ UnlockGameList => IInv'
<1>. SUFFICES ASSUME IInv, UnlockGameList PROVE IInv'
  OBVIOUS
<1>1. /\ UNCHANGED <<listVars, rewriting, clock, shown, out_game>>
      /\ cursor' = Unlocked /\ seen' = <<>> /\ given' = {}
      /\ status_ad_used' \in BOOLEAN /\ status_index' \in {status_index, 0}
  BY DEF UnlockGameList
<1>2. clock' \in Nat /\ clock <= clock'
  BY <1>1, ConstantTypes DEF IInv, TypeOK
<1>3. TypeOK'
  <2>1. status_index' \in 0..MaxAds+1 /\ seen' \in Seq(0..MaxAds+1)
    BY <1>1, ConstantTypes DEF IInv, TypeOK
  <2>. QED BY <1>1, <2>1 DEF IInv, TypeOK, listVars
<1>4. (Ascend /\ Chained /\ Filled /\ Stamped)'
  BY <1>1, <1>2, ListUnchanged
<1>5. (CursorLive /\ Ahead /\ WalkOrdered)'
  BY <1>1, Pointers DEF CursorLive, Ahead, WalkOrdered
<1>6. (ShownBefore /\ IndexMeansHost /\ GameInfoJoinable)'
  BY <1>1 DEF IInv, listVars, ShownBefore, Rewritten, IndexMeansHost, GameInfoJoinable
<1>. QED BY <1>3, <1>4, <1>5, <1>6 DEF IInv

\* Storm meets the game under its pointer.
LEMMA WalkGameKeeps ==
    ASSUME IInv, NEW i \in 1..Len(game_list), cursor = game_list[i].game_index,
           seen' = Append(seen, cursor),
           shown' = IF game_list[i].whole THEN shown \cup {<<cursor, game_list[i].host>>}
                    ELSE shown,
           cursor' = game_list[i].pNext,
           UNCHANGED <<listVars, statusVars, rewriting, clock, given, out_game>>
    PROVE  IInv'
<1>1. /\ game_list[i] \in Entries /\ cursor \in 2..MaxAds /\ cursor \in Nat
      /\ Len(game_list) \in Nat /\ cursor' \in (2..MaxAds) \cup {StatusAd, None}
  BY EntryFacts DEF Entries
<1>2. seen \in Seq(0..MaxAds+1) /\ cursor \in 0..MaxAds+1
  BY <1>1, ConstantTypes DEF IInv, TypeOK
<1>3. /\ seen' \in Seq(0..MaxAds+1) /\ Len(seen) \in Nat /\ Len(seen') = Len(seen) + 1
      /\ \A k \in 1..Len(seen) : seen'[k] = seen[k] /\ seen[k] \in 0..MaxAds+1
      /\ seen'[Len(seen')] = cursor
  <2>1. Len(seen) \in Nat /\ \A k \in 1..Len(seen) : seen[k] \in 0..MaxAds+1
    BY <1>2, LenProperties, ElementOfSeq
  <2>2. /\ seen' \in Seq(0..MaxAds+1) /\ Len(seen') = Len(seen) + 1
        /\ \A k \in 1..Len(seen) : seen'[k] = seen[k]
        /\ seen'[Len(seen')] = cursor
    BY <1>2, AppendProperties
  <2>. QED BY <2>1, <2>2
<1>4. \A k \in 1..Len(seen') :
         \/ k \in 1..Len(seen) /\ seen'[k] = seen[k] /\ seen[k] \in Nat /\ seen[k] < cursor
         \/ k = Len(seen') /\ seen'[k] = cursor
  BY <1>1, <1>3, ConstantTypes DEF IInv, Ahead
<1>5. game_list[i].whole => game_list[i].host \in Hosts
  BY DEF IInv, Filled
<1>6. TypeOK'
  <2>1. shown' \subseteq (2..MaxAds) \X Hosts
    BY <1>1, <1>5 DEF IInv, TypeOK
  <2>. QED BY <1>1, <1>3, <2>1 DEF IInv, TypeOK, listVars, statusVars
<1>7. (Ascend /\ Chained /\ Filled /\ Stamped)'
  BY ListUnchanged, ConstantTypes DEF IInv, TypeOK
<1>8. cursor' \in {None, StatusAd} \/
      \E j \in 1..Len(game_list) : i < j /\ cursor' = game_list[j].game_index
  BY DEF IInv, Chained
<1>9. CursorLive'
  BY <1>8 DEF CursorLive, Indices, listVars
<1>10. Ahead'
  <2>1. cursor' # Unlocked
    BY <1>1, <1>8, EntryFacts, Pointers
  <2>2. cursor # Unlocked
    BY <1>1, Pointers
  <2>3. cursor' \in Nat => cursor < cursor'
    BY <1>8, Pointers DEF IInv, Ascend
  <2>4. cursor' = StatusAd => cursor < status_index
    BY <2>2 DEF IInv, Ahead
  <2>5. status_index \in Nat
    BY ConstantTypes DEF IInv, TypeOK
  <2>6. ASSUME NEW k \in 1..Len(seen')
        PROVE  /\ cursor' \in Nat => seen'[k] < cursor'
               /\ cursor' = StatusAd => seen'[k] < status_index
    BY <1>1, <1>4, <2>3, <2>4, <2>5
  <2>7. \A j \in 1..Len(game_list) :
           game_list[j].pNext = StatusAd => game_list[j].game_index < status_index
    BY <2>2 DEF IInv, Ahead
  <2>. QED BY <2>1, <2>6, <2>7 DEF Ahead, listVars, statusVars
<1>11. WalkOrdered'
  <2>. SUFFICES ASSUME NEW k \in 1..Len(seen'), NEW l \in 1..Len(seen'), k < l
                PROVE  seen'[k] < seen'[l]
    BY DEF WalkOrdered
  <2>1. k \in 1..Len(seen)
    BY <1>3
  <2>. QED BY <1>3, <1>4, <2>1 DEF IInv, WalkOrdered
<1>12. \A t \in shown : t[1] = cursor /\ game_list[i].whole => t[2] = game_list[i].host
  BY DEF IInv, IndexMeansHost
<1>13. \A t \in shown' : t \in shown \/ (t = <<cursor, game_list[i].host>> /\ game_list[i].whole)
  OBVIOUS
<1>14. \A j \in 1..Len(game_list) : game_list[j].game_index = cursor => j = i
  <2>. SUFFICES ASSUME NEW j \in 1..Len(game_list), game_list[j].game_index = cursor, j # i
                PROVE  FALSE
    OBVIOUS
  <2>1. j < i \/ i < j
    BY <1>1
  <2>. QED BY <1>1, <2>1, EntryFacts DEF IInv, Ascend
<1>15. ShownBefore'
  <2>. SUFFICES ASSUME NEW t \in shown'
                PROVE  /\ t[1] <= next_game_ad_id
                       /\ \A j \in 1..Len(game_list) :
                            Rewritten(j) /\ game_list[j].game_index = t[1]
                              => rewriting.host = t[2]
    BY DEF ShownBefore, Rewritten, listVars
  <2>1. CASE t \in shown
    BY <2>1 DEF IInv, ShownBefore
  <2>2. CASE t = <<cursor, game_list[i].host>> /\ game_list[i].whole
    BY <2>2, <1>14 DEF IInv, Ascend, Filled
  <2>. QED BY <1>13, <2>1, <2>2
<1>16. IndexMeansHost'
  <2>. SUFFICES ASSUME NEW t \in shown'
                PROVE  /\ \A j \in 1..Len(game_list) :
                            game_list[j].whole /\ game_list[j].game_index = t[1]
                              => game_list[j].host = t[2]
                       /\ \A u \in shown' : t[1] = u[1] => t = u
    BY DEF IndexMeansHost, listVars
  <2>0. shown \subseteq (2..MaxAds) \X Hosts
    BY DEF IInv, TypeOK
  <2>1. ASSUME NEW j \in 1..Len(game_list), game_list[j].whole,
               game_list[j].game_index = t[1]
        PROVE  game_list[j].host = t[2]
    BY <1>13, <1>14, <2>1 DEF IInv, IndexMeansHost
  <2>2. ASSUME NEW u \in shown', t[1] = u[1] PROVE t = u
    BY <1>12, <1>13, <2>0, <2>2 DEF IInv, IndexMeansHost
  <2>. QED BY <2>1, <2>2
<1>17. GameInfoJoinable'
  BY DEF IInv, GameInfoJoinable
<1>. QED BY <1>6, <1>7, <1>9, <1>10, <1>11, <1>15, <1>16, <1>17 DEF IInv

LEMMA WalkStatusKeeps ==
    ASSUME IInv, cursor = StatusAd, seen' = Append(seen, status_index), cursor' = None,
           UNCHANGED <<listVars, statusVars, rewriting, clock, given, shown, out_game>>
    PROVE  IInv'
<1>1. seen \in Seq(0..MaxAds+1) /\ status_index \in 0..MaxAds+1 /\ status_index \in Nat
  BY ConstantTypes DEF IInv, TypeOK
<1>2. /\ seen' \in Seq(0..MaxAds+1) /\ Len(seen) \in Nat /\ Len(seen') = Len(seen) + 1
      /\ \A k \in 1..Len(seen) : seen'[k] = seen[k] /\ seen[k] \in 0..MaxAds+1
      /\ seen'[Len(seen')] = status_index
  <2>1. Len(seen) \in Nat /\ \A k \in 1..Len(seen) : seen[k] \in 0..MaxAds+1
    BY <1>1, LenProperties, ElementOfSeq
  <2>2. /\ seen' \in Seq(0..MaxAds+1) /\ Len(seen') = Len(seen) + 1
        /\ \A k \in 1..Len(seen) : seen'[k] = seen[k]
        /\ seen'[Len(seen')] = status_index
    BY <1>1, AppendProperties
  <2>. QED BY <2>1, <2>2
<1>3. \A k \in 1..Len(seen) : seen[k] < status_index
  BY DEF IInv, Ahead
<1>4. TypeOK'
  BY <1>2 DEF IInv, TypeOK, listVars, statusVars
<1>5. (Ascend /\ Chained /\ Filled /\ Stamped)'
  BY ListUnchanged, ConstantTypes DEF IInv, TypeOK
<1>6. CursorLive'
  BY DEF CursorLive
<1>7. Ahead'
  <2>1. cursor # Unlocked
    BY Pointers
  <2>2. \A j \in 1..Len(game_list) :
           game_list[j].pNext = StatusAd => game_list[j].game_index < status_index
    BY <2>1 DEF IInv, Ahead
  <2>. QED BY <2>2, Pointers DEF Ahead, listVars, statusVars
<1>8. WalkOrdered'
  <2>. SUFFICES ASSUME NEW k \in 1..Len(seen'), NEW l \in 1..Len(seen'), k < l
                PROVE  seen'[k] < seen'[l]
    BY DEF WalkOrdered
  <2>1. k \in 1..Len(seen) /\ (l \in 1..Len(seen) \/ l = Len(seen'))
    BY <1>2
  <2>. QED BY <1>2, <1>3, <2>1 DEF IInv, WalkOrdered
<1>9. (ShownBefore /\ IndexMeansHost /\ GameInfoJoinable)'
  BY DEF IInv, listVars, ShownBefore, Rewritten, IndexMeansHost, GameInfoJoinable
<1>. QED BY <1>4, <1>5, <1>6, <1>7, <1>8, <1>9 DEF IInv

LEMMA WalkKeeps == IInv /\ Walk => IInv'
<1>. SUFFICES ASSUME IInv, Walk PROVE IInv'
  OBVIOUS
<1>1. CASE cursor = StatusAd
  <2>1. \A i \in 1..Len(game_list) : cursor # game_list[i].game_index
    BY <1>1, EntryFacts, Pointers
  <2>. QED BY <1>1, <2>1, WalkStatusKeeps DEF Walk
<1>2. CASE cursor # StatusAd
  BY <1>2, WalkGameKeeps DEF Walk
<1>. QED BY <1>1, <1>2

-----------------------------------------------------------------------------
(* pass_advertisement.                                                       *)

\* An entry is overwritten; it keeps its index.
LEMMA RewriteKeeps ==
    ASSUME IInv, NEW i \in 1..Len(game_list), NEW e \in Entries,
           e.game_index = game_list[i].game_index,
           e.pNext \in {None, game_list[i].pNext},
           e.host_last_time = e.at % TickMod, e.at <= clock,
           game_list' = [game_list EXCEPT ![i] = e],
           UNCHANGED <<next_game_ad_id, statusVars, clock, walkVars, out_game>>
    PROVE  /\ game_list' \in Seq(Entries) /\ Len(game_list') = Len(game_list)
           /\ \A j \in 1..Len(game_list) :
                 game_list'[j] = IF j = i THEN e ELSE game_list[j]
           /\ \A j \in 1..Len(game_list) :
                 game_list'[j].game_index = game_list[j].game_index
           /\ (Ascend /\ Chained /\ Stamped)'
           /\ (CursorLive /\ Ahead /\ WalkOrdered)'
<1>1. /\ game_list' \in Seq(Entries) /\ Len(game_list') = Len(game_list)
      /\ Len(game_list) \in Nat
      /\ \A j \in 1..Len(game_list) : game_list'[j] = IF j = i THEN e ELSE game_list[j]
  <2>1. game_list \in Seq(Entries)
    BY DEF IInv, TypeOK
  <2>. QED BY <2>1, ExceptSeq
<1>2. \A j \in 1..Len(game_list) :
         /\ game_list'[j].game_index = game_list[j].game_index
         /\ game_list'[j].pNext \in {None, game_list[j].pNext}
         /\ game_list'[j].host_last_time = game_list'[j].at % TickMod
         /\ game_list'[j].at <= clock
  BY <1>1 DEF IInv, Stamped
<1>3. Ascend' /\ Stamped'
  BY <1>1, <1>2 DEF IInv, Ascend, Stamped
<1>4. Chained'
  BY <1>1, <1>2 DEF IInv, Chained
<1>5. CursorLive'
  BY <1>1, <1>2 DEF IInv, CursorLive, Indices, walkVars
<1>6. Ahead' /\ WalkOrdered'
  BY <1>1, <1>2, Pointers DEF IInv, Ahead, WalkOrdered, walkVars, statusVars
<1>. QED BY <1>1, <1>2, <1>3, <1>4, <1>5, <1>6

LEMMA RefreshKeeps ==
    ASSUME IInv, NEW h \in Hosts, NEW ad \in Ads, rewriting = None, Refresh(h, ad),
           UNCHANGED <<statusVars, clock, walkVars, out_game>>
    PROVE  IInv'
<1>1. PICK i \in 1..Len(game_list) :
         /\ game_list[i].host = h
         /\ game_list' = [game_list EXCEPT ![i] = Copied(ad, game_list[i].game_index)]
         /\ rewriting' = [at |-> i, host |-> h]
         /\ UNCHANGED next_game_ad_id
  BY DEF Refresh
<1>. DEFINE e == Copied(ad, game_list[i].game_index)
<1>2. /\ e \in Entries /\ e.game_index = game_list[i].game_index
      /\ e.pNext = None /\ e.host_last_time = e.at % TickMod /\ e.at = 0 /\ ~e.whole
  BY EntryFacts, CopiedType
<1>3. game_list' = [game_list EXCEPT ![i] = e]
  BY <1>1
<1>. HIDE DEF e
<1>4. 0 <= clock
  BY ConstantTypes DEF IInv, TypeOK
<1>5. /\ game_list' \in Seq(Entries) /\ Len(game_list') = Len(game_list)
      /\ \A j \in 1..Len(game_list) :
            game_list'[j] = IF j = i THEN e ELSE game_list[j]
      /\ \A j \in 1..Len(game_list) :
            game_list'[j].game_index = game_list[j].game_index
      /\ (Ascend /\ Chained /\ Stamped)'
      /\ (CursorLive /\ Ahead /\ WalkOrdered)'
  BY <1>1, <1>2, <1>3, <1>4, RewriteKeeps
<1>6. TypeOK'
  <2>1. rewriting' \in [at : 1..Len(game_list'), host : Hosts]
    BY <1>1, <1>5
  <2>. QED BY <1>1, <1>5, <2>1 DEF IInv, TypeOK, statusVars, walkVars
<1>7. \A j \in 1..Len(game_list) : Rewritten(j)' <=> j = i
  <2>1. rewriting' # None /\ rewriting'.at = i /\ rewriting'.host = h
    <3>1. rewriting'.at = i /\ rewriting'.host = h
      BY <1>1
    <3>2. rewriting' \in [at : Nat, host : Hosts]
      BY <1>1
    <3>. QED BY <3>1, <3>2, GameListAssumption
  <2>. QED BY <2>1 DEF Rewritten
<1>8. /\ \A j \in 1..Len(game_list) : game_list[j].whole /\ game_list[j].host \in Hosts
           /\ Joinable(game_list[j])
  BY DEF IInv, Filled, Rewritten
<1>9. Filled'
  BY <1>2, <1>5, <1>7, <1>8 DEF Filled, Joinable
<1>10. \A s \in shown : game_list[i].game_index = s[1] => h = s[2]
  BY <1>1, <1>8 DEF IInv, IndexMeansHost
<1>11. ShownBefore'
  BY <1>1, <1>5, <1>7, <1>10 DEF IInv, ShownBefore, walkVars
<1>12. IndexMeansHost'
  BY <1>2, <1>5 DEF IInv, IndexMeansHost, walkVars
<1>13. GameInfoJoinable'
  BY DEF IInv, GameInfoJoinable
<1>. QED BY <1>5, <1>6, <1>9, <1>11, <1>12, <1>13 DEF IInv

LEMMA AddKeeps ==
    ASSUME IInv, NEW h \in Hosts, NEW ad \in Ads, rewriting = None, Add(h, ad),
           UNCHANGED <<statusVars, clock, walkVars, out_game>>
    PROVE  IInv'
<1>. DEFINE new == next_game_ad_id + 1
            e == Copied(ad, new)
            n == Len(game_list) + 1
<1>1. /\ next_game_ad_id' = new /\ game_list' = Append(game_list, e)
      /\ rewriting' = [at |-> Len(game_list'), host |-> h]
      /\ next_game_ad_id \in Nat /\ next_game_ad_id >= 1 /\ new \in 2..MaxAds
  BY ConstantTypes DEF Add, IInv, TypeOK
<1>2. /\ e \in Entries /\ e.game_index = new
      /\ e.pNext = None /\ e.host_last_time = e.at % TickMod /\ e.at = 0 /\ ~e.whole
  BY <1>1, CopiedType
<1>. HIDE DEF e
<1>3. game_list \in Seq(Entries)
  BY DEF IInv, TypeOK
<1>4. /\ game_list' \in Seq(Entries) /\ Len(game_list') = n /\ Len(game_list) \in Nat
      /\ \A j \in 1..Len(game_list) : game_list'[j] = game_list[j]
      /\ game_list'[n] = e
  BY <1>1, <1>2, <1>3, AppendProperties, LenProperties
<1>5. \A j \in 1..Len(game_list') :
         \/ j \in 1..Len(game_list) /\ j # n /\ game_list'[j] = game_list[j]
         \/ j = n /\ game_list'[j] = e
  BY <1>4
<1>6. TypeOK'
  <2>1. rewriting' \in [at : 1..Len(game_list'), host : Hosts]
    BY <1>1, <1>4
  <2>2. next_game_ad_id' \in 1..MaxAds
    BY <1>1
  <2>. QED BY <1>4, <2>1, <2>2 DEF IInv, TypeOK, statusVars, walkVars
<1>7. \A j \in 1..Len(game_list) :
         game_list[j].game_index \in Nat /\ game_list[j].game_index <= next_game_ad_id
  BY EntryFacts DEF IInv, Ascend
<1>8. Ascend'
  <2>. SUFFICES ASSUME NEW j \in 1..Len(game_list')
                PROVE  /\ game_list'[j].game_index <= next_game_ad_id'
                       /\ \A k \in 1..Len(game_list') : j < k =>
                            game_list'[j].game_index < game_list'[k].game_index
    BY DEF Ascend
  <2>1. game_list'[j].game_index <= next_game_ad_id'
    BY <1>1, <1>2, <1>5, <1>7
  <2>2. ASSUME NEW k \in 1..Len(game_list'), j < k
        PROVE  game_list'[j].game_index < game_list'[k].game_index
    <3>1. j \in 1..Len(game_list) /\ game_list'[j] = game_list[j]
      BY <1>4, <1>5, <2>2
    <3>2. CASE k \in 1..Len(game_list) /\ game_list'[k] = game_list[k]
      BY <2>2, <3>1, <3>2 DEF IInv, Ascend
    <3>3. CASE k = n /\ game_list'[k] = e
      BY <1>1, <1>2, <1>7, <3>1, <3>3
    <3>. QED BY <1>5, <3>2, <3>3
  <2>. QED BY <2>1, <2>2
<1>9. Chained'
  BY <1>2, <1>4, <1>5 DEF IInv, Chained
<1>10. Stamped'
  <2>1. 0 <= clock /\ clock' = clock
    BY ConstantTypes DEF IInv, TypeOK
  <2>. QED BY <1>2, <1>5, <2>1 DEF IInv, Stamped
<1>11. \A j \in 1..Len(game_list') : Rewritten(j)' <=> j = n
  <2>1. rewriting'.at = n /\ rewriting'.host = h
    BY <1>1, <1>4
  <2>2. rewriting' # None
    <3>1. rewriting' \in [at : Nat, host : Hosts]
      BY <1>1, <1>4
    <3>. QED BY <3>1, GameListAssumption
  <2>. QED BY <2>1, <2>2 DEF Rewritten
<1>12. Filled'
  BY <1>2, <1>5, <1>11 DEF IInv, Filled, Rewritten, Joinable
<1>13. CursorLive'
  BY <1>4 DEF IInv, CursorLive, Indices, walkVars
<1>14. Ahead' /\ WalkOrdered'
  BY <1>2, <1>5, Pointers DEF IInv, Ahead, WalkOrdered, walkVars, statusVars
<1>15. \A s \in shown : s[1] \in Nat /\ s[1] <= next_game_ad_id /\ s[1] # new
  <2>1. \A s \in shown : s[1] \in 2..MaxAds /\ s[1] <= next_game_ad_id
    BY DEF IInv, TypeOK, ShownBefore
  <2>. QED BY <1>1, <2>1
<1>16. ShownBefore'
  BY <1>1, <1>2, <1>5, <1>11, <1>15 DEF ShownBefore, walkVars
<1>17. IndexMeansHost'
  BY <1>2, <1>5 DEF IInv, IndexMeansHost, walkVars
<1>18. GameInfoJoinable'
  BY DEF IInv, GameInfoJoinable
<1>. QED BY <1>6, <1>8, <1>9, <1>10, <1>12, <1>13, <1>14, <1>16, <1>17, <1>18 DEF IInv

LEMMA FinishKeeps == IInv /\ FinishAdvertisement => IInv'
<1>. SUFFICES ASSUME IInv, FinishAdvertisement PROVE IInv'
  OBVIOUS
<1>. DEFINE i == rewriting.at
            h == rewriting.host
            now == clock % TickMod
            version == JoinableVersion(game_list[i])
            e == [game_list[i] EXCEPT !.version_id = version, !.host_last_time = now,
                                      !.at = clock, !.host = h, !.whole = TRUE]
<1>1. /\ rewriting # None /\ rewriting' = None
      /\ game_list' = [game_list EXCEPT ![i] = e]
      /\ UNCHANGED <<next_game_ad_id, statusVars, clock, walkVars, out_game>>
  BY DEF FinishAdvertisement, GetTickCount
<1>2. i \in 1..Len(game_list) /\ h \in Hosts
  BY <1>1 DEF IInv, TypeOK
<1>3. game_list[i] \in Entries /\ clock \in 0..MaxClock /\ clock \in Nat
      /\ now \in 0..TickMod-1
  BY <1>2, EntryFacts, TickCount, ConstantTypes DEF IInv, TypeOK
<1>4. /\ version \in {0} \cup {ad.version_id : ad \in Ads}
      /\ version = OurVersion => game_list[i].crownlink_mode = OurMode
  BY <1>3, GameListAssumption DEF JoinableVersion, Entries
<1>. HIDE DEF version, now
<1>5. /\ e \in Entries /\ e.game_index = game_list[i].game_index
      /\ e.pNext = game_list[i].pNext /\ e.host_last_time = now /\ e.at = clock
      /\ e.host = h /\ e.whole /\ Joinable(e)
  BY <1>2, <1>3, <1>4 DEF Entries, Joinable
<1>6. e.host_last_time = e.at % TickMod /\ e.at <= clock
  BY <1>3, <1>5 DEF now
<1>. HIDE DEF e, i
<1>7. /\ game_list' \in Seq(Entries) /\ Len(game_list') = Len(game_list)
      /\ \A j \in 1..Len(game_list) :
            game_list'[j] = IF j = i THEN e ELSE game_list[j]
      /\ \A j \in 1..Len(game_list) :
            game_list'[j].game_index = game_list[j].game_index
      /\ (Ascend /\ Chained /\ Stamped)'
      /\ (CursorLive /\ Ahead /\ WalkOrdered)'
  BY <1>1, <1>2, <1>5, <1>6, RewriteKeeps
<1>8. TypeOK'
  BY <1>1, <1>7 DEF IInv, TypeOK, statusVars, walkVars
<1>9. \A j \in 1..Len(game_list) : ~Rewritten(j)' /\ (Rewritten(j) <=> j = i)
  BY <1>1 DEF Rewritten, i
<1>10. Filled'
  BY <1>2, <1>5, <1>7, <1>9 DEF IInv, Filled, Joinable
<1>11. ShownBefore'
  BY <1>1, <1>7, <1>9 DEF IInv, ShownBefore, walkVars
<1>12. \A s \in shown : game_list[i].game_index = s[1] => h = s[2]
  BY <1>2, <1>9 DEF IInv, ShownBefore
<1>13. IndexMeansHost'
  BY <1>1, <1>2, <1>5, <1>7, <1>12 DEF IInv, IndexMeansHost, walkVars
<1>14. GameInfoJoinable'
  BY <1>1 DEF IInv, GameInfoJoinable
<1>. QED BY <1>7, <1>8, <1>10, <1>11, <1>13, <1>14 DEF IInv

-----------------------------------------------------------------------------
(* spi_lock_game_list.                                                       *)

LEMMA Repointed ==
    ASSUME NEW e \in Entries, NEW v \in (2..MaxAds) \cup {StatusAd, None}
    PROVE  /\ [e EXCEPT !.pNext = v] \in Entries
           /\ [e EXCEPT !.pNext = v].pNext = v
           /\ [e EXCEPT !.pNext = v].game_index = e.game_index
           /\ [e EXCEPT !.pNext = v].host_last_time = e.host_last_time
           /\ [e EXCEPT !.pNext = v].at = e.at
           /\ [e EXCEPT !.pNext = v].host = e.host
           /\ [e EXCEPT !.pNext = v].whole = e.whole
           /\ [e EXCEPT !.pNext = v].version_id = e.version_id
           /\ [e EXCEPT !.pNext = v].crownlink_mode = e.crownlink_mode
BY DEF Entries

\* The list after the lock: the entries that stay, in their order, chained.
LEMMA LockedList ==
    ASSUME IInv, LockGameList
    PROVE  \E at : \E n \in Nat :
             /\ Len(game_list') = n /\ game_list' \in Seq(Entries)
             /\ \A k \in 1..n : at[k] \in 1..Len(game_list) /\ ~Expired(game_list[at[k]])
             /\ \A k, l \in 1..n : k < l => at[k] < at[l]
             /\ \A i \in 1..Len(game_list) : ~Expired(game_list[i]) => \E k \in 1..n : at[k] = i
             /\ \A k \in 1..n : game_list'[k] =
                  [game_list[at[k]] EXCEPT
                     !.pNext = IF k < n THEN game_list[at[k + 1]].game_index
                               ELSE IF status_ad_used THEN StatusAd ELSE None]
<1>. DEFINE kept == {i \in 1..Len(game_list) : ~Expired(game_list[i])}
<1>1. PICK at \in Ascending(kept) :
        game_list' = Linked([k \in DOMAIN at |-> game_list[at[k]]])
  BY DEF LockGameList
<1>2. PICK n \in 0..Len(game_list) : at \in [1..n -> kept]
  BY DEF Ascending
<1>3. n \in Nat /\ DOMAIN at = 1..n
  BY <1>2, LenProperties DEF IInv, TypeOK
<1>. DEFINE rest == [k \in 1..n |-> game_list[at[k]]]
            next(k) == IF k < n THEN rest[k + 1].game_index
                       ELSE IF status_ad_used THEN StatusAd ELSE None
<1>4. \A k \in 1..n : at[k] \in 1..Len(game_list) /\ ~Expired(game_list[at[k]])
  BY <1>2
<1>5. \A k \in 1..n : rest[k] = game_list[at[k]] /\ rest[k] \in Entries
  BY <1>4, EntryFacts
<1>6. rest \in Seq(Entries) /\ Len(rest) = n
  BY <1>3, <1>5, IsASeq
<1>7. game_list' = [k \in 1..n |-> [rest[k] EXCEPT !.pNext = next(k)]]
  <2>1. game_list' = Linked(rest)
    BY <1>1, <1>3
  <2>. HIDE DEF rest
  <2>. QED BY <1>6, <2>1 DEF Linked
<1>8. \A k \in 1..n : next(k) \in (2..MaxAds) \cup {StatusAd, None}
  <2>. TAKE k \in 1..n
  <2>1. CASE k < n
    <3>1. k + 1 \in 1..n
      BY <1>3, <2>1
    <3>. QED BY <1>4, <1>5, <2>1, <3>1, EntryFacts
  <2>2. CASE ~(k < n)
    BY <2>2
  <2>. QED BY <2>1, <2>2
<1>9. \A k \in 1..n : [rest[k] EXCEPT !.pNext = next(k)] \in Entries
  <2>. TAKE k \in 1..n
  <2>1. rest[k] \in Entries /\ next(k) \in (2..MaxAds) \cup {StatusAd, None}
    BY <1>5, <1>8
  <2>. HIDE DEF rest, next
  <2>. QED BY <2>1, Repointed
<1>10. game_list' \in Seq(Entries) /\ Len(game_list') = n
  <2>. DEFINE e(k) == [rest[k] EXCEPT !.pNext = next(k)]
  <2>1. game_list' = [k \in 1..n |-> e(k)] /\ \A k \in 1..n : e(k) \in Entries
    BY <1>7, <1>9
  <2>. HIDE DEF e
  <2>2. /\ [k \in 1..n |-> e(k)] \in Seq(Entries)
        /\ Len([k \in 1..n |-> e(k)]) = n
    BY <1>3, <2>1, IsASeq
  <2>. QED BY <2>1, <2>2
<1>11. \A k \in 1..n : k < n => rest[k + 1] = game_list[at[k + 1]]
  BY <1>3
<1>12. \A k \in 1..n : game_list'[k] =
          [game_list[at[k]] EXCEPT
             !.pNext = IF k < n THEN game_list[at[k + 1]].game_index
                       ELSE IF status_ad_used THEN StatusAd ELSE None]
  BY <1>5, <1>7, <1>11
<1>13. \A k, l \in 1..n : k < l => at[k] < at[l]
  BY <1>1, <1>3 DEF Ascending
<1>14. \A i \in 1..Len(game_list) : ~Expired(game_list[i]) => \E k \in 1..n : at[k] = i
  BY <1>1, <1>3 DEF Ascending
<1>. QED BY <1>3, <1>4, <1>10, <1>12, <1>13, <1>14

LEMMA LockKeeps == IInv /\ LockGameList => IInv'
<1>. SUFFICES ASSUME IInv, LockGameList PROVE IInv'
  OBVIOUS
<1>. DEFINE After(at, n) ==
         /\ Len(game_list') = n /\ game_list' \in Seq(Entries)
         /\ \A k \in 1..n : at[k] \in 1..Len(game_list)
         /\ \A k, l \in 1..n : k < l => at[k] < at[l]
         /\ \A k \in 1..n : game_list'[k] =
              [game_list[at[k]] EXCEPT
                 !.pNext = IF k < n THEN game_list[at[k + 1]].game_index
                           ELSE IF status_ad_used THEN StatusAd ELSE None]
<1>0. PICK at : \E n \in Nat : After(at, n)
  BY LockedList
<1>1. PICK n \in Nat : After(at, n)
  BY <1>0
<1>2. /\ cursor = Unlocked /\ rewriting = None /\ seen = <<>> /\ Len(seen) = 0
      /\ UNCHANGED <<next_game_ad_id, status_ad_used, rewriting, clock, seen, shown>>
      /\ out_game' = None
  BY DEF LockGameList, IInv, Ahead
<1>3. \A k \in 1..n : \A l \in 1..n : k < l =>
         game_list[at[k]].game_index < game_list[at[l]].game_index
  BY <1>1 DEF IInv, Ascend
<1>4. ASSUME NEW k \in 1..n
      PROVE  /\ game_list[at[k]] \in Entries /\ at[k] \in 1..Len(game_list)
             /\ game_list'[k].game_index = game_list[at[k]].game_index
             /\ game_list'[k].game_index \in 2..MaxAds
             /\ game_list'[k].host_last_time = game_list[at[k]].host_last_time
             /\ game_list'[k].at = game_list[at[k]].at
             /\ game_list'[k].host = game_list[at[k]].host
             /\ game_list'[k].whole = game_list[at[k]].whole
             /\ game_list'[k].version_id = game_list[at[k]].version_id
             /\ game_list'[k].crownlink_mode = game_list[at[k]].crownlink_mode
             /\ game_list'[k].pNext = IF k < n THEN game_list[at[k + 1]].game_index
                                       ELSE IF status_ad_used THEN StatusAd ELSE None
  <2>. DEFINE v == IF k < n THEN game_list[at[k + 1]].game_index
                   ELSE IF status_ad_used THEN StatusAd ELSE None
  <2>1. at[k] \in 1..Len(game_list)
    BY <1>1
  <2>2. game_list[at[k]] \in Entries /\ game_list[at[k]].game_index \in 2..MaxAds
    BY <2>1, EntryFacts
  <2>3. v \in (2..MaxAds) \cup {StatusAd, None}
    <3>1. ASSUME k < n PROVE game_list[at[k + 1]].game_index \in 2..MaxAds
      <4>1. k + 1 \in 1..n
        BY <1>1, <3>1
      <4>. QED BY <1>1, <4>1, EntryFacts
    <3>. QED BY <3>1
  <2>4. game_list'[k] = [game_list[at[k]] EXCEPT !.pNext = v]
    BY <1>1
  <2>. HIDE DEF v
  <2>5. /\ game_list'[k].game_index = game_list[at[k]].game_index
        /\ game_list'[k].host_last_time = game_list[at[k]].host_last_time
        /\ game_list'[k].at = game_list[at[k]].at
        /\ game_list'[k].host = game_list[at[k]].host
        /\ game_list'[k].whole = game_list[at[k]].whole
        /\ game_list'[k].version_id = game_list[at[k]].version_id
        /\ game_list'[k].crownlink_mode = game_list[at[k]].crownlink_mode
        /\ game_list'[k].pNext = v
    BY <2>2, <2>3, <2>4, Repointed
  <2>. QED BY <2>1, <2>2, <2>5 DEF v
<1>5. \A k \in 1..n : game_list'[k].game_index \in Nat
  BY <1>4, ConstantTypes
<1>6. Ascend'
  <2>. SUFFICES ASSUME NEW k \in 1..n
                PROVE  /\ game_list'[k].game_index <= next_game_ad_id
                       /\ \A l \in 1..n : k < l =>
                            game_list'[k].game_index < game_list'[l].game_index
    BY <1>1, <1>2 DEF Ascend
  <2>1. game_list[at[k]].game_index <= next_game_ad_id
    BY <1>4 DEF IInv, Ascend
  <2>. QED BY <1>3, <1>4, <2>1
<1>7. Chained'
  <2>. SUFFICES ASSUME NEW k \in 1..n
                PROVE  \/ game_list'[k].pNext \in {None, StatusAd}
                       \/ \E l \in 1..n : k < l /\ game_list'[k].pNext = game_list'[l].game_index
    BY <1>1 DEF Chained
  <2>1. CASE k < n
    <3>1. k + 1 \in 1..n /\ k < k + 1
      BY <1>1, <2>1
    <3>2. game_list'[k].pNext = game_list'[k + 1].game_index
      BY <1>4, <2>1, <3>1
    <3>. QED BY <3>1, <3>2
  <2>2. CASE ~(k < n)
    BY <1>4, <2>2
  <2>. QED BY <2>1, <2>2
<1>8. Filled'
  <2>. SUFFICES ASSUME NEW k \in 1..n
                PROVE  game_list'[k].whole /\ game_list'[k].host \in Hosts
                       /\ Joinable(game_list'[k])
    BY <1>1, <1>2 DEF Filled, Rewritten, Joinable
  <2>1. game_list[at[k]].whole /\ game_list[at[k]].host \in Hosts /\ Joinable(game_list[at[k]])
    BY <1>2, <1>4 DEF IInv, Filled, Rewritten
  <2>. QED BY <1>4, <2>1 DEF Joinable
<1>9. Stamped'
  <2>. SUFFICES ASSUME NEW k \in 1..n
                PROVE  game_list'[k].host_last_time = game_list'[k].at % TickMod
                       /\ game_list'[k].at <= clock
    BY <1>1, <1>2 DEF Stamped
  <2>1. game_list[at[k]].host_last_time = game_list[at[k]].at % TickMod
        /\ game_list[at[k]].at <= clock
    BY <1>4 DEF IInv, Stamped
  <2>. QED BY <1>4, <2>1
<1>10. game_list' # <<>> <=> n > 0
  BY <1>1, EmptySeq
<1>11. /\ n > 0 => cursor' = game_list'[1].game_index
       /\ n = 0 => cursor' \in {StatusAd, None}
       /\ status_ad_used /\ n > 0 => status_index' = game_list'[n].game_index + 1
       /\ ~(status_ad_used /\ n > 0) => status_index' = status_index
  <2>1. n = 0 \/ n > 0
    BY <1>1
  <2>. QED BY <1>1, <1>10, <2>1 DEF LockGameList
<1>12. cursor' \in (2..MaxAds) \cup {StatusAd, None} /\ CursorLive'
  <2>1. CASE n > 0
    <3>1. 1 \in 1..n /\ 1 \in 1..Len(game_list')
      BY <1>1, <2>1
    <3>. QED BY <1>4, <1>11, <2>1, <3>1 DEF CursorLive, Indices
  <2>2. CASE n = 0
    BY <1>11, <2>2 DEF CursorLive
  <2>. QED BY <1>1, <2>1, <2>2
<1>13. status_index' \in 0..MaxAds+1
  <2>1. CASE status_ad_used /\ n > 0
    <3>1. n \in 1..n
      BY <1>1, <2>1
    <3>2. game_list'[n].game_index \in 2..MaxAds
      BY <1>4, <3>1
    <3>. QED BY <1>11, <2>1, <3>2, ConstantTypes
  <2>2. CASE ~(status_ad_used /\ n > 0)
    BY <1>11, <2>2 DEF IInv, TypeOK
  <2>. QED BY <2>1, <2>2
<1>14. TypeOK'
  <2>1. given' \subseteq 2..MaxAds
    <3>1. given' = {game_list'[i].game_index : i \in 1..n}
      BY <1>1 DEF LockGameList
    <3>. QED BY <1>4, <3>1
  <2>2. rewriting' \in {None} \cup [at : 1..Len(game_list'), host : Hosts]
    BY <1>2
  <2>. QED BY <1>1, <1>2, <1>12, <1>13, <2>1, <2>2 DEF IInv, TypeOK
<1>15. Ahead'
  <2>1. cursor' # Unlocked
    BY <1>12, ConstantTypes, Pointers
  <2>2. \A k \in 1..n : game_list'[k].pNext = StatusAd => k = n /\ status_ad_used
    <3>. SUFFICES ASSUME NEW k \in 1..n, game_list'[k].pNext = StatusAd
                  PROVE  k = n /\ status_ad_used
      OBVIOUS
    <3>1. CASE k < n
      <4>1. k + 1 \in 1..n
        BY <1>1, <3>1
      <4>2. game_list'[k].pNext \in Nat
        BY <1>4, <1>5, <3>1, <4>1
      <4>. QED BY <4>2, Pointers
    <3>2. CASE ~(k < n)
      BY <1>1, <1>4, <3>2, Pointers
    <3>. QED BY <3>1, <3>2
  <2>3. \A k \in 1..n :
           game_list'[k].pNext = StatusAd => game_list'[k].game_index < status_index'
    BY <1>1, <1>5, <1>11, <2>2
  <2>4. seen' = <<>> /\ Len(seen') = 0
    BY <1>2
  <2>. QED BY <1>1, <2>1, <2>3, <2>4 DEF Ahead
<1>16. WalkOrdered'
  BY <1>2 DEF WalkOrdered
<1>17. ShownBefore'
  BY <1>2 DEF IInv, ShownBefore, Rewritten
<1>18. IndexMeansHost'
  <2>1. ASSUME NEW s \in shown, NEW k \in 1..n, game_list'[k].whole,
               game_list'[k].game_index = s[1]
        PROVE  game_list'[k].host = s[2]
    BY <1>4, <2>1 DEF IInv, IndexMeansHost
  <2>. QED BY <1>1, <1>2, <2>1 DEF IInv, IndexMeansHost
<1>19. GameInfoJoinable'
  BY <1>2 DEF GameInfoJoinable
<1>. QED BY <1>6, <1>7, <1>8, <1>9, <1>12, <1>14, <1>15, <1>16, <1>17, <1>18, <1>19 DEF IInv

-----------------------------------------------------------------------------

LEMMA StepIInv == IInv /\ [Next]_vars => IInv'
<1>. SUFFICES ASSUME IInv, [Next]_vars PROVE IInv'
  OBVIOUS
<1>1. ASSUME NEW h \in Hosts, NEW ad \in Ads, PassAdvertisement(h, ad) PROVE IInv'
  BY <1>1, RefreshKeeps, AddKeeps DEF PassAdvertisement
<1>2. CASE FinishAdvertisement
  BY <1>2, FinishKeeps
<1>3. CASE LockGameList
  BY <1>3, LockKeeps
<1>4. CASE Walk
  BY <1>4, WalkKeeps
<1>5. CASE UnlockGameList
  BY <1>5, UnlockKeeps
<1>6. ASSUME NEW index \in 2..MaxAds, GetGameInfo(index) PROVE IInv'
  BY <1>6, GetGameInfoKeeps
<1>7. CASE Tick
  BY <1>7, TickKeeps
<1>8. CASE UNCHANGED vars
  BY <1>8 DEF vars, listVars, statusVars, walkVars, IInv, TypeOK, Ascend, Chained, Filled,
     Rewritten, Stamped, CursorLive, Indices, Ahead, WalkOrdered, ShownBefore,
     IndexMeansHost, GameInfoJoinable, Joinable
<1>. QED BY <1>1, <1>2, <1>3, <1>4, <1>5, <1>6, <1>7, <1>8 DEF Next

\* The invariant holds of every state of the module.
THEOREM Invariance == Spec => []IInv
<1>1. Init => IInv
  BY InitIInv
<1>2. IInv /\ [Next]_vars => IInv'
  BY StepIInv
<1>. QED BY <1>1, <1>2, PTL DEF Spec

\* The list, Storm's pointer and what it was shown keep their types
\* (SNPModule.cpp:32-57, 170-195, 271-283).
THEOREM TypeCorrect == Spec => []TypeOK
<1>1. IInv => TypeOK
  BY DEF IInv
<1>. QED BY <1>1, Invariance, PTL

\* Storm never follows a pointer to a node that is gone, though it holds no
\* lock while it walks (SNPModule.cpp:170-195).
THEOREM PointerLive == Spec => []CursorLive
<1>1. IInv => CursorLive
  BY DEF IInv
<1>. QED BY <1>1, Invariance, PTL

\* A walk meets its games in ascending order, so it comes to an end
\* (SNPModule.cpp:33-36, 180-195).
THEOREM WalkInOrder == Spec => []WalkOrdered
<1>1. IInv => WalkOrdered
  BY DEF IInv
<1>. QED BY <1>1, Invariance, PTL

\* The index of a shown game never leads to another host's
\* (SNPModule.cpp:32-37, 271-283).
THEOREM IndexKeepsHost == Spec => []IndexMeansHost
<1>1. IInv => IndexMeansHost
  BY DEF IInv
<1>. QED BY <1>1, Invariance, PTL

\* spi_get_game_info returns finished entries, and no game of the other mode
\* under our version (SNPModule.cpp:50-52, 271-283).
THEOREM InfoJoinable == Spec => []GameInfoJoinable
<1>1. IInv => GameInfoJoinable
  BY DEF IInv
<1>. QED BY <1>1, Invariance, PTL

-----------------------------------------------------------------------------
(* Who stays in the list.                                                    *)

\* Within one round of the tick count, and if the sum does not wrap, the
\* comparison in spi_lock_game_list tells the age.
LEMMA AgeWithinRound ==
    ASSUME NEW now \in Nat, NEW at \in Nat,
           now \div TickMod = at \div TickMod,
           (at % TickMod) + Timeout < TickMod
    PROVE  now % TickMod > ((at % TickMod) + Timeout) % TickMod <=> ~(now - at <= Timeout)
<1>. DEFINE q == at \div TickMod
<1>1. /\ TickMod \in Nat \ {0} /\ Timeout \in Nat
      /\ at % TickMod \in 0..TickMod-1 /\ now % TickMod \in 0..TickMod-1
      /\ q \in Nat
  BY ConstantTypes
<1>2. now = TickMod * q + (now % TickMod) /\ at = TickMod * q + (at % TickMod)
  BY <1>1
<1>3. ((at % TickMod) + Timeout) % TickMod = (at % TickMod) + Timeout
  BY <1>1
<1>4. TickMod * q \in Nat
  BY <1>1
<1>. HIDE DEF q
<1>. QED BY <1>1, <1>2, <1>3, <1>4

LEMMA ExpiredIsStale ==
    ASSUME IInv, NEW i \in 1..Len(game_list), ~Wrapped(game_list[i])
    PROVE  Expired(game_list[i]) <=> ~(clock - game_list[i].at <= Timeout)
<1>. DEFINE e == game_list[i]
<1>1. e.at \in Nat /\ clock \in Nat /\ e.host_last_time = e.at % TickMod
  <2>1. e \in Entries /\ clock \in 0..MaxClock
    BY EntryFacts DEF IInv, TypeOK
  <2>2. e.at \in 0..MaxClock
    BY <2>1 DEF Entries
  <2>3. e.host_last_time = e.at % TickMod
    BY DEF IInv, Stamped
  <2>. HIDE DEF e
  <2>. QED BY <2>1, <2>2, <2>3, ConstantTypes
<1>2. clock \div TickMod = e.at \div TickMod /\ (e.at % TickMod) + Timeout < TickMod
  BY <1>1, TickCount, ConstantTypes DEF Wrapped
<1>. HIDE DEF e
<1>3. Expired(e) <=> clock % TickMod > ((e.at % TickMod) + Timeout) % TickMod
  BY <1>1 DEF Expired, GetTickCount
<1>. QED BY <1>1, <1>2, <1>3, AgeWithinRound DEF e

LEMMA LockKeepsHeard ==
    ASSUME IInv, LockGameList, NEW i \in 1..Len(game_list)
    PROVE  (\E j \in 1..Len(game_list') : game_list'[j].game_index = game_list[i].game_index)
             <=> ~Expired(game_list[i])
<1>. DEFINE After(at, n) ==
         /\ Len(game_list') = n
         /\ \A k \in 1..n : at[k] \in 1..Len(game_list) /\ ~Expired(game_list[at[k]])
         /\ \A j \in 1..Len(game_list) : ~Expired(game_list[j]) => \E k \in 1..n : at[k] = j
         /\ \A k \in 1..n : game_list'[k] =
              [game_list[at[k]] EXCEPT
                 !.pNext = IF k < n THEN game_list[at[k + 1]].game_index
                           ELSE IF status_ad_used THEN StatusAd ELSE None]
<1>0. PICK at : \E n \in Nat : After(at, n)
  BY LockedList
<1>1. PICK n \in Nat : After(at, n)
  BY <1>0
<1>2. \A k \in 1..n : game_list'[k].game_index = game_list[at[k]].game_index
  <2>. TAKE k \in 1..n
  <2>1. game_list[at[k]] \in Entries
    BY <1>1, EntryFacts
  <2>. QED BY <1>1, <2>1 DEF Entries
<1>3. \A j \in 1..Len(game_list) :
         game_list[j].game_index = game_list[i].game_index => j = i
  <2>. SUFFICES ASSUME NEW j \in 1..Len(game_list), j # i
                PROVE  game_list[j].game_index # game_list[i].game_index
    OBVIOUS
  <2>1. j < i \/ i < j
    BY EntryFacts
  <2>. QED BY <2>1, EntryFacts DEF IInv, Ascend
<1>. QED BY <1>1, <1>2, <1>3

LEMMA StepKeepsHeard == IInv /\ Next => KeepsHeard
<1>. SUFFICES ASSUME IInv, Next, NEW i \in 1..Len(game_list)
              PROVE  LET kept == \E j \in 1..Len(game_list') :
                                   game_list'[j].game_index = game_list[i].game_index
                     IN  /\ LockGameList /\ ~Wrapped(game_list[i])
                                => (kept <=> clock - game_list[i].at <= Timeout)
                         /\ ~LockGameList => kept
  BY DEF KeepsHeard
<1>. DEFINE kept == \E j \in 1..Len(game_list') :
                       game_list'[j].game_index = game_list[i].game_index
<1>1. ASSUME LockGameList, ~Wrapped(game_list[i])
      PROVE  kept <=> clock - game_list[i].at <= Timeout
  BY <1>1, LockKeepsHeard, ExpiredIsStale
<1>2. ASSUME game_list' = game_list PROVE kept
  BY <1>2
<1>3. game_list \in Seq(Entries) /\ Len(game_list) \in Nat /\ game_list[i] \in Entries
  BY EntryFacts DEF IInv, TypeOK
<1>4. ASSUME NEW h \in Hosts, NEW ad \in Ads, PassAdvertisement(h, ad) PROVE kept
  <2>1. CASE Refresh(h, ad)
    <3>1. PICK k \in 1..Len(game_list) :
             game_list' = [game_list EXCEPT ![k] = Copied(ad, game_list[k].game_index)]
      BY <2>1 DEF Refresh
    <3>2. Copied(ad, game_list[k].game_index).game_index = game_list[k].game_index
      BY DEF Copied
    <3>. QED BY <1>3, <3>1, <3>2, ExceptSeq
  <2>2. CASE Add(h, ad)
    <3>. DEFINE e == Copied(ad, next_game_ad_id')
    <3>1. game_list' = Append(game_list, e)
      BY <2>2 DEF Add
    <3>2. e \in Entries
      <4>1. next_game_ad_id' \in 2..MaxAds
        BY <2>2, ConstantTypes DEF Add, IInv, TypeOK
      <4>. QED BY <4>1, CopiedType
    <3>. HIDE DEF e
    <3>3. i \in 1..Len(game_list') /\ game_list'[i] = game_list[i]
      BY <1>3, <3>1, <3>2, AppendProperties
    <3>. QED BY <3>3
  <2>. QED BY <1>4, <2>1, <2>2 DEF PassAdvertisement
<1>5. ASSUME FinishAdvertisement PROVE kept
  <2>. DEFINE k == rewriting.at
              e == [game_list[k] EXCEPT !.version_id = JoinableVersion(game_list[k]),
                       !.host_last_time = GetTickCount, !.at = clock,
                       !.host = rewriting.host, !.whole = TRUE]
  <2>1. k \in 1..Len(game_list) /\ game_list' = [game_list EXCEPT ![k] = e]
    BY <1>5 DEF FinishAdvertisement, IInv, TypeOK
  <2>2. game_list[k] \in Entries
    BY <2>1, EntryFacts
  <2>3. e.game_index = game_list[k].game_index
    BY <2>2 DEF Entries
  <2>. HIDE DEF e, k
  <2>4. /\ Len(game_list') = Len(game_list)
        /\ i # k => game_list'[i] = game_list[i]
        /\ game_list'[k] = e
    BY <1>3, <2>1, ExceptSeq
  <2>5. i \in 1..Len(game_list') /\ game_list'[i].game_index = game_list[i].game_index
    BY <2>3, <2>4
  <2>. QED BY <2>5
<1>6. ASSUME ~LockGameList PROVE kept
  <2>1. ASSUME Walk \/ UnlockGameList \/ Tick \/ \E index \in 2..MaxAds : GetGameInfo(index)
        PROVE  game_list' = game_list
    BY <2>1 DEF Walk, UnlockGameList, Tick, GetGameInfo, listVars
  <2>. HIDE DEF kept
  <2>. QED BY <1>2, <1>4, <1>5, <1>6, <2>1 DEF Next
<1>. QED BY <1>1, <1>6

\* A host's entry goes when it was not heard of for 2000 ms, and not before,
\* but for the wrap of the tick count (SNPModule.cpp:35-36, 85, 177).
THEOREM HeardStaysListed == Spec => ListedWhileHeard
<1>1. IInv /\ [Next]_vars => [KeepsHeard]_vars
  BY StepKeepsHeard
<1>. QED BY <1>1, Invariance, PTL DEF Spec, ListedWhileHeard

=============================================================================
