----------------------------- MODULE GameList -----------------------------
(***************************************************************************)
(* The list of joinable games that the module keeps for Storm              *)
(* (SNPModule.cpp).  The signaling thread adds and refreshes entries as    *)
(* lobby packets arrive; Storm's thread locks the list, walks the chain of *)
(* pNext pointers it was given, unlocks the list, and asks for the game    *)
(* with a given index.                                                     *)
(*                                                                         *)
(* g_advertisement_mutex is held inside each of these calls only: Storm's  *)
(* walk, between spi_lock_game_list and spi_unlock_game_list, holds        *)
(* nothing.  A std::list node keeps its address while it is in the list,   *)
(* and no game_index is given twice, so a pointer to a node is represented *)
(* by the node's game_index.                                               *)
(***************************************************************************)
EXTENDS Naturals, Sequences

CONSTANTS
    Hosts,       \* the peers that host lobbies
    Ads,         \* what a lobby packet can say: [version_id, crownlink_mode]
    OurVersion,  \* game_app_info.version_id
    OurMode,     \* g_crown_link->mode()
    TickMod,     \* 2^32: GetTickCount is a u32 of milliseconds
    Timeout,     \* 2000
    FirstClock,  \* the time at which the module starts
    MaxClock,    \* bound: the last time considered
    MaxAds,      \* bound: entries ever made
    StatusAd,    \* a pointer to status_ad
    None,        \* the null pointer
    Unlocked     \* Storm is not walking the list

\* version_id 0 belongs to no game.
ASSUME GameListAssumption ==
    /\ {TickMod, Timeout, FirstClock, MaxClock, MaxAds} \subseteq Nat
    /\ Timeout < TickMod /\ FirstClock <= MaxClock /\ MaxAds > 0
    /\ OurVersion # 0
    /\ None # StatusAd /\ {None, StatusAd, Unlocked} \cap (Hosts \cup Nat) = {}
    /\ Unlocked \notin {None, StatusAd}
    /\ None \notin [at : Nat, host : Hosts]

VARIABLES
    game_list,        \* SNPContext::game_list
    next_game_ad_id,
    status_ad_used,
    status_index,     \* status_ad.game_info.game_index
    rewriting,        \* the entry pass_advertisement is at, holding the mutex
    clock,            \* milliseconds, of which GetTickCount is the low bits
    cursor,           \* Storm's pointer into the chain; Unlocked outside
    given,            \* the indices in the list that the last lock handed out
    seen,             \* the indices Storm has met on its walk, in order
    shown,            \* <<index, host>> of every finished entry Storm has met
    out_game          \* what spi_get_game_info returned, until the next lock

listVars == <<game_list, next_game_ad_id>>
statusVars == <<status_ad_used, status_index>>
walkVars == <<cursor, given, seen, shown>>
vars == <<listVars, statusVars, rewriting, clock, walkVars, out_game>>

GetTickCount == clock % TickMod

Indices == {game_list[i].game_index : i \in 1..Len(game_list)}

Init ==
    /\ game_list = <<>>
    /\ next_game_ad_id = 1
    /\ status_ad_used = TRUE    \* spi_initialize: "Crownlink Initializing"
    /\ status_index = 0
    /\ rewriting = None
    /\ clock = FirstClock
    /\ cursor = Unlocked
    /\ given = {}
    /\ seen = <<>>
    /\ shown = {}
    /\ out_game = None

-----------------------------------------------------------------------------
(* The signaling thread: pass_advertisement.                                 *)

\* An entry just after memcpy_s: the sender filled neither host, which it
\* does not know, nor host_last_time; pNext is null as create_ad left it, and
\* pExtra ("whole" tells) still is an address in the sender's process.
Copied(ad, index) ==
    [host |-> None, game_index |-> index, host_last_time |-> 0, at |-> 0,
     version_id |-> ad.version_id, crownlink_mode |-> ad.crownlink_mode,
     pNext |-> None, whole |-> FALSE]

\* The entry of a host that is listed already is overwritten in place.
Refresh(h, ad) ==
    /\ \E i \in 1..Len(game_list) :
         /\ game_list[i].host = h
         /\ game_list' = [game_list EXCEPT ![i] = Copied(ad, @.game_index)]
         /\ rewriting' = [at |-> i, host |-> h]
    /\ UNCHANGED next_game_ad_id

\* Variant: a new entry is put at the front.
AddInFront(h, ad) ==
    /\ \A i \in 1..Len(game_list) : game_list[i].host # h
    /\ next_game_ad_id < MaxAds
    /\ next_game_ad_id' = next_game_ad_id + 1
    /\ game_list' = <<Copied(ad, next_game_ad_id')>> \o game_list
    /\ rewriting' = [at |-> 1, host |-> h]

\* Variant: the index is the position in the list.
AddByPosition(h, ad) ==
    /\ \A i \in 1..Len(game_list) : game_list[i].host # h
    /\ next_game_ad_id < MaxAds
    /\ next_game_ad_id' = next_game_ad_id + 1
    /\ game_list' = Append(game_list, Copied(ad, Len(game_list) + 2))
    /\ rewriting' = [at |-> Len(game_list'), host |-> h]

\* Variant: the index is taken before it is incremented.
AddPostIncrement(h, ad) ==
    /\ \A i \in 1..Len(game_list) : game_list[i].host # h
    /\ next_game_ad_id < MaxAds
    /\ next_game_ad_id' = next_game_ad_id + 1
    /\ game_list' = Append(game_list, Copied(ad, next_game_ad_id))
    /\ rewriting' = [at |-> Len(game_list'), host |-> h]

\* Any other host's is put at the end, with the next index.
Add(h, ad) ==
    /\ \A i \in 1..Len(game_list) : game_list[i].host # h
    /\ next_game_ad_id < MaxAds
    /\ next_game_ad_id' = next_game_ad_id + 1
    /\ game_list' = Append(game_list, Copied(ad, next_game_ad_id'))
    /\ rewriting' = [at |-> Len(game_list'), host |-> h]

PassAdvertisement(h, ad) ==
    /\ rewriting = None
    /\ Refresh(h, ad) \/ Add(h, ad)
    /\ UNCHANGED <<statusVars, clock, walkVars, out_game>>

\* A game of the other CrownLink mode gets a version nobody can join.
JoinableVersion(e) == IF e.crownlink_mode = OurMode THEN e.version_id ELSE 0

FinishAdvertisement ==
    /\ rewriting # None
    /\ game_list' = [game_list EXCEPT ![rewriting.at] =
                        [@ EXCEPT !.version_id = JoinableVersion(game_list[rewriting.at]),
                                  !.host_last_time = GetTickCount,
                                  !.at = clock,
                                  !.host = rewriting.host,
                                  !.whole = TRUE]]
    /\ rewriting' = None
    /\ UNCHANGED <<next_game_ad_id, statusVars, clock, walkVars, out_game>>

-----------------------------------------------------------------------------
(* Storm's thread.                                                           *)

\* Variant: an entry goes when it is exactly 2000 ms old.
ExpiredEarly(e) == GetTickCount >= (e.host_last_time + Timeout) % TickMod

\* u32 arithmetic: the sum wraps.
Expired(e) == GetTickCount > (e.host_last_time + Timeout) % TickMod

\* Variant: the last entry's pNext is not reset.
LinkedOpenEnd(s) ==
    [i \in 1..Len(s) |->
        [s[i] EXCEPT !.pNext = IF i < Len(s) THEN s[i + 1].game_index
                               ELSE IF status_ad_used THEN StatusAd
                               ELSE @]]

\* The chain through list s, and on to the status ad while it is in use.
Linked(s) ==
    [i \in 1..Len(s) |->
        [s[i] EXCEPT !.pNext = IF i < Len(s) THEN s[i + 1].game_index
                               ELSE IF status_ad_used THEN StatusAd
                               ELSE None]]

\* erase_if keeps the order: positions of the list, in ascending order.
Ascending(S) ==
    {at \in UNION {[1..n -> S] : n \in 0..Len(game_list)} :
        /\ \A k, l \in DOMAIN at : k < l => at[k] < at[l]
        /\ \A i \in S : \E k \in DOMAIN at : at[k] = i}

LockGameList ==
    /\ cursor = Unlocked /\ rewriting = None
    /\ \E at \in Ascending({i \in 1..Len(game_list) : ~Expired(game_list[i])}) :
         game_list' = Linked([k \in DOMAIN at |-> game_list[at[k]]])
    /\ status_index' = IF status_ad_used /\ game_list' # <<>>
                       THEN game_list'[Len(game_list')].game_index + 1
                       ELSE status_index
    /\ cursor' = IF game_list' # <<>> THEN game_list'[1].game_index
                 ELSE IF status_ad_used THEN StatusAd
                 ELSE None
    /\ given' = {game_list'[i].game_index : i \in 1..Len(game_list')}
    /\ out_game' = None
    /\ UNCHANGED <<next_game_ad_id, status_ad_used, rewriting, clock, seen, shown>>

\* Storm reads the node under its cursor and moves on; it holds no lock, so the
\* node may be one that pass_advertisement is still filling in.
Walk ==
    \/ \E i \in 1..Len(game_list) :
         /\ cursor = game_list[i].game_index
         /\ seen' = Append(seen, cursor)
         /\ shown' = IF game_list[i].whole
                     THEN shown \cup {<<cursor, game_list[i].host>>}
                     ELSE shown
         /\ cursor' = game_list[i].pNext
         /\ UNCHANGED <<listVars, statusVars, rewriting, clock, given, out_game>>
    \/ /\ cursor = StatusAd
       /\ seen' = Append(seen, status_index)
       /\ cursor' = None
       /\ UNCHANGED <<listVars, statusVars, rewriting, clock, given, shown,
                      out_game>>

\* request_advertisements puts up a status ad unless the socket is Ready.
UnlockGameList ==
    /\ cursor = None /\ rewriting = None
    /\ cursor' = Unlocked
    /\ \/ status_ad_used' = FALSE /\ UNCHANGED status_index
       \/ status_ad_used' = TRUE /\ status_index' = 0
    /\ given' = {} /\ seen' = <<>>
    /\ UNCHANGED <<listVars, rewriting, clock, shown, out_game>>

\* Variant: the mutex is not taken.
GetGameInfoUnlocked(index) ==
    /\ cursor = Unlocked
    /\ \/ \E i \in 1..Len(game_list) :
            game_list[i].game_index = index /\ out_game' = game_list[i]
       \/ index \notin Indices /\ out_game' = None
    /\ UNCHANGED <<listVars, statusVars, rewriting, clock, walkVars>>

\* Storm asks for the game with some index, such as that of an entry it has
\* met, finished or not.
GetGameInfo(index) ==
    /\ cursor = Unlocked /\ rewriting = None
    /\ \/ \E i \in 1..Len(game_list) :
            game_list[i].game_index = index /\ out_game' = game_list[i]
       \/ index \notin Indices /\ out_game' = None
    /\ UNCHANGED <<listVars, statusVars, rewriting, clock, walkVars>>

Tick ==
    /\ clock < MaxClock
    /\ clock' = clock + 1
    /\ UNCHANGED <<listVars, statusVars, rewriting, walkVars, out_game>>

Next ==
    \/ \E h \in Hosts, ad \in Ads : PassAdvertisement(h, ad)
    \/ FinishAdvertisement
    \/ LockGameList \/ Walk \/ UnlockGameList
    \/ \E index \in 2..MaxAds : GetGameInfo(index)
    \/ Tick

Spec == Init /\ [][Next]_vars

-----------------------------------------------------------------------------

Entries ==
    [host : Hosts \cup {None}, game_index : 2..MaxAds,
     host_last_time : 0..TickMod-1, at : 0..MaxClock,
     version_id : {0} \cup {ad.version_id : ad \in Ads},
     crownlink_mode : {ad.crownlink_mode : ad \in Ads},
     pNext : (2..MaxAds) \cup {StatusAd, None}, whole : BOOLEAN]

TypeOK ==
    /\ game_list \in Seq(Entries)
    /\ next_game_ad_id \in 1..MaxAds
    /\ status_ad_used \in BOOLEAN
    /\ status_index \in 0..MaxAds+1
    /\ rewriting \in {None} \cup [at : 1..Len(game_list), host : Hosts]
    /\ clock \in 0..MaxClock
    /\ cursor \in (2..MaxAds) \cup {StatusAd, None, Unlocked}
    /\ given \subseteq 2..MaxAds
    /\ seen \in Seq(0..MaxAds+1)
    /\ shown \subseteq (2..MaxAds) \X Hosts
    /\ out_game \in Entries \cup {None}

\* Whatever the signaling thread does to the list meanwhile, Storm's pointer
\* leads to a node that is still in it: nodes go only in spi_lock_game_list,
\* which links the rest anew (SNPModule.cpp:177-195).
CursorLive ==
    cursor \in Indices \cup {StatusAd, None, Unlocked}

\* Storm meets games in ascending order of their index, the status ad last,
\* so no game twice and no walk without end (SNPModule.cpp:33-36, 180-195).
WalkOrdered ==
    \A i, j \in 1..Len(seen) :
        i < j => seen[i] < seen[j]

\* An index Storm was shown for one host never leads to another host's game:
\* the game that is joined is the one that was picked, or none
\* (SNPModule.cpp:32-37, 271-283).
IndexMeansHost ==
    \A s \in shown :
        /\ \A i \in 1..Len(game_list) :
             game_list[i].whole /\ game_list[i].game_index = s[1]
                => game_list[i].host = s[2]
        /\ \A t \in shown : s[1] = t[1] => s = t

\* A walk may read an entry that pass_advertisement has copied but not finished,
\* of the other CrownLink mode and still with our version.  What
\* spi_get_game_info then returns for that index is finished, and no game of
\* the other mode under our version (SNPModule.cpp:50-52 "should ensure we can't
\* join the game", 271-283).  Nothing is said of what the walk itself reads.
GameInfoJoinable ==
    out_game # None =>
        /\ out_game.whole
        /\ out_game.version_id = OurVersion => out_game.crownlink_mode = OurMode

\* The tick count, or the sum host_last_time + 2000, has wrapped since the
\* entry was refreshed.
Wrapped(e) ==
    clock \div TickMod # e.at \div TickMod \/ (e.at % TickMod) + Timeout >= TickMod

\* A step takes away an entry only in spi_lock_game_list, which away from the
\* wrap keeps those that were refreshed in the last Timeout.
KeepsHeard ==
    \A i \in 1..Len(game_list) :
        LET e == game_list[i]
            kept == \E j \in 1..Len(game_list') :
                       game_list'[j].game_index = e.game_index
        IN  /\ LockGameList /\ ~Wrapped(e) => (kept <=> clock - e.at <= Timeout)
            /\ ~LockGameList => kept

\* Away from the wrap of the tick count, a host keeps its entry, and with it
\* the index, exactly as long as it was heard of in the last 2000 ms
\* (SNPModule.cpp:35-36, 85, 177).
ListedWhileHeard == [][KeepsHeard]_vars

\* spi_lock_game_list is "Called to prevent the game list from updating so
\* that it can be processed by storm" (SNPModule.h:49): a walk that has come
\* to its end has met every game of the list it was given.
WalkComplete ==
    cursor = None => given \subseteq {seen[i] : i \in 1..Len(seen)}

=============================================================================
