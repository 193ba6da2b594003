------------------------------ MODULE UserAssets ------------------------------
(***************************************************************************)
(* Watchlists and preferences of user-asset-service                        *)
(* (internal/service/user_asset.go, internal/repository,                   *)
(* internal/handler/user_asset.go) as far as notifications depend on them. *)
(*                                                                         *)
(* Every write is one statement.  GetPreferences reads, and inserts the    *)
(* defaults in a second statement where there was no row: preferences      *)
(* saved in between are overwritten.                                       *)
(***************************************************************************)
CONSTANTS User, Item

VARIABLES
    prefs,       \* notifications_enabled of the user's user_preferences, or "none"
    watch,       \* notify_enabled of watchlist_items, or "none"
    reading,     \* users of whom a GetPreferences has found no row, and has yet to insert
    \* history, read by the properties only
    choice,      \* what the user saved last
    raced        \* users whose last save met a GetPreferences under way

assetVars == <<prefs, watch, reading, choice, raced>>

Setting == {"none", "on", "off"}
WatchRow == User \X Item

-----------------------------------------------------------------------------
(* Slip: the defaults are stored without a look at what is there. *)
GetPreferencesUnread(u) ==
    /\ reading' = reading \union {u}
    /\ UNCHANGED <<prefs, watch, choice, raced>>

\* A row that is found is only returned.
GetPreferences(u) ==
    /\ prefs[u] = "none"
    /\ reading' = reading \union {u}
    /\ UNCHANGED <<prefs, watch, choice, raced>>

\* Of several requests under way one inserts first.
InsertDefaults(u) ==
    /\ u \in reading
    /\ prefs' = [prefs EXCEPT ![u] = "on"]
    /\ reading' \in {reading, reading \ {u}}
    /\ UNCHANGED <<watch, choice, raced>>

UpdatePreferences(u, enabled) ==
    /\ prefs' = [prefs EXCEPT ![u] = enabled]
    /\ choice' = [choice EXCEPT ![u] = enabled]
    /\ raced' = IF u \in reading THEN raced \union {u} ELSE raced \ {u}
    /\ UNCHANGED <<watch, reading>>

(* The catalog has been asked for the item before; what it answered may have
   changed since.  A second row is refused (UNIQUE (user_id, item_id)). *)
AddWatchlistItem(w) ==
    /\ watch[w] = "none"
    /\ watch' = [watch EXCEPT ![w] = "on"]
    /\ UNCHANGED <<prefs, reading, choice, raced>>

UpdateWatchlistItemNotification(w, enabled) ==
    /\ watch[w] # "none"
    /\ watch' = [watch EXCEPT ![w] = enabled]
    /\ UNCHANGED <<prefs, reading, choice, raced>>

DeleteWatchlistItem(w) ==
    /\ watch[w] # "none"
    /\ watch' = [watch EXCEPT ![w] = "none"]
    /\ UNCHANGED <<prefs, reading, choice, raced>>

Change ==
    \/ \E u \in User, enabled \in {"on", "off"} : UpdatePreferences(u, enabled)
    \/ \E w \in WatchRow : AddWatchlistItem(w) \/ DeleteWatchlistItem(w)
    \/ \E w \in WatchRow, enabled \in {"on", "off"} : UpdateWatchlistItemNotification(w, enabled)

Look == \E u \in User : GetPreferences(u) \/ InsertDefaults(u)

AssetsInit ==
    /\ prefs = [u \in User |-> "none"]
    /\ watch \in [WatchRow -> {"none", "on"}]
    /\ reading = {}
    /\ choice = [u \in User |-> "none"]
    /\ raced = {}

-----------------------------------------------------------------------------
\* ListNotificationSubscriptions, less the rows of users who switched notifications off.
Listed(w) == watch[w] = "on" /\ prefs[w[1]] # "off"

(* Every variable has its type. *)
AssetsTypeOK ==
    /\ prefs \in [User -> Setting] /\ choice \in [User -> Setting]
    /\ watch \in [WatchRow -> Setting]
    /\ reading \subseteq User /\ raced \subseteq User

\* What the user asks for, unless the last save was lost to a GetPreferences.
Wants(w) == watch[w] = "on" /\ (choice[w[1]] # "off" \/ w[1] \in raced)

(* Preferences that switch notifications off stay saved: they are lost only to
   a request that had looked for them before they were saved. *)
OffIsKept == \A u \in User : choice[u] = "off" /\ u \notin raced => prefs[u] = "off"

=============================================================================
