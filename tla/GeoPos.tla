------------------------------- MODULE GeoPos -------------------------------
(***************************************************************************)
(* The position of the station: daemon/src/utility/geoposmanager.cpp, with *)
(* the histograms it reads and how they are filled                         *)
(* (daemon/src/core/registries/data_store.cpp, event_bindings.cpp).        *)
(*                                                                         *)
(* A position is where it is and whether its error is below the limit of   *)
(* the lock-in and below that of the histograms.  What a filter makes of   *)
(* the numbers is left open.                                               *)
(***************************************************************************)
EXTENDS Naturals

CONSTANTS
    MIN_HISTO_ENTRIES,              \* entries that make a position of the histograms valid
    lock_in_min_histogram_entries,  \* entries that make it good for a lock-in
    lock_in_max_histogram_entries,  \* entries above which the histograms start again
    MaxGeoSteps                     \* bound: positions and configurations

ASSUME GeoPosAssumption ==
    /\ MIN_HISTO_ENTRIES \in Nat /\ MaxGeoSteps \in Nat
    /\ lock_in_min_histogram_entries \in Nat /\ lock_in_max_histogram_entries \in Nat

VARIABLES
    gpMode, gpFilter,   \* m_mode_config
    gpStatic,           \* m_mode_config.static_position
    gpPosition,         \* m_position
    gpHistos,           \* the entries of the histograms of the height and of the coordinates
    gpDop,              \* the stored UbxDopStruct, by the limit of the lock-in
    gpTold,             \* the last position published
    gpLock,             \* history: how the last lock-in came about
    gpCount             \* history: positions and configurations

geoVars == <<gpMode, gpFilter, gpStatic, gpPosition, gpHistos, gpDop, gpTold, gpLock, gpCount>>

Invalid == [place |-> 0, precise |-> FALSE, usable |-> FALSE]
NoLock == [position |-> Invalid, entries |-> 0, set |-> FALSE]
HistoFilters == {"HistoMean", "HistoMedian", "HistoMpv"}
Modes == {"Static", "LockIn", "Auto"}

GeoInit ==
    /\ gpMode = "Auto" /\ gpFilter = "None" /\ gpStatic = Invalid /\ gpPosition = Invalid
    /\ gpHistos = [height |-> 0, coords |-> 0] /\ gpDop = "unknown"
    /\ gpTold = Invalid /\ gpLock = NoLock /\ gpCount = 0

Least(h) == IF h.height < h.coords THEN h.height ELSE h.coords

\* get_pos_from_histos(): nothing valid as long as one of them has too few entries.
get_pos_from_histos(p) ==
    IF Least(gpHistos) < MIN_HISTO_ENTRIES THEN Invalid ELSE p

\* A mutant: the entries are not counted.
AlwaysCandidate == TRUE

\* A lock-in on the histograms needs more entries.
valid_lock_in_candidate ==
    gpFilter \in HistoFilters => Least(gpHistos) >= lock_in_min_histogram_entries

\* Histograms that are too full start again.
Shortened(h) == [k \in DOMAIN h |-> IF h[k] > lock_in_max_histogram_entries THEN 0 ELSE h[k]]
CutHistos == IF gpFilter \in HistoFilters /\ gpMode = "LockIn" THEN Shortened(gpHistos) ELSE gpHistos

\* DataStore::fillHisto(GnssPosStruct): positions without DOP values or far off are left out.
fillHisto(h, p, mode) ==
    IF gpDop = "unknown" \/ ~p.usable THEN h
    ELSE [height |-> h.height + (IF mode # "LockIn" \/ gpDop = "good" THEN 1 ELSE 0),
          coords |-> h.coords + (IF gpDop = "good" THEN 1 ELSE 0)]

\* EventBindings::processGeoPos()
processPos(p, mode) == gpTold' = p /\ gpHistos' = fillHisto(CutHistos, p, mode)

\* new_position(): what the filter makes of it is published or concludes the lock-in.
Filtered(p) == IF gpFilter \in HistoFilters THEN get_pos_from_histos(p) ELSE p

AutoPosition(p) ==
    /\ gpMode = "Auto"
    /\ gpPosition' = p /\ processPos(p, "Auto")
    /\ UNCHANGED <<gpMode, gpStatic, gpLock>>

\* check_for_lockin_reached()
LocksIn(p) == gpMode = "LockIn" /\ valid_lock_in_candidate /\ p.precise
LockIn(p) ==
    /\ LocksIn(p)
    /\ gpMode' = "Static" /\ gpStatic' = p
    /\ gpLock' = [position |-> p, entries |-> Least(gpHistos), set |-> TRUE]
    /\ processPos(p, "Static")
    /\ UNCHANGED gpPosition

NoPosition(p) ==
    /\ gpMode # "Auto" /\ ~LocksIn(p)
    /\ gpHistos' = CutHistos
    /\ UNCHANGED <<gpMode, gpStatic, gpPosition, gpTold, gpLock>>

\* fill_from_gps(): without a fix the errors are made up, so any error can come with a place.
NewPosition ==
    /\ gpCount < MaxGeoSteps /\ gpCount' = gpCount + 1
    /\ \E precise \in BOOLEAN, usable \in BOOLEAN :
          LET p == Filtered([place |-> gpCount + 1, precise |-> precise, usable |-> usable])
          IN IF p = Invalid
               THEN /\ gpHistos' = CutHistos
                    /\ UNCHANGED <<gpMode, gpStatic, gpPosition, gpTold, gpLock>>
               ELSE AutoPosition(p) \/ LockIn(p) \/ NoPosition(p)
    /\ UNCHANGED <<gpFilter, gpDop>>

\* set_mode_config(), from the settings file or a client.
set_mode_config ==
    /\ gpCount < MaxGeoSteps /\ gpCount' = gpCount + 1
    /\ gpMode' \in Modes
    /\ gpFilter' \in {"None", "Kalman"} \cup HistoFilters
    /\ gpStatic' = [place |-> gpCount + 1, precise |-> TRUE, usable |-> TRUE]
    /\ gpPosition' = IF gpMode' = "Static" THEN gpStatic' ELSE gpPosition
    /\ gpLock' = NoLock
    /\ UNCHANGED <<gpHistos, gpDop, gpTold>>

\* The receiver's DOP values are stored; a client clears the histograms.
StoreDop ==
    /\ gpDop' \in {"good", "bad"}
    /\ UNCHANGED <<gpMode, gpFilter, gpStatic, gpPosition, gpHistos, gpTold, gpLock, gpCount>>

ClearHisto ==
    /\ \E k \in DOMAIN gpHistos : gpHistos' = [gpHistos EXCEPT ![k] = 0]
    /\ UNCHANGED <<gpMode, gpFilter, gpStatic, gpPosition, gpDop, gpTold, gpLock, gpCount>>

GeoNext == NewPosition \/ set_mode_config \/ StoreDop \/ ClearHisto

GeoSpec == GeoInit /\ [][GeoNext]_geoVars

-----------------------------------------------------------------------------
\* "lock-in: fix a uBlox position only when accuracy is better than a user defined limit ... and
\* make this the new static position" (daemon/config/changelog:66): once a lock-in was concluded
\* the station is static at that place, it is the last place told, its error was below the limit,
\* and the histograms it came from had enough entries; positions that follow change none of it.
LockInIsSound ==
    gpLock.set =>
        /\ gpMode = "Static" /\ gpStatic = gpLock.position /\ gpTold = gpLock.position
        /\ gpLock.position.precise
        /\ gpFilter \in HistoFilters => gpLock.entries >= lock_in_min_histogram_entries
=============================================================================
