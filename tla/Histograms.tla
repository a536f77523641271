----------------------------- MODULE Histograms -----------------------------
(***************************************************************************)
(* The histograms of the data store: Histogram                             *)
(* (library/src/data/histogram.cpp) and DataStore::setupHistos() and       *)
(* fillHisto() (daemon/src/core/registries/data_store.cpp).  A histogram   *)
(* with autoscale moves to the first value it gets and is widened or       *)
(* narrowed whenever all of them are sent.                                 *)
(*                                                                         *)
(* The handlers run on the workers of the pool, and none of them locks the *)
(* histogram it changes: a worker reads it in one step and writes it in    *)
(* another.  Values are whole numbers of a small unit.                     *)
(***************************************************************************)
EXTENDS Integers, Sequences, FiniteSets, FiniteSetsExt, TLC

CONSTANTS
    HistoWorkers,       \* the pool's workers
    fNrBins,
    Second,             \* of the time pulse
    LongInterval,       \* 10^12 ns
    lock_in_max_dop,
    ManyEntries,        \* 100, scaled down
    WideShare,          \* 20: a histogram that fills less than 1/20 of its range is too wide
    Feeds               \* the events of a behaviour, how many, and the [min, max, auto] of the histograms
                        \* they are for: [events, max, shapes]

ASSUME HistogramsAssumption ==
    /\ fNrBins \in Nat \ {0, 1} /\ {Second, LongInterval, ManyEntries, WideShare} \subseteq Nat
    /\ \A f \in Feeds : \A n \in DOMAIN f.shapes : f.shapes[n].min < f.shapes[n].max

VARIABLES
    hFeed,          \* the events that arrive, and how many may still
    hists,          \* m_histo_map
    hSeen,          \* what fillHisto() remembers or takes from the store
    hDo,            \* per worker: the histograms it is about to write
    hFilled         \* ghost, per histogram: what was filled, dropped, and how coarsely

hVars == <<hFeed, hists, hSeen, hDo, hFilled>>

NoWork == [op |-> "none"]

-----------------------------------------------------------------------------
(* Histogram.                                                               *)

\* std::lround(a / b).
RoundDiv(a, b) == IF a >= 0 THEN (2 * a + b) \div (2 * b) ELSE -((2 * (-a) + b) \div (2 * b))

value2Bin(h, v) == IF h.max <= h.min THEN -1 ELSE RoundDiv((v - h.min) * (fNrBins - 1), h.max - h.min)
bin2Value(h, b) == h.min + RoundDiv((h.max - h.min) * b, fNrBins - 1)

SumOver(S, F(_)) == MapThenSumSet(F, S)
Contents(h) == SumOver(DOMAIN h.map, LAMBDA b : h.map[b])
getEntries(h) == h.under + h.over + Contents(h)
Occupied(h) == {b \in DOMAIN h.map : h.map[b] # 0}

clear(h) == [h EXCEPT !.map = [b \in {} |-> 0], !.under = 0, !.over = 0]

\* An entry goes into its bin, or below or above all of them.
Put(h, bin, n) ==
    CASE bin < 0 -> [h EXCEPT !.under = @ + n]
      [] bin >= fNrBins -> [h EXCEPT !.over = @ + n]
      [] OTHER -> [h EXCEPT !.map = [b \in {bin} |-> n + (IF bin \in DOMAIN @ THEN @[bin] ELSE 0)] @@ @]

\* rescale(center, width): the bins are filled into the new ones, the rest is forgotten.
Rescaled(h, center, width) ==
    LET new == [clear(h) EXCEPT !.min = center - width \div 2, !.max = center + width \div 2]
        moved(b) == value2Bin(new, bin2Value(h, b))
        at(b) == SumOver({o \in Occupied(h) : moved(o) = b}, LAMBDA o : h.map[o])
    IN IF width <= 0 THEN h
       ELSE [new EXCEPT !.map = [b \in {moved(o) : o \in Occupied(h)} \cap (0 .. fNrBins - 1) |-> at(b)],
                        !.under = SumOver({o \in Occupied(h) : moved(o) < 0}, LAMBDA o : h.map[o]),
                        !.over = SumOver({o \in Occupied(h) : moved(o) >= fNrBins}, LAMBDA o : h.map[o])]

\* fill(): a first value outside becomes the centre.
fill(h, v, n) ==
    LET first == h.auto /\ getEntries(h) = 0 /\ value2Bin(h, v) \notin 0 .. fNrBins - 1
        g == IF first THEN Rescaled(h, v, h.max - h.min) ELSE h
    IN Put(g, value2Bin(g, v), n)

\* A mutant: the range is moved and not widened.
MovedDown(h, range) == Rescaled(h, h.max - (range * 7) \div 10, range)

\* The ranges rescale() goes to when there are entries below or above.
Both(h, range) == Rescaled(h, h.min + range \div 2, (range * 11) \div 10)
Down(h, range) == Rescaled(h, h.max - (range * 6) \div 10, (range * 12) \div 10)
Up(h, range) == Rescaled(h, h.min + (range * 6) \div 10, (range * 12) \div 10)

rescale(h) ==
    LET range == h.max - h.min
        inside == Contents(h)
        low == Min(Occupied(h))
        high == Max(Occupied(h))
        middle == (bin2Value(h, low) + bin2Value(h, high)) \div 2
    IN CASE ~h.auto \/ getEntries(h) < 3 -> h
         [] h.under > 0 /\ h.over > 0 /\ 100 * (h.under + h.over) > inside -> Both(h, range)
         [] 200 * h.under > inside -> Down(h, range)
         [] 200 * h.over > inside -> Up(h, range)
         [] h.under = 0 /\ h.over = 0 /\ inside > ManyEntries /\ WideShare * (high - low) < fNrBins ->
               Rescaled(h, middle, (range * 8) \div 10)
         [] OTHER -> h

-----------------------------------------------------------------------------
(* fillHisto(): what an event fills, as triples of a histogram, a value and  *)
(* a weight.                                                                *)

Entry(n, v) == {[histo |-> n, value |-> v, weight |-> 1]}

\* A position counts only with a known and sufficient precision; the height is also limited by
\* the dilution in LockIn mode alone.
fillPosition(e) ==
    LET dop == hSeen.dop[1]
    IN IF hSeen.dop = <<>> THEN {}
       ELSE (IF e.vAcc < 100 /\ (~e.lockIn \/ dop.v < lock_in_max_dop)
             THEN Entry("geoHeight", e.height)
                  \cup (IF dop.v > 0 THEN {[histo |-> "weightedGeoHeight", value |-> e.height, weight |-> 4 \div dop.v]}
                                     ELSE {})
             ELSE {})
            \cup (IF e.hAcc < 100 /\ dop.h < lock_in_max_dop
                  THEN Entry("geoLongitude", e.lon) \cup Entry("geoLatitude", e.lat) ELSE {})

\* The interval is measured from the last time mark that was stored, whatever its time.
fillTimeMark(e) ==
    (IF e.falling > e.rising /\ e.fallingValid THEN Entry("UbxEventLength", e.falling - e.rising) ELSE {})
    \cup (IF e.rising - hSeen.lastTimeMark < LongInterval
          THEN Entry("UbxEventInterval", e.rising - hSeen.lastTimeMark) ELSE {})

fillInterval(e) ==
    IF hSeen.trigger # <<e.sig>> THEN {}
    ELSE Entry("gpioEventInterval", e.interval) \cup Entry("gpioEventIntervalShort", 1000 * e.interval)

\* The phase of a time pulse lies within half a second of zero, its jitter is against the last one.
Phase(t) == LET p == t % Second IN IF p > Second \div 2 THEN p - Second ELSE p
fillTimepulse(e) ==
    LET jitter == e.time - hSeen.lastPulse[1] - Second
    IN IF e.sig # "TIMEPULSE" THEN {}
       ELSE Entry("TPTimePhase", Phase(e.time))
            \cup (IF e.edge = "rising" /\ hSeen.lastPulse # <<>> /\ 2 * jitter \in -Second + 1 .. Second - 1
                  THEN Entry("TPTimeJitter", jitter) ELSE {})

fillAdc(e) ==
    Entry("adcSampleTime", e.convTime)
    \cup (IF e.channel = "amplitude" THEN Entry("pulseHeight", e.voltage) ELSE {})
    \cup (IF e.channel = "bias2" /\ hSeen.vdiv # <<>> THEN Entry("Bias Voltage", e.voltage * hSeen.vdiv[1]) ELSE {})

fillHistos(e) ==
    CASE e.type = "GnssPosStruct" -> fillPosition(e)
      [] e.type = "UbxTimeMarkStruct" -> fillTimeMark(e)
      [] e.type = "BiasCurrentEvent" -> Entry("Bias Current", e.ibias)
      [] e.type = "IntervalEvent" -> fillInterval(e)
      [] e.type = "GpioEvent" -> fillTimepulse(e)
      [] e.type = "ADS1115Event" -> fillAdc(e)
      [] e.type = "UbxDopStruct" -> Entry("pDOP", e.p) \cup Entry("tDOP", e.t)
      [] OTHER -> {}

\* What it remembers; the store keeps the dilution, the trigger and the calibration.
Seen(e) ==
    CASE e.type = "UbxDopStruct" -> [hSeen EXCEPT !.dop = <<[v |-> e.v, h |-> e.h]>>]
      [] e.type = "UbxTimeMarkStruct" -> [hSeen EXCEPT !.lastTimeMark = e.rising]
      [] e.type = "GpioEvent" /\ e.sig = "TIMEPULSE" /\ e.edge = "rising" -> [hSeen EXCEPT !.lastPulse = <<e.time>>]
      [] e.type = "EventTriggerEvent" -> [hSeen EXCEPT !.trigger = <<e.sig>>]
      [] e.type = "ShowerDetectorCalib" -> [hSeen EXCEPT !.vdiv = <<e.vdiv>>]
      [] OTHER -> hSeen

-----------------------------------------------------------------------------
(* The workers.                                                             *)

Names == DOMAIN hFeed.shapes

setupHistos == [n \in Names |-> [map |-> [b \in {} |-> 0], under |-> 0, over |-> 0] @@ hFeed.shapes[n]]

HistoInit ==
    /\ hFeed \in Feeds
    /\ hists = setupHistos
    /\ hSeen = [dop |-> <<>>, lastTimeMark |-> 0, lastPulse |-> <<>>, trigger |-> <<>>, vdiv |-> <<>>]
    /\ hDo = [w \in HistoWorkers |-> NoWork]
    /\ hFilled = [n \in Names |-> [count |-> 0, sum |-> 0, dropped |-> 0, blur |-> 0]]

Free(w) == hDo[w] = NoWork /\ hFeed.max > 0 /\ hFeed' = [hFeed EXCEPT !.max = @ - 1]

\* An event is handled: the histograms it is for are read.
Handle(w, e) ==
    /\ Free(w)
    /\ LET fills == fillHistos(e)
           target == {f.histo : f \in fills}
           of(n) == CHOOSE f \in fills : f.histo = n
       IN hDo' = [hDo EXCEPT ![w] =
                    IF fills = {} THEN NoWork
                    ELSE [op |-> "fill", new |-> [n \in target |-> fill(hists[n], of(n).value, of(n).weight)],
                          what |-> [n \in target |-> of(n)]]]
    /\ hSeen' = Seen(e)
    /\ UNCHANGED <<hists, hFilled>>

\* Histograms are requested or polled: all of them are rescaled, one by one.
Request(w) ==
    /\ Free(w)
    /\ \E n \in {m \in Names : getEntries(hists[m]) > 0} :
          hDo' = [hDo EXCEPT ![w] = [op |-> "rescale", new |-> [m \in {n} |-> rescale(hists[n])]]]
    /\ UNCHANGED <<hists, hSeen, hFilled>>

\* clearHisto(), for a HistogramClearCmd.
clearHisto(w) ==
    /\ Free(w)
    /\ \E n \in {m \in Names : getEntries(hists[m]) > 0} :
          hDo' = [hDo EXCEPT ![w] = [op |-> "clear", new |-> [m \in {n} |-> clear(hists[n])]]]
    /\ UNCHANGED <<hists, hSeen, hFilled>>

\* The histograms are written.
Write(w) ==
    /\ hDo[w] # NoWork
    /\ hists' = hDo[w].new @@ hists
    /\ hDo' = [hDo EXCEPT ![w] = NoWork]
    /\ hFilled' = [n \in DOMAIN hDo[w].new |->
                     LET g == hFilled[n]
                         width == hDo[w].new[n].max - hDo[w].new[n].min
                     IN CASE hDo[w].op = "fill" ->
                               [g EXCEPT !.count = @ + hDo[w].what[n].weight,
                                         !.sum = @ + hDo[w].what[n].weight * hDo[w].what[n].value,
                                         !.blur = Max({@, width})]
                          [] hDo[w].op = "rescale" /\ hDo[w].new[n] # hists[n] ->
                               [g EXCEPT !.dropped = @ + hists[n].under + hists[n].over, !.blur = @ + width]
                          [] hDo[w].op = "clear" -> [count |-> 0, sum |-> 0, dropped |-> 0, blur |-> 0]
                          [] OTHER -> g] @@ hFilled
    /\ UNCHANGED <<hFeed, hSeen>>

HistoNext ==
    \E w \in HistoWorkers : (\E e \in hFeed.events : Handle(w, e)) \/ Request(w) \/ clearHisto(w) \/ Write(w)

HistoSpec == HistoInit /\ [][HistoNext]_hVars

-----------------------------------------------------------------------------
(* The property.                                                            *)

Moment(h) == SumOver(DOMAIN h.map, LAMBDA b : h.map[b] * bin2Value(h, b))
Distance(a, b) == IF a < b THEN b - a ELSE a - b

\* A histogram is what was filled into it.  Since it was cleared nothing was counted twice or
\* lost but the entries that lay outside when it was rescaled, and rescaling never puts
\* an entry outside that was inside; as long as nothing was outside, its mean is the mean of
\* the values to half a bin of the widest range it had, and half a bin more per rescaling.
\* With one worker: two may fill the same histogram from the same state.
HistogramsAreFaithful ==
    \A n \in Names :
        LET h == hists[n]
            g == hFilled[n]
        IN IF g.count = 0 THEN h.under = 0 /\ h.over = 0 /\ Occupied(h) = {}
           ELSE
           /\ getEntries(h) + g.dropped = g.count
           /\ \A w \in HistoWorkers :
                 hDo[w].op = "rescale" /\ n \in DOMAIN hDo[w].new =>
                    Contents(hDo[w].new[n]) = Contents(h)
           /\ h.under + h.over + g.dropped = 0 =>
                 2 * (fNrBins - 1) * Distance(Moment(h), g.sum) <= g.count * (g.blur + 2 * (fNrBins - 1))
=============================================================================
