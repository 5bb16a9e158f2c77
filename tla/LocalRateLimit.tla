---------------------------- MODULE LocalRateLimit ----------------------------
(***************************************************************************)
(* The rate limit a realtime server keeps in its own memory                *)
(* (realtime-rate-limit.ts), the default for WebSocket messages: a map     *)
(* from keys to windows, which is swept of windows that are over when it   *)
(* has outgrown maxEntries, and every 1000th check.  A check has no await: *)
(* it is one step.  Time is a clock; keys meet in the size of the map.     *)
(***************************************************************************)
EXTENDS Naturals, FiniteSets, Sequences

CONSTANTS
  Key,
  Limit,
  Length,      \* of a window, in ticks; at least 1
  MaxEntries,  \* maxEntries, at least 1 (50 000)
  Every,       \* every how many checks the map is swept (1000)
  MaxChecks,   \* bound of the checks of one behaviour
  MaxTime      \* bound of the clock

LocalRateLimitAssumption ==
  /\ Limit \in Nat /\ MaxChecks \in Nat /\ MaxTime \in Nat
  /\ Length \in Nat \ {0} /\ MaxEntries \in Nat \ {0} /\ Every \in Nat \ {0}

VARIABLES
  windows,  \* the map: count and expiresAtMs; a count of 0 is no entry
  clock,
  checks,   \* checksSinceCleanup, which nothing resets
  granted,  \* history: the checks let pass, with their time and the end of their window
  denied,   \* history: the times at which a key was refused
  checked   \* history: the time of the last check

localVars == <<windows, clock, checks, granted, denied, checked>>

NoWindow == [count |-> 0, until |-> 0]
Entries(w) == {k \in Key : w[k] # NoWindow}

LocalInit ==
  /\ windows = [k \in Key |-> NoWindow]
  /\ clock = 0 /\ checks = 0
  /\ granted = [k \in Key |-> << >>]
  /\ denied = [k \in Key |-> {}]
  /\ checked = 0

(* The window of a key goes on until it is over; then there is a new one.    *)
Current(k) ==
  IF windows[k].until > clock THEN windows[k]
  ELSE [count |-> 0, until |-> clock + Length]

(* A bug: the sweep makes room at any price.                                 *)
BrokenSweep(w, n) ==
  IF Cardinality(Entries(w)) <= MaxEntries /\ n % Every # 0 THEN w
  ELSE [k \in Key |-> NoWindow]

Sweep(w, n) ==
  IF Cardinality(Entries(w)) <= MaxEntries /\ n % Every # 0 THEN w
  ELSE [k \in Key |-> IF w[k].until <= clock THEN NoWindow ELSE w[k]]

Check(k) ==
  /\ checks < MaxChecks
  /\ checks' = checks + 1
  /\ LET counted == [Current(k) EXCEPT !.count = @ + 1]
     IN  /\ windows' = Sweep([windows EXCEPT ![k] = counted], checks')
         /\ IF counted.count <= Limit
            THEN /\ granted' = [granted EXCEPT ![k] = Append(@, [at |-> clock, until |-> counted.until])]
                 /\ UNCHANGED denied
            ELSE denied' = [denied EXCEPT ![k] = @ \cup {clock}] /\ UNCHANGED granted
  /\ checked' = clock
  /\ UNCHANGED clock

Tick ==
  /\ clock < MaxTime
  /\ clock' = clock + 1
  /\ UNCHANGED <<windows, checks, granted, denied, checked>>

LocalNext == Tick \/ \E k \in Key : Check(k)

LocalSpec == LocalInit /\ [][LocalNext]_localVars

-----------------------------------------------------------------------------
LocalTypeOK ==
  /\ windows \in [Key -> [count : Nat, until : Nat]]
  /\ clock \in 0..MaxTime /\ checks \in 0..MaxChecks
  /\ granted \in [Key -> Seq([at : 0..MaxTime, until : Nat])]
  /\ denied \in [Key -> SUBSET (0..MaxTime)] /\ checked \in 0..clock

(* What a key was granted in the length of a window from t on.               *)
GrantedFrom(k, t) ==
  Cardinality({i \in DOMAIN granted[k] : LET u == granted[k][i].at IN t <= u /\ u < t + Length})

(* Sweeping the map costs nobody a window and gives nobody a new one: in any *)
(* stretch of a window's length a key is granted at most the end of one      *)
(* window and the beginning of the next, and it is refused only if it was    *)
(* granted the limit in a stretch that ends at that time.  And the sweep     *)
(* works: a map that has more than maxEntries after a check has only windows *)
(* that were not over at that check (realtime-rate-limit.ts:86-97).          *)
LocalLimitHolds ==
  /\ \A k \in Key :
       /\ \A t \in 0..MaxTime : GrantedFrom(k, t) <= 2 * Limit
       /\ \A t \in denied[k] : \E u \in 0..t : t < u + Length /\ GrantedFrom(k, u) >= Limit
  /\ Cardinality(Entries(windows)) > MaxEntries =>
       \A k \in Entries(windows) : windows[k].until > checked
=============================================================================
