------------------------------ MODULE RateLimiter ------------------------------
(***************************************************************************)
(* The sliding window every request passes first                           *)
(* (apps/server/src/security/rate-limiter.ts, fetchHandler): per client    *)
(* the times of the requests that were let in, checked and noted in one    *)
(* turn of the process, and a timer that drops what has left the window.   *)
(* A client that is turned away is told in whole seconds how long to wait. *)
(***************************************************************************)
EXTENDS Naturals, FiniteSetsExt

CONSTANTS Clients,      \* client addresses
          Window,       \* length of the window, in ticks
          MaxRequests,  \* how many requests a window may hold
          Second,       \* ticks of a second
          MaxTime,      \* bound of the clock
          MaxSame       \* bound of the requests of one tick

ASSUME WindowAssumption ==
  /\ Window \in Nat \ {0} /\ MaxRequests \in Nat \ {0} /\ Second \in Nat \ {0}
  /\ MaxTime \in Nat /\ MaxSame \in Nat

VARIABLES now,       \* Date.now()
          stamps,    \* store: how many noted requests each client has per tick
          admitted,  \* history: all requests that were let in, alike
          promised   \* history: when a client that was turned away may come back

limiterVars == <<now, stamps, admitted, promised>>

Times == 0..MaxTime

LimiterTypeOK ==
  /\ now \in Times
  /\ stamps \in [Clients -> [Times -> 0..MaxSame]]
  /\ admitted \in [Clients -> [Times -> 0..MaxSame]]
  /\ promised \in [Clients -> Nat]

LimiterInit ==
  /\ now = 0
  /\ stamps = [c \in Clients |-> [t \in Times |-> 0]]
  /\ admitted = stamps
  /\ promised = [c \in Clients |-> 0]

InWindow(t) == t + Window > now /\ t <= now

(* The filter that check, consume and cleanup share. *)
Active(times) == [t \in Times |-> IF InWindow(t) THEN times[t] ELSE 0]

CountOf(times) == MapThenSumSet(LAMBDA t : times[t], Times)

Allowed(c) == CountOf(Active(stamps[c])) < MaxRequests

Oldest(c) == Min({t \in Times : Active(stamps[c])[t] > 0})

CeilSecond(t) == (t + Second - 1) \div Second

(* tooManyRequests: whole seconds from now to the reset time. *)
RetryAfter(c) == CeilSecond(Oldest(c) + Window) - (now \div Second)

(* Mutant: the requests of one tick are noted once. *)
NoteFirst(times) == [times EXCEPT ![now] = 1]

(* consume *)
Note(times) == [Active(times) EXCEPT ![now] = @ + 1]

(* The check and the note of one request that is let in, or the answer 429. *)
Pass(c) ==
  /\ Allowed(c) /\ admitted[c][now] < MaxSame
  /\ stamps' = [stamps EXCEPT ![c] = Note(@)]
  /\ admitted' = [admitted EXCEPT ![c][now] = @ + 1]
  /\ promised' = [promised EXCEPT ![c] = 0]
  /\ UNCHANGED now

TurnAway(c) ==
  /\ ~Allowed(c)
  /\ promised' = [promised EXCEPT ![c] = now + Second * RetryAfter(c)]
  /\ UNCHANGED <<now, stamps, admitted>>

(* The timer of all limiters. *)
Cleanup ==
  /\ stamps' = [c \in Clients |-> Active(stamps[c])]
  /\ UNCHANGED <<now, admitted, promised>>

Tick ==
  /\ now < MaxTime
  /\ now' = now + 1
  /\ UNCHANGED <<stamps, admitted, promised>>

LimiterNext == \/ \E c \in Clients : Pass(c) \/ TurnAway(c)
               \/ Cleanup
               \/ Tick

-----------------------------------------------------------------------------
(* However the requests, the clean-ups and the clock fall together, no      *)
(* stretch of one window length holds more requests of a client than the    *)
(* limit (check, consume, cleanup).                                         *)
RateBound ==
  \A c \in Clients, last \in Times :
    CountOf([t \in Times |-> IF t <= last /\ t + Window > last THEN admitted[c][t] ELSE 0])
      <= MaxRequests

(* A client that was turned away and stays away as long as it was told is   *)
(* let in (tooManyRequests).                                                *)
RetryAfterHolds ==
  \A c \in Clients : promised[c] > 0 /\ now >= promised[c] => Allowed(c)

(* The limit is kept, and so is the promise made to who met it.             *)
LimiterSound == RateBound /\ RetryAfterHolds
=============================================================================
