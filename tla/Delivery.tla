------------------------------ MODULE Delivery ------------------------------
(***************************************************************************)
(* What the request scoreboard promises to the two threads that share it,  *)
(* without its list, its mutex, its timers and its walk.                   *)
(*                                                                         *)
(* Requests are posted one after the other.  Each is answered once, unless *)
(* it was posted as an answer.  The main thread takes the oldest answer    *)
(* there is, has one in hand at a time and delivers it.  Only what was     *)
(* delivered is freed.  Module Request implements this specification.      *)
(***************************************************************************)
EXTENDS Naturals

CONSTANT Id        \* the requests, numbered in the order of posting

VARIABLES life,    \* how far each request has come
          hand     \* the answer that the main thread works on, or 0

promiseVars == <<life, hand>>

DeliveryInit ==
  /\ life = [n \in Id |-> "unposted"]
  /\ hand = 0

Post(n, first) ==
  /\ life[n] = "unposted"
  /\ \A m \in Id : m < n => life[m] # "unposted"
  /\ life' = [life EXCEPT ![n] = first]
  /\ UNCHANGED hand

Answer(n) ==
  /\ life[n] = "pending"
  /\ life' = [life EXCEPT ![n] = "answered"]
  /\ UNCHANGED hand

Take(n) ==
  /\ hand = 0
  /\ life[n] = "answered"
  /\ \A m \in Id : life[m] = "answered" => n <= m
  /\ hand' = n
  /\ UNCHANGED life

Deliver(n) ==
  /\ hand = n
  /\ life[n] = "answered"
  /\ life' = [life EXCEPT ![n] = "delivered"]
  /\ hand' = 0

Discard ==
  /\ life' = [n \in Id |-> IF life[n] = "delivered" THEN "gone" ELSE life[n]]
  /\ UNCHANGED hand

DeliveryNext ==
  \/ \E n \in Id : \/ Post(n, "pending") \/ Post(n, "answered")
                   \/ Answer(n) \/ Take(n) \/ Deliver(n)
  \/ Discard

DeliverySpec == DeliveryInit /\ [][DeliveryNext]_promiseVars
=============================================================================
