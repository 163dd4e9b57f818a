---------------------------- MODULE QueryCacheProofs ----------------------------
(***************************************************************************)
(* What the operations on an entry of the query cache keep, for data of    *)
(* any kind.  An entry vouches for a set of acceptable data if they are    *)
(* what it shows as up to date, or will once its answer arrives; an entry  *)
(* whose request was overtaken by an invalidation vouches for nothing.     *)
(* The theorems about the pages cite these facts by name.                  *)
(***************************************************************************)
EXTENDS QueryCache, TLAPS

Vouched(q, G) ==
    ~q.overtaken => /\ Fresh(q) => q.data \in G
                    /\ q.fetch = "read" => q.answer \in G

\* Nothing was asked for, so nothing is vouched for.
LEMMA UnaskedVouched ==
    ASSUME NEW D, NEW G
    PROVE  Unasked \in Entries(D) /\ Vouched(Unasked, G)
  BY DEF Unasked, Entries, Vouched, Fresh

\* Acceptable data may become more, not fewer.
LEMMA VouchedMonotone ==
    ASSUME NEW q, NEW G, NEW H, G \subseteq H, Vouched(q, G)
    PROVE  Vouched(q, H)
  BY DEF Vouched

\* A request that is sent anew is vouched for by whatever it will find.
LEMMA SendVouched ==
    ASSUME NEW D, NEW q \in Entries(D), NEW G
    PROVE  Send(q) \in Entries(D) /\ Vouched(Send(q), G)
  BY DEF Send, Entries, Vouched, Fresh

LEMMA ObserveVouched ==
    ASSUME NEW D, NEW q \in Entries(D), NEW G, Vouched(q, G)
    PROVE  Observe(q) \in Entries(D) /\ Vouched(Observe(q), G)
  BY SendVouched DEF Observe

\* The point of an invalidation: the entry is stale, asked for anew or
\* overtaken, so it needs to know nothing about the data it holds.
LEMMA InvalidateVouched ==
    ASSUME NEW D, NEW q \in Entries(D), NEW G, NEW shown \in BOOLEAN
    PROVE  Invalidate(q, shown) \in Entries(D) /\ Vouched(Invalidate(q, shown), G)
  <1> DEFINE s == [q EXCEPT !.stale = TRUE]
  <1>1. s \in Entries(D) /\ s.stale /\ s.fetch = q.fetch
    BY DEF Entries
  <1>2. CASE shown /\ ~IsLoading(q)
    <2>1. Invalidate(q, shown) = Send(s)
      BY <1>2 DEF Invalidate
    <2> QED  BY <1>1, <2>1, SendVouched
  <1>3. CASE ~(shown /\ ~IsLoading(q))
    <2>1. Invalidate(q, shown) = [s EXCEPT !.overtaken = q.fetch # "idle"]
      BY <1>3 DEF Invalidate
    <2>2. (q.fetch # "idle") \in BOOLEAN
      OBVIOUS
    <2> QED  BY <1>1, <2>1, <2>2 DEF Entries, Vouched, Fresh
  <1> QED  BY <1>2, <1>3

\* Data that have aged are asked for by whoever looks at them next.
LEMMA AgeVouched ==
    ASSUME NEW D, NEW q \in Entries(D), NEW G, Vouched(q, G)
    PROVE  Age(q) \in Entries(D) /\ Vouched(Age(q), G)
  BY DEF Age, Entries, Vouched, Fresh

LEMMA ReadVouched ==
    ASSUME NEW D, NEW q \in Entries(D), NEW G, NEW d \in D, d \in G
    PROVE  Read(q, d) \in Entries(D) /\ Vouched(Read(q, d), G)
  BY DEF Read, Entries, Vouched, Fresh

LEMMA ArriveVouched ==
    ASSUME NEW D, NEW q \in Entries(D), NEW G, Vouched(q, G), q.fetch = "read"
    PROVE  Arrive(q) \in Entries(D) /\ Vouched(Arrive(q), G)
  BY DEF Arrive, Entries, Vouched, Fresh

LEMMA FetchFailsVouched ==
    ASSUME NEW D, NEW q \in Entries(D), NEW G
    PROVE  FetchFails(q) \in Entries(D) /\ Vouched(FetchFails(q), G)
  BY DEF FetchFails, Entries, Vouched, Fresh

-----------------------------------------------------------------------------
(* The dialog that confirms a deletion *)

LEMMA ConfirmTyped ==
    ASSUME NEW T, NEW No, NEW c \in Confirms(T, No)
    PROVE  /\ NothingToConfirm(No) \in Confirms(T, No)
           /\ CloseConfirm(c, No) \in Confirms(T, No)
           /\ \A x \in T : AskToConfirm(c, x) \in Confirms(T, No)
           /\ TypeDelete(c) \in Confirms(T, No)
           /\ [c EXCEPT !.target = No] \in Confirms(T, No)
  BY DEF Confirms, NothingToConfirm, CloseConfirm, AskToConfirm, TypeDelete

\* A closed dialog does not hold DELETE.
LEMMA NothingConfirmed ==
    ASSUME NEW No
    PROVE  NothingToConfirm(No).text # "DELETE"
  <1>1. "" # "DELETE"
    BY Zenon
  <1> QED  BY <1>1 DEF NothingToConfirm
=============================================================================
