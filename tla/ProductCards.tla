--------------------------- MODULE ProductCards ---------------------------
(***************************************************************************)
(* The product cards of the Console (console/products.py): what the        *)
(* Backend says of a product, kept for a while with the signed URL of its  *)
(* photo, and the photos read through those URLs.                          *)
(*                                                                         *)
(* An entry is the call that made it: `is` compares objects, not products. *)
(***************************************************************************)
EXTENDS Integers, Sequences, FiniteSets, SequencesExt

CONSTANTS
    Calls, Items,
    MaxCards,        \* 128 entries
    CardTTL, MaxCardTime,    \* 300 s; the clock
    NoCard

ProductCardsAssumption == {MaxCards, CardTTL, MaxCardTime} \subseteq Nat \ {0}

VARIABLES
    cardTime,
    catalogued,   \* the products of the active generation
    cards,        \* ProductDisplay.cache: a sequence of [item, entry, until]
    card          \* the calls of metadata and image

cardVars == <<cardTime, catalogued, cards, card>>

NewCall == [stage |-> "new", image |-> FALSE, item |-> NoCard, entry |-> NoCard]

CardIn(c, s) == card[c].stage = s
End(c, s) == [card EXCEPT ![c].stage = s]
ItemOf(c) == card[c].item

-----------------------------------------------------------------------------
(* lookup: the cache, the name in the catalog, the lists of the Backend. *)

Held(i) == {k \in 1..Len(cards) : cards[k].item = i}

(* What lookup gives: metadata is done, image goes on to the photo. *)
Given(c, e) == [card EXCEPT ![c].entry = e, ![c].stage = IF card[c].image THEN "photo" ELSE "done"]

Cached(c, i, image) ==
    /\ CardIn(c, "new")
    /\ \E k \in Held(i) :
          /\ cards[k].until > cardTime
          /\ card' = [card EXCEPT ![c] = [stage |-> IF image THEN "photo" ELSE "done",
                                          image |-> image, item |-> i, entry |-> cards[k].entry]]
    /\ UNCHANGED <<cardTime, catalogued, cards>>

LookUp(c, i, image) ==
    /\ CardIn(c, "new")
    /\ \A k \in Held(i) : cards[k].until <= cardTime
    /\ card' = [card EXCEPT ![c] = [stage |-> "name", image |-> image, item |-> i, entry |-> NoCard]]
    /\ UNCHANGED <<cardTime, catalogued, cards>>

Name(c) ==
    /\ CardIn(c, "name")
    /\ card' = End(c, IF ItemOf(c) \in catalogued THEN "lists" ELSE "refused")
    /\ UNCHANGED <<cardTime, catalogued, cards>>

(* An entry of the product is replaced in its place; else the oldest goes. *)
Kept(new) ==
    IF Held(new.item) # {}
    THEN [k \in 1..Len(cards) |-> IF k \in Held(new.item) THEN new ELSE cards[k]]
    ELSE Append(IF Len(cards) >= MaxCards THEN Tail(cards) ELSE cards, new)

Found(c) ==
    /\ CardIn(c, "lists")
    /\ cards' = Kept([item |-> ItemOf(c), entry |-> c, until |-> cardTime + CardTTL])
    /\ card' = Given(c, c)
    /\ UNCHANGED <<cardTime, catalogued>>

NotFound(c) ==
    /\ CardIn(c, "name") \/ CardIn(c, "lists")
    /\ card' = End(c, "refused")
    /\ UNCHANGED <<cardTime, catalogued, cards>>

-----------------------------------------------------------------------------
(* image: the photo, or its failure, which includes the five seconds. *)

Photo(c) ==
    /\ CardIn(c, "photo")
    /\ card' = End(c, "done")
    /\ UNCHANGED <<cardTime, catalogued, cards>>

(* Only the entry that failed is discarded, not a newer one. *)
Places(c) == {k \in Held(ItemOf(c)) : cards[k].entry = card[c].entry}

Discarded(c) ==
    IF Places(c) = {} THEN cards
    ELSE RemoveAt(cards, CHOOSE k \in Places(c) : TRUE)

PhotoFails(c) ==
    /\ CardIn(c, "photo")
    /\ cards' = Discarded(c)
    /\ card' = End(c, "failed")
    /\ UNCHANGED <<cardTime, catalogued>>

-----------------------------------------------------------------------------
Wait ==
    /\ cardTime < MaxCardTime
    /\ cardTime' = cardTime + 1
    /\ UNCHANGED <<catalogued, cards, card>>

Activate(items) ==
    /\ items # catalogued
    /\ catalogued' = items
    /\ UNCHANGED <<cardTime, cards, card>>

CardsInit ==
    /\ cardTime = 0 /\ catalogued = Items /\ cards = << >>
    /\ card = [c \in Calls |-> NewCall]

CardsNext ==
    \/ \E c \in Calls :
        \/ \E i \in Items, image \in BOOLEAN : Cached(c, i, image) \/ LookUp(c, i, image)
        \/ Name(c) \/ Found(c) \/ NotFound(c)
        \/ Photo(c) \/ PhotoFails(c)
    \/ Wait
    \/ \E items \in SUBSET Items : Activate(items)

CardsSpec == CardsInit /\ [][CardsNext]_cardVars

-----------------------------------------------------------------------------
Entries == {cards[k].entry : k \in 1..Len(cards)}

CardsTypeOK ==
    /\ cardTime \in 0..MaxCardTime /\ catalogued \subseteq Items
    /\ Len(cards) <= MaxCards
    /\ \A i \in Items : Cardinality(Held(i)) <= 1
    /\ \A c \in Calls : card[c].stage \in {"new", "name", "lists", "photo", "done", "failed", "refused"}

(* A URL whose photo failed is not used for the next call ("A retry must *)
(* obtain a fresh signed URL"), and a failure costs no other call its *)
(* entry ("Do not discard a different request's newer entry"). *)
FailedIsGone == \A c \in Calls : CardIn(c, "failed") => card[c].entry \notin Entries
OthersStay ==
    \A c \in Calls : CardIn(c, "photo") /\ card'[c].stage = "failed"
        => Entries \ {card[c].entry} \subseteq Entries'
FailedCardsGo == []FailedIsGone /\ [][OthersStay]_cardVars
=============================================================================
