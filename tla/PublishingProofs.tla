-------------------------- MODULE PublishingProofs --------------------------
(***************************************************************************)
(* Proofs about Publishing, for all authors, readers and scenes.           *)
(***************************************************************************)
EXTENDS Publishing, TLAPS

-----------------------------------------------------------------------------
(* Types, and what each request leaves of what it remembers.               *)

LEMMA MemSet ==
  ASSUME TypeOK, NEW p \in Authors, NEW m \in MemType, mem' = [mem EXCEPT ![p] = m]
  PROVE  mem' \in [Authors -> MemType] /\ mem'[p] = m /\ \A q \in Authors \ {p} : mem'[q] = mem[q]
  BY DEF TypeOK

LEMMA KeysAre == FirstSlug \in Keys /\ Tombstone \in Keys /\ Slugs \subseteq Keys
  BY PublishingAssumption DEF Keys

LEMMA Fields ==
  ASSUME TypeOK, NEW p \in Authors
  PROVE  /\ mem[p] \in MemType
         /\ mem[p].from \in Nat /\ mem[p].base \in Nat /\ mem[p].seen \in Nat /\ mem[p].force \in BOOLEAN
         /\ mem[p].over \in BOOLEAN /\ mem[p].eff \in Nat /\ mem[p].num \in Nat /\ mem[p].block \in BOOLEAN
         /\ mem[p].saves \in Nat /\ mem[p].target \in Versions \cup {None} /\ mem[p].slug \in Keys
         /\ at[p] \in Places
<1>1. mem[p] \in MemType /\ at[p] \in Places
  BY DEF TypeOK
<1> QED
  BY <1>1 DEF MemType

LEMMA D1Fields ==
  ASSUME TypeOK
  PROVE  /\ live.ver \in Versions \cup {None} /\ live.at \in Nat /\ live.slug \in Keys /\ clock \in Nat
         /\ page \in Keys /\ latest \in Versions \cup {None} /\ excused \subseteq Keys
         /\ draft = None \/ (draft \in DraftType /\ draft.at \in Nat /\ draft.from \in Nat /\ draft.base \in Nat)
         /\ no \in [Versions -> Nat] /\ tests.baseline \in Versions \cup {None}
  BY DEF TypeOK, DraftType

LEMMA EndsEffect ==
  ASSUME TypeOK, NEW p \in Authors, Ends(p)
  PROVE  /\ at' \in [Authors -> Places] /\ mem' \in [Authors -> MemType]
         /\ at' = [at EXCEPT ![p] = "done"]
         /\ mem'[p].from = 0 /\ mem'[p].over = FALSE /\ mem'[p].eff = 0 /\ mem'[p].num = 0
         /\ mem'[p].base = IF Kind(p) = "edit" THEN mem[p].base ELSE 0
         /\ \A q \in Authors \ {p} : mem'[q] = mem[q]
<1> DEFINE b == IF Kind(p) = "edit" THEN mem[p].base ELSE 0
           q == Noted
           m == [q EXCEPT !.base = b]
<1>1. b \in Nat /\ None \in Versions \cup {None} /\ Tombstone \in Keys
  BY Fields, KeysAre
<1>2. mem' = [mem EXCEPT ![p] = m] /\ m = [q EXCEPT !.base = b]
  BY DEF Ends
<1>3. q = [from |-> 0, base |-> 0, seen |-> 0, force |-> FALSE, over |-> FALSE,
           eff |-> 0, num |-> 0, block |-> FALSE, saves |-> 0, target |-> None,
           slug |-> Tombstone]
  BY DEF Noted
<1> HIDE DEF b, q, m
<1>4. /\ m = [from |-> 0, base |-> b, seen |-> 0, force |-> FALSE, over |-> FALSE,
              eff |-> 0, num |-> 0, block |-> FALSE, saves |-> 0, target |-> None,
           slug |-> Tombstone]
      /\ m \in MemType
  <2>1. m = [from |-> 0, base |-> b, seen |-> 0, force |-> FALSE, over |-> FALSE,
             eff |-> 0, num |-> 0, block |-> FALSE, saves |-> 0, target |-> None,
           slug |-> Tombstone]
    BY <1>2, <1>3
  <2> QED
    BY <1>1, <2>1 DEF MemType
<1>5. m.from = 0 /\ m.over = FALSE /\ m.eff = 0 /\ m.num = 0 /\ m.base = b
  BY <1>4
<1>6. at' = [at EXCEPT ![p] = "done"] /\ at \in [Authors -> Places]
  BY DEF Ends, Goes, TypeOK
<1>7. at' \in [Authors -> Places]
  BY <1>6 DEF Places
<1> QED
  BY <1>2, <1>4, <1>5, <1>6, <1>7, MemSet DEF b

LEMMA GoesLiveType ==
  ASSUME TypeOK, NEW v \in Versions, NEW s \in Keys, GoesLive(v, s)
  PROVE  /\ live' \in [ver : Versions \cup {None}, at : Nat, slug : Keys]
         /\ live'.ver = v /\ live'.at = clock + 1 /\ clock' = clock + 1 /\ clock' \in Nat
         /\ excused' \subseteq Keys
<1> DEFINE t == IF live.ver # None THEN live.slug ELSE s
<1>1. t \in Keys /\ LeftBy(s) \subseteq Keys
  BY D1Fields DEF LeftBy
<1>2. live' = [ver |-> v, at |-> clock + 1, slug |-> t]
  BY DEF GoesLive
<1> HIDE DEF t
<1> QED
  BY <1>1, <1>2, D1Fields DEF GoesLive

LEMMA DeletesKeyType ==
  ASSUME TypeOK, NEW s \in Keys, DeletesKey(s)
  PROVE  cached' \in [Keys -> Versions \cup {None}] /\ excused' \subseteq Keys
  BY DEF DeletesKey, TypeOK

\* An action of a tab or a request, and what it leaves of the parts the invariants need.
Moves(p, places) ==
    /\ at' \in [Authors -> Places] /\ at'[p] \in places
    /\ \A q \in Authors \ {p} : at'[q] = at[q] /\ mem'[q] = mem[q]
Keeps(p) == /\ mem'[p].from = mem[p].from /\ mem'[p].base = mem[p].base
            /\ mem'[p].num = mem[p].num

LEMMA BlocksType == Blocks \in BOOLEAN
  BY DEF Blocks

LEMMA EffectiveType ==
  ASSUME TypeOK, NEW p \in Authors
  PROVE  EffectiveBase(p) \in Nat
  BY Fields, D1Fields DEF EffectiveBase, Earlier

LEMMA LoadLiveEffect ==
  ASSUME TypeOK, NEW p \in Authors, LoadLive(p)
  PROVE  TypeOK' /\ Moves(p, {"loading"}) /\ mem'[p].from = live.at /\ mem'[p].base = live.at
<1> DEFINE m == [mem[p] EXCEPT !.from = live.at, !.base = live.at]
<1>1. m \in MemType /\ m.from = live.at /\ m.base = live.at
  BY Fields, D1Fields DEF MemType
<1>2. mem' = [mem EXCEPT ![p] = m]
  BY DEF LoadLive
<1> HIDE DEF m
<1>3. mem' \in [Authors -> MemType] /\ mem'[p] = m /\ \A q \in Authors \ {p} : mem'[q] = mem[q]
  BY <1>1, <1>2, MemSet
<1>4. at' \in [Authors -> Places] /\ at'[p] \in {"loading"} /\ \A q \in Authors \ {p} : at'[q] = at[q]
  BY <1>1, <1>3 DEF LoadLive, AsksToPublish, Goes, TypeOK, Places
<1>5. TypeOK'
  BY <1>3, <1>4 DEF LoadLive, store, history, TypeOK
<1> QED
  BY <1>1, <1>3, <1>4, <1>5 DEF Moves

LEMMA SaveDraftEffect ==
  ASSUME TypeOK, NEW p \in Authors, SaveDraft(p)
  PROVE  TypeOK' /\ Moves(p, {"saving", "checkSave"}) /\ mem'[p].from = mem[p].from /\ mem'[p].base = mem[p].base
<1> DEFINE m == [mem[p] EXCEPT !.saves = mem[p].saves + 1]
<1>1. m \in MemType /\ m.from = mem[p].from /\ m.base = mem[p].base
  BY Fields, D1Fields DEF MemType
<1>2. mem' = [mem EXCEPT ![p] = m]
  BY DEF SaveDraft
<1> HIDE DEF m
<1>3. mem' \in [Authors -> MemType] /\ mem'[p] = m /\ \A q \in Authors \ {p} : mem'[q] = mem[q]
  BY <1>1, <1>2, MemSet
<1>4. at' \in [Authors -> Places] /\ at'[p] \in {"saving", "checkSave"} /\ \A q \in Authors \ {p} : at'[q] = at[q]
  BY <1>1, <1>3 DEF SaveDraft, AsksToPublish, Goes, TypeOK, Places
<1>5. TypeOK'
  BY <1>3, <1>4 DEF SaveDraft, store, history, TypeOK
<1> QED
  BY <1>1, <1>3, <1>4, <1>5 DEF Moves

LEMMA PublishEffect ==
  ASSUME TypeOK, NEW p \in Authors, Publish(p)
  PROVE  TypeOK' /\ Moves(p, {"checkPublish", "staleDraft"}) /\ mem'[p].from = mem[p].from /\ mem'[p].base = mem[p].base
<1> DEFINE m == [mem[p] EXCEPT !.over = FALSE]
<1>1. m \in MemType /\ m.from = mem[p].from /\ m.base = mem[p].base
  BY Fields, D1Fields DEF MemType
<1>2. mem' = [mem EXCEPT ![p] = m]
  BY DEF Publish
<1> HIDE DEF m
<1>3. mem' \in [Authors -> MemType] /\ mem'[p] = m /\ \A q \in Authors \ {p} : mem'[q] = mem[q]
  BY <1>1, <1>2, MemSet
<1>4. at' \in [Authors -> Places] /\ at'[p] \in {"checkPublish", "staleDraft"} /\ \A q \in Authors \ {p} : at'[q] = at[q]
  BY <1>1, <1>3 DEF Publish, AsksToPublish, Goes, TypeOK, Places
<1>5. TypeOK'
  BY <1>3, <1>4 DEF Publish, store, history, TypeOK
<1> QED
  BY <1>1, <1>3, <1>4, <1>5 DEF Moves

LEMMA StaleDraftEffect ==
  ASSUME TypeOK, NEW p \in Authors, StaleDraft(p)
  PROVE  TypeOK' /\ Moves(p, {"staleLive"}) /\ mem'[p].from = mem[p].from /\ mem'[p].base = mem[p].base /\ mem'[p].eff = EffectiveBase(p)
<1> DEFINE m == [mem[p] EXCEPT !.eff = EffectiveBase(p)]
<1>1. m \in MemType /\ m.from = mem[p].from /\ m.base = mem[p].base /\ m.eff = EffectiveBase(p)
  BY EffectiveType, Fields, D1Fields DEF MemType
<1>2. mem' = [mem EXCEPT ![p] = m]
  BY DEF StaleDraft
<1> HIDE DEF m
<1>3. mem' \in [Authors -> MemType] /\ mem'[p] = m /\ \A q \in Authors \ {p} : mem'[q] = mem[q]
  BY <1>1, <1>2, MemSet
<1>4. at' \in [Authors -> Places] /\ at'[p] \in {"staleLive"} /\ \A q \in Authors \ {p} : at'[q] = at[q]
  BY <1>1, <1>3 DEF StaleDraft, AsksToPublish, Goes, TypeOK, Places
<1>5. TypeOK'
  BY <1>3, <1>4 DEF StaleDraft, store, history, TypeOK
<1> QED
  BY <1>1, <1>3, <1>4, <1>5 DEF Moves

LEMMA DecideEffect ==
  ASSUME TypeOK, NEW p \in Authors, Decide(p)
  PROVE  TypeOK' /\ Moves(p, {"number", "place"}) /\ mem'[p].from = mem[p].from /\ mem'[p].base = mem[p].base /\ mem'[p].over = mem[p].over /\ mem'[p].eff = mem[p].eff
<1> DEFINE m == [mem[p] EXCEPT !.block = Blocks]
<1>1. m \in MemType /\ m.from = mem[p].from /\ m.base = mem[p].base /\ m.over = mem[p].over /\ m.eff = mem[p].eff
  BY Fields, BlocksType DEF MemType
<1>2. mem' = [mem EXCEPT ![p] = m]
  BY DEF Decide
<1> HIDE DEF m
<1>3. mem' \in [Authors -> MemType] /\ mem'[p] = m /\ \A q \in Authors \ {p} : mem'[q] = mem[q]
  BY <1>1, <1>2, MemSet
<1>4. at' \in [Authors -> Places] /\ at'[p] \in {"number", "place"} /\ \A q \in Authors \ {p} : at'[q] = at[q]
  BY <1>1, <1>3 DEF Decide, AsksToPublish, Goes, TypeOK, Places
<1>5. TypeOK'
  BY <1>3, <1>4 DEF Decide, store, history, TypeOK
<1> QED
  BY <1>1, <1>3, <1>4, <1>5 DEF Moves

LEMMA LoadDraftEffect ==
  ASSUME TypeOK, NEW p \in Authors, LoadDraft(p)
  PROVE  /\ TypeOK' /\ Moves(p, {"editing"})
         /\ \/ draft = None /\ mem'[p].from = mem[p].from /\ mem'[p].base = mem[p].base
            \/ draft # None /\ mem'[p].from = draft.from /\ mem'[p].base = draft.base
<1>1. ASSUME draft = None, LoadDraft(p), mem' = [mem EXCEPT ![p] = [@ EXCEPT !.seen = 0, !.force = FALSE]]
      PROVE  TypeOK' /\ Moves(p, {"editing"}) /\ mem'[p].from = mem[p].from /\ mem'[p].base = mem[p].base
  <2> DEFINE m == [mem[p] EXCEPT !.seen = 0, !.force = FALSE]
  <2>1. m \in MemType /\ m.from = mem[p].from /\ m.base = mem[p].base
    BY <1>1, Fields, D1Fields DEF MemType
  <2>2. mem' = [mem EXCEPT ![p] = m]
    BY <1>1
  <2> HIDE DEF m
  <2>3. mem' \in [Authors -> MemType] /\ mem'[p] = m /\ \A q \in Authors \ {p} : mem'[q] = mem[q]
    BY <2>1, <2>2, MemSet
  <2>4. at' \in [Authors -> Places] /\ at'[p] \in {"editing"} /\ \A q \in Authors \ {p} : at'[q] = at[q]
    BY <1>1, <2>1, <2>3 DEF LoadDraft, Goes, TypeOK, Places
  <2>5. TypeOK'
    BY <1>1, <2>3, <2>4 DEF LoadDraft, store, history, TypeOK
  <2> QED
    BY <2>1, <2>3, <2>4, <2>5 DEF Moves
<1>2. ASSUME draft # None, LoadDraft(p),
             mem' = [mem EXCEPT ![p] = [@ EXCEPT !.from = draft.from, !.base = draft.base, !.seen = draft.at, !.force = FALSE]]
      PROVE  TypeOK' /\ Moves(p, {"editing"}) /\ mem'[p].from = draft.from /\ mem'[p].base = draft.base
  <2> DEFINE m == [mem[p] EXCEPT !.from = draft.from, !.base = draft.base, !.seen = draft.at, !.force = FALSE]
  <2>1. m \in MemType /\ m.from = draft.from /\ m.base = draft.base
    BY <1>2, Fields, D1Fields DEF MemType
  <2>2. mem' = [mem EXCEPT ![p] = m]
    BY <1>2
  <2> HIDE DEF m
  <2>3. mem' \in [Authors -> MemType] /\ mem'[p] = m /\ \A q \in Authors \ {p} : mem'[q] = mem[q]
    BY <2>1, <2>2, MemSet
  <2>4. at' \in [Authors -> Places] /\ at'[p] \in {"editing"} /\ \A q \in Authors \ {p} : at'[q] = at[q]
    BY <1>2, <2>1, <2>3 DEF LoadDraft, Goes, TypeOK, Places
  <2>5. TypeOK'
    BY <1>2, <2>3, <2>4 DEF LoadDraft, store, history, TypeOK
  <2> QED
    BY <2>1, <2>3, <2>4, <2>5 DEF Moves
<1> QED
  BY <1>1, <1>2 DEF LoadDraft

LEMMA DraftConflictEffect ==
  ASSUME TypeOK, NEW p \in Authors, NEW a \in Places, NEW b \in Places, NEW c \in Places, NEW d \in Places,
         DraftConflict(p, a, b, c, d)
  PROVE  TypeOK' /\ Moves(p, {b, c, d}) /\ mem'[p].from = mem[p].from /\ mem'[p].base = mem[p].base /\ mem'[p].over = mem[p].over
<1>1. ASSUME DraftConflict(p, a, b, c, d), draft # None, mem' = [mem EXCEPT ![p].seen = draft.at], Goes(p, d)
      PROVE  TypeOK' /\ Moves(p, {b, c, d}) /\ mem'[p].from = mem[p].from /\ mem'[p].base = mem[p].base /\ mem'[p].over = mem[p].over
  <2> DEFINE m == [mem[p] EXCEPT !.seen = draft.at]
  <2>1. m \in MemType /\ m.from = mem[p].from /\ m.base = mem[p].base /\ m.over = mem[p].over
    BY <1>1, Fields, D1Fields DEF MemType
  <2>2. mem' = [mem EXCEPT ![p] = m]
    BY <1>1
  <2> HIDE DEF m
  <2>3. mem' \in [Authors -> MemType] /\ mem'[p] = m /\ \A q \in Authors \ {p} : mem'[q] = mem[q]
    BY <2>1, <2>2, MemSet
  <2>4. at' \in [Authors -> Places] /\ at'[p] \in {b, c, d} /\ \A q \in Authors \ {p} : at'[q] = at[q]
    BY <1>1, <2>1, <2>3 DEF Goes, TypeOK, Places
  <2>5. TypeOK'
    BY <1>1, <2>3, <2>4 DEF DraftConflict, store, history, TypeOK
  <2> QED
    BY <2>1, <2>3, <2>4, <2>5 DEF Moves
<1>2. ASSUME DraftConflict(p, a, b, c, d), mem' = [mem EXCEPT ![p].seen = live.at], Goes(p, d)
      PROVE  TypeOK' /\ Moves(p, {b, c, d}) /\ mem'[p].from = mem[p].from /\ mem'[p].base = mem[p].base /\ mem'[p].over = mem[p].over
  <2> DEFINE m == [mem[p] EXCEPT !.seen = live.at]
  <2>1. m \in MemType /\ m.from = mem[p].from /\ m.base = mem[p].base /\ m.over = mem[p].over
    BY <1>2, Fields, D1Fields DEF MemType
  <2>2. mem' = [mem EXCEPT ![p] = m]
    BY <1>2
  <2> HIDE DEF m
  <2>3. mem' \in [Authors -> MemType] /\ mem'[p] = m /\ \A q \in Authors \ {p} : mem'[q] = mem[q]
    BY <2>1, <2>2, MemSet
  <2>4. at' \in [Authors -> Places] /\ at'[p] \in {b, c, d} /\ \A q \in Authors \ {p} : at'[q] = at[q]
    BY <1>2, <2>1, <2>3 DEF Goes, TypeOK, Places
  <2>5. TypeOK'
    BY <1>2, <2>3, <2>4 DEF DraftConflict, store, history, TypeOK
  <2> QED
    BY <2>1, <2>3, <2>4, <2>5 DEF Moves
<1>3. ASSUME DraftConflict(p, a, b, c, d), mem' = mem, Goes(p, b) \/ Goes(p, c)
      PROVE  TypeOK' /\ Moves(p, {b, c, d}) /\ mem'[p].from = mem[p].from /\ mem'[p].base = mem[p].base /\ mem'[p].over = mem[p].over
  <2>1. mem' = mem /\ at' \in [Authors -> Places] /\ at'[p] \in {b, c, d} /\ \A q \in Authors \ {p} : at'[q] = at[q]
    BY <1>3 DEF Goes, TypeOK, Places
  <2>2. TypeOK'
    BY <1>3, <2>1 DEF DraftConflict, store, history, TypeOK
  <2> QED
    BY <2>1, <2>2 DEF Moves
<1> QED
  BY <1>1, <1>2, <1>3 DEF DraftConflict

LEMMA ChecksEffect ==
  ASSUME TypeOK, NEW p \in Authors, CheckSave(p) \/ CheckPublish(p)
  PROVE  /\ TypeOK' /\ Moves(p, {"checkSaveLive", "saving", "keepOrReload", "checkPublishLive", "page", "staleDraft",
                               "anywayOrReload"})
         /\ mem'[p].from = mem[p].from /\ mem'[p].base = mem[p].base /\ mem'[p].over = mem[p].over
         /\ at'[p] = "page" => mem[p].over
<1>1. CASE CheckSave(p)
  <2>1. "checkSave" \in Places /\ "checkSaveLive" \in Places /\ "saving" \in Places /\ "keepOrReload" \in Places
    BY DEF Places
  <2>2. TypeOK' /\ Moves(p, {"checkSaveLive", "saving", "keepOrReload"}) /\ mem'[p].from = mem[p].from /\ mem'[p].base = mem[p].base /\ mem'[p].over = mem[p].over
    BY <1>1, <2>1, DraftConflictEffect DEF CheckSave
  <2> QED
    BY <2>2 DEF Moves
<1>2. CASE CheckPublish(p)
  <2> DEFINE c == IF mem[p].over THEN "page" ELSE "staleDraft"
  <2>1. /\ "checkPublish" \in Places /\ "checkPublishLive" \in Places /\ c \in Places /\ "anywayOrReload" \in Places
        /\ c \in {"page", "staleDraft"} /\ (c = "page" => mem[p].over)
    BY DEF Places
  <2>2. DraftConflict(p, "checkPublish", "checkPublishLive", c, "anywayOrReload")
    BY <1>2 DEF CheckPublish
  <2> HIDE DEF c
  <2>3. TypeOK' /\ Moves(p, {"checkPublishLive", c, "anywayOrReload"}) /\ mem'[p].from = mem[p].from /\ mem'[p].base = mem[p].base /\ mem'[p].over = mem[p].over
    BY <2>1, <2>2, DraftConflictEffect
  <2> QED
    BY <2>1, <2>3 DEF Moves
<1> QED
  BY <1>1, <1>2

LEMMA ReadBackEffect ==
  ASSUME TypeOK, NEW p \in Authors, ReadBack(p)
  PROVE  TypeOK' /\ Moves(p, {"editing"}) /\ mem'[p].from = mem[p].from /\ mem'[p].base = mem[p].base
<1>1. ASSUME ReadBack(p), mem' = [mem EXCEPT ![p].force = FALSE]
      PROVE  TypeOK' /\ Moves(p, {"editing"}) /\ mem'[p].from = mem[p].from /\ mem'[p].base = mem[p].base
  <2> DEFINE m == [mem[p] EXCEPT !.force = FALSE]
  <2>1. m \in MemType /\ m.from = mem[p].from /\ m.base = mem[p].base
    BY <1>1, Fields, D1Fields DEF MemType
  <2>2. mem' = [mem EXCEPT ![p] = m]
    BY <1>1
  <2> HIDE DEF m
  <2>3. mem' \in [Authors -> MemType] /\ mem'[p] = m /\ \A q \in Authors \ {p} : mem'[q] = mem[q]
    BY <2>1, <2>2, MemSet
  <2>4. at' \in [Authors -> Places] /\ at'[p] \in {"editing"} /\ \A q \in Authors \ {p} : at'[q] = at[q]
    BY <1>1, <2>1, <2>3 DEF ReadBack, Goes, TypeOK, Places
  <2>5. TypeOK'
    BY <1>1, <2>3, <2>4 DEF ReadBack, store, history, TypeOK
  <2> QED
    BY <2>1, <2>3, <2>4, <2>5 DEF Moves
<1>2. ASSUME draft # None, ReadBack(p), mem' = [mem EXCEPT ![p] = [@ EXCEPT !.seen = draft.at, !.force = FALSE]]
      PROVE  TypeOK' /\ Moves(p, {"editing"}) /\ mem'[p].from = mem[p].from /\ mem'[p].base = mem[p].base
  <2> DEFINE m == [mem[p] EXCEPT !.seen = draft.at, !.force = FALSE]
  <2>1. m \in MemType /\ m.from = mem[p].from /\ m.base = mem[p].base
    BY <1>2, Fields, D1Fields DEF MemType
  <2>2. mem' = [mem EXCEPT ![p] = m]
    BY <1>2
  <2> HIDE DEF m
  <2>3. mem' \in [Authors -> MemType] /\ mem'[p] = m /\ \A q \in Authors \ {p} : mem'[q] = mem[q]
    BY <2>1, <2>2, MemSet
  <2>4. at' \in [Authors -> Places] /\ at'[p] \in {"editing"} /\ \A q \in Authors \ {p} : at'[q] = at[q]
    BY <1>2, <2>1, <2>3 DEF ReadBack, Goes, TypeOK, Places
  <2>5. TypeOK'
    BY <1>2, <2>3, <2>4 DEF ReadBack, store, history, TypeOK
  <2> QED
    BY <2>1, <2>3, <2>4, <2>5 DEF Moves
<1> QED
  BY <1>1, <1>2 DEF ReadBack

LEMMA KeepMineEffect ==
  ASSUME TypeOK, NEW p \in Authors, KeepMine(p)
  PROVE  TypeOK' /\ Moves(p, {"saving", "staleDraft"}) /\ mem'[p].from = mem[p].from /\ mem'[p].base = mem[p].base
<1>1. ASSUME KeepMine(p), mem' = [mem EXCEPT ![p].force = TRUE]
      PROVE  TypeOK' /\ Moves(p, {"saving", "staleDraft"}) /\ mem'[p].from = mem[p].from /\ mem'[p].base = mem[p].base
  <2> DEFINE m == [mem[p] EXCEPT !.force = TRUE]
  <2>1. m \in MemType /\ m.from = mem[p].from /\ m.base = mem[p].base
    BY <1>1, Fields, D1Fields DEF MemType
  <2>2. mem' = [mem EXCEPT ![p] = m]
    BY <1>1
  <2> HIDE DEF m
  <2>3. mem' \in [Authors -> MemType] /\ mem'[p] = m /\ \A q \in Authors \ {p} : mem'[q] = mem[q]
    BY <2>1, <2>2, MemSet
  <2>4. at' \in [Authors -> Places] /\ at'[p] \in {"saving", "staleDraft"} /\ \A q \in Authors \ {p} : at'[q] = at[q]
    BY <1>1, <2>1, <2>3 DEF KeepMine, Goes, TypeOK, Places
  <2>5. TypeOK'
    BY <1>1, <2>3, <2>4 DEF KeepMine, store, history, TypeOK
  <2> QED
    BY <2>1, <2>3, <2>4, <2>5 DEF Moves
<1>2. ASSUME KeepMine(p), mem' = [mem EXCEPT ![p] = [@ EXCEPT !.force = TRUE, !.over = FALSE]]
      PROVE  TypeOK' /\ Moves(p, {"saving", "staleDraft"}) /\ mem'[p].from = mem[p].from /\ mem'[p].base = mem[p].base
  <2> DEFINE m == [mem[p] EXCEPT !.force = TRUE, !.over = FALSE]
  <2>1. m \in MemType /\ m.from = mem[p].from /\ m.base = mem[p].base
    BY <1>2, Fields, D1Fields DEF MemType
  <2>2. mem' = [mem EXCEPT ![p] = m]
    BY <1>2
  <2> HIDE DEF m
  <2>3. mem' \in [Authors -> MemType] /\ mem'[p] = m /\ \A q \in Authors \ {p} : mem'[q] = mem[q]
    BY <2>1, <2>2, MemSet
  <2>4. at' \in [Authors -> Places] /\ at'[p] \in {"saving", "staleDraft"} /\ \A q \in Authors \ {p} : at'[q] = at[q]
    BY <1>2, <2>1, <2>3 DEF KeepMine, Goes, TypeOK, Places
  <2>5. TypeOK'
    BY <1>2, <2>3, <2>4 DEF KeepMine, store, history, TypeOK
  <2> QED
    BY <2>1, <2>3, <2>4, <2>5 DEF Moves
<1> QED
  BY <1>1, <1>2 DEF KeepMine

LEMMA StaleLiveEffect ==
  ASSUME TypeOK, NEW p \in Authors, StaleLive(p)
  PROVE  /\ TypeOK' /\ Moves(p, {"stale", "page"}) /\ mem'[p].from = mem[p].from /\ mem'[p].base = mem[p].base
         /\ at'[p] = "page" => ~LiveIsNewer(mem[p].eff) /\ mem'[p].eff = clock
<1>1. ASSUME StaleLive(p), LiveIsNewer(mem[p].eff)
      PROVE  TypeOK' /\ Moves(p, {"stale"}) /\ mem'[p].from = mem[p].from /\ mem'[p].base = mem[p].base
  <2>1. mem' = mem /\ at' \in [Authors -> Places] /\ at'[p] \in {"stale"} /\ \A q \in Authors \ {p} : at'[q] = at[q]
    BY <1>1 DEF StaleLive, Goes, TypeOK, Places
  <2>2. TypeOK'
    BY <1>1, <2>1 DEF StaleLive, store, history, TypeOK
  <2> QED
    BY <2>1, <2>2 DEF Moves
<1>2. ASSUME StaleLive(p), ~LiveIsNewer(mem[p].eff), mem' = [mem EXCEPT ![p].eff = clock]
      PROVE  TypeOK' /\ Moves(p, {"page"}) /\ mem'[p].from = mem[p].from /\ mem'[p].base = mem[p].base /\ mem'[p].eff = clock
  <2> DEFINE m == [mem[p] EXCEPT !.eff = clock]
  <2>1. m \in MemType /\ m.from = mem[p].from /\ m.base = mem[p].base /\ m.eff = clock
    BY <1>2, Fields, D1Fields DEF MemType
  <2>2. mem' = [mem EXCEPT ![p] = m]
    BY <1>2
  <2> HIDE DEF m
  <2>3. mem' \in [Authors -> MemType] /\ mem'[p] = m /\ \A q \in Authors \ {p} : mem'[q] = mem[q]
    BY <2>1, <2>2, MemSet
  <2>4. at' \in [Authors -> Places] /\ at'[p] \in {"page"} /\ \A q \in Authors \ {p} : at'[q] = at[q]
    BY <1>2, <2>1, <2>3 DEF StaleLive, Goes, TypeOK, Places
  <2>5. TypeOK'
    BY <1>2, <2>3, <2>4 DEF StaleLive, store, history, TypeOK
  <2> QED
    BY <2>1, <2>3, <2>4, <2>5 DEF Moves
<1> QED
  BY <1>1, <1>2 DEF StaleLive, Moves

LEMMA PublishAnywayEffect ==
  ASSUME TypeOK, NEW p \in Authors, PublishAnyway(p)
  PROVE  /\ TypeOK' /\ Moves(p, {"checkPublish", "page", "staleDraft", "editing"})
         /\ mem'[p].from = mem[p].from /\ mem'[p].base = mem[p].base /\ (at'[p] = "page" => mem'[p].over)
<1>1. ASSUME PublishAnyway(p), mem' = [mem EXCEPT ![p].over = TRUE], AsksToPublish(p)
      PROVE  TypeOK' /\ Moves(p, {"checkPublish", "page", "staleDraft"}) /\ mem'[p].from = mem[p].from /\ mem'[p].base = mem[p].base /\ mem'[p].over
  <2> DEFINE m == [mem[p] EXCEPT !.over = TRUE]
  <2>1. m \in MemType /\ m.from = mem[p].from /\ m.base = mem[p].base /\ m.over
    BY <1>1, Fields, D1Fields DEF MemType
  <2>2. mem' = [mem EXCEPT ![p] = m]
    BY <1>1
  <2> HIDE DEF m
  <2>3. mem' \in [Authors -> MemType] /\ mem'[p] = m /\ \A q \in Authors \ {p} : mem'[q] = mem[q]
    BY <2>1, <2>2, MemSet
  <2>4. at' \in [Authors -> Places] /\ at'[p] \in {"checkPublish", "page", "staleDraft"} /\ \A q \in Authors \ {p} : at'[q] = at[q]
    BY <1>1, <2>1, <2>3 DEF AsksToPublish, Goes, TypeOK, Places
  <2>5. TypeOK'
    BY <1>1, <2>3, <2>4 DEF PublishAnyway, store, history, TypeOK
  <2> QED
    BY <2>1, <2>3, <2>4, <2>5 DEF Moves
<1>2. ASSUME PublishAnyway(p), mem' = [mem EXCEPT ![p].force = FALSE], Goes(p, "editing")
      PROVE  TypeOK' /\ Moves(p, {"editing"}) /\ mem'[p].from = mem[p].from /\ mem'[p].base = mem[p].base
  <2> DEFINE m == [mem[p] EXCEPT !.force = FALSE]
  <2>1. m \in MemType /\ m.from = mem[p].from /\ m.base = mem[p].base
    BY <1>2, Fields, D1Fields DEF MemType
  <2>2. mem' = [mem EXCEPT ![p] = m]
    BY <1>2
  <2> HIDE DEF m
  <2>3. mem' \in [Authors -> MemType] /\ mem'[p] = m /\ \A q \in Authors \ {p} : mem'[q] = mem[q]
    BY <2>1, <2>2, MemSet
  <2>4. at' \in [Authors -> Places] /\ at'[p] \in {"editing"} /\ \A q \in Authors \ {p} : at'[q] = at[q]
    BY <1>2, <2>1, <2>3 DEF Goes, TypeOK, Places
  <2>5. TypeOK'
    BY <1>2, <2>3, <2>4 DEF PublishAnyway, store, history, TypeOK
  <2> QED
    BY <2>1, <2>3, <2>4, <2>5 DEF Moves
<1> QED
  BY <1>1, <1>2 DEF PublishAnyway, Moves

LEMMA ReloadEffect ==
  ASSUME TypeOK, NEW p \in Authors, Reload(p)
  PROVE  TypeOK' /\ Moves(p, {"opening"}) /\ mem' = mem
<1>1. ASSUME Reload(p)
      PROVE  TypeOK' /\ Moves(p, {"opening"}) /\ mem' = mem
  <2>1. mem' = mem /\ at' \in [Authors -> Places] /\ at'[p] \in {"opening"} /\ \A q \in Authors \ {p} : at'[q] = at[q]
    BY <1>1 DEF Reload, Goes, TypeOK, Places
  <2>2. TypeOK'
    BY <1>1, <2>1 DEF Reload, store, history, TypeOK
  <2> QED
    BY <2>1, <2>2 DEF Moves
<1> QED
  BY <1>1 DEF Reload

LEMMA DiscardEffect ==
  ASSUME TypeOK, NEW p \in Authors, Discard(p)
  PROVE  TypeOK' /\ Moves(p, {"opening"}) /\ mem' = mem
<1>1. ASSUME Discard(p)
      PROVE  TypeOK' /\ Moves(p, {"opening"}) /\ mem' = mem
  <2>1. mem' = mem /\ at' \in [Authors -> Places] /\ at'[p] \in {"opening"} /\ \A q \in Authors \ {p} : at'[q] = at[q]
    BY <1>1 DEF Discard, Goes, TypeOK, Places
  <2>2. TypeOK'
    BY <1>1, <2>1 DEF Discard, store, history, TypeOK
  <2> QED
    BY <2>1, <2>2 DEF Moves
<1> QED
  BY <1>1 DEF Discard

\* A request that is over, or that remembers what it did.
Rests(p) == mem' = mem \/ ( /\ at'[p] = "done" /\ mem'[p].from = 0
                            /\ mem'[p].base = IF Kind(p) = "edit" THEN mem[p].base ELSE 0 )

LEMMA RestsEffect ==
  ASSUME TypeOK, NEW p \in Authors, NEW S \in SUBSET Places,
         Ends(p) \/ (mem' = mem /\ \E x \in S : Goes(p, x))
  PROVE  /\ at' \in [Authors -> Places] /\ mem' \in [Authors -> MemType]
         /\ Moves(p, S \cup {"done"}) /\ Rests(p)
<1>1. CASE Ends(p)
  <2>1. /\ at' \in [Authors -> Places] /\ mem' \in [Authors -> MemType] /\ at' = [at EXCEPT ![p] = "done"]
        /\ mem'[p].from = 0 /\ mem'[p].base = (IF Kind(p) = "edit" THEN mem[p].base ELSE 0)
        /\ \A q \in Authors \ {p} : mem'[q] = mem[q]
    BY <1>1, EndsEffect
  <2> QED
    BY <2>1 DEF Moves, Rests, TypeOK
<1>2. CASE mem' = mem /\ \E x \in S : Goes(p, x)
  BY <1>2 DEF Goes, Moves, Rests, TypeOK
<1> QED
  BY <1>1, <1>2

LEMMA UpsertDraftEffect ==
  ASSUME TypeOK, NEW p \in Authors, UpsertDraft(p)
  PROVE  TypeOK' /\ Moves(p, {"readBack"} \cup {"done"}) /\ Rests(p)
<1> DEFINE S == {"readBack"}
<1>1. S \in SUBSET Places
  BY DEF Places
<1>2. Ends(p) \/ (mem' = mem /\ \E x \in S : Goes(p, x))
  BY DEF UpsertDraft
<1> HIDE DEF S
<1>3. /\ at' \in [Authors -> Places] /\ mem' \in [Authors -> MemType]
      /\ Moves(p, S \cup {"done"}) /\ Rests(p)
  BY <1>1, <1>2, RestsEffect
<1>4. /\ live' \in [ver : Versions \cup {None}, at : Nat, slug : Keys] /\ clock' \in Nat
      /\ no' \in [Versions -> Nat] /\ whole' \subseteq Versions /\ revived' \subseteq Versions
      /\ cand' \in Authors \cup {None} /\ held' \subseteq Authors /\ passed' \subseteq Authors
      /\ draft' = None \/ draft' \in DraftType
      /\ cached' \in [Keys -> Versions \cup {None}] /\ excused' \subseteq Keys
      /\ tests' \in [mode : {"off", "monitor", "block"}, baseline : Versions \cup {None}]
  <2> DEFINE b == IF KeepsBase(p) THEN draft.base ELSE mem[p].base
  <2>1. b \in Nat
    BY Fields, D1Fields DEF KeepsBase
  <2>2. draft' = [at |-> clock + 1, from |-> mem[p].from, base |-> b]
    BY DEF UpsertDraft
  <2> HIDE DEF b
  <2>3. draft' \in DraftType /\ clock' \in Nat
    BY <2>1, <2>2, Fields, D1Fields DEF UpsertDraft, DraftType
  <2> QED
    BY <2>3 DEF UpsertDraft, history, TypeOK
<1>5. TypeOK'
  BY <1>3, <1>4 DEF UpsertDraft, store, history, TypeOK
<1> QED
  BY <1>3, <1>5 DEF S

LEMMA CheckHeadEffect ==
  ASSUME TypeOK, NEW p \in Authors, CheckHead(p)
  PROVE  TypeOK' /\ Moves(p, {"page"} \cup {"done"}) /\ Rests(p)
<1> DEFINE S == {"page"}
<1>1. S \in SUBSET Places
  BY DEF Places
<1>2. Ends(p) \/ (mem' = mem /\ \E x \in S : Goes(p, x))
  BY DEF CheckHead
<1> HIDE DEF S
<1>3. /\ at' \in [Authors -> Places] /\ mem' \in [Authors -> MemType]
      /\ Moves(p, S \cup {"done"}) /\ Rests(p)
  BY <1>1, <1>2, RestsEffect
<1>4. /\ live' \in [ver : Versions \cup {None}, at : Nat, slug : Keys] /\ clock' \in Nat
      /\ no' \in [Versions -> Nat] /\ whole' \subseteq Versions /\ revived' \subseteq Versions
      /\ cand' \in Authors \cup {None} /\ held' \subseteq Authors /\ passed' \subseteq Authors
      /\ draft' = None \/ draft' \in DraftType
      /\ cached' \in [Keys -> Versions \cup {None}] /\ excused' \subseteq Keys
      /\ tests' \in [mode : {"off", "monitor", "block"}, baseline : Versions \cup {None}]
  BY Fields, D1Fields DEF CheckHead, store, history, TypeOK, Versions
<1>5. TypeOK'
  BY <1>3, <1>4 DEF CheckHead, store, history, TypeOK
<1> QED
  BY <1>3, <1>5 DEF S

LEMMA InsertEffect ==
  ASSUME TypeOK, NEW p \in Authors, Insert(p)
  PROVE  TypeOK' /\ Moves(p, {"decide", "assets"} \cup {"done"}) /\ Rests(p)
<1> DEFINE S == {"decide", "assets"}
<1>1. S \in SUBSET Places
  BY DEF Places
<1>2. Ends(p) \/ (mem' = mem /\ \E x \in S : Goes(p, x))
  BY DEF Insert
<1> HIDE DEF S
<1>3. /\ at' \in [Authors -> Places] /\ mem' \in [Authors -> MemType]
      /\ Moves(p, S \cup {"done"}) /\ Rests(p)
  BY <1>1, <1>2, RestsEffect
<1>4. /\ live' \in [ver : Versions \cup {None}, at : Nat, slug : Keys] /\ clock' \in Nat
      /\ no' \in [Versions -> Nat] /\ whole' \subseteq Versions /\ revived' \subseteq Versions
      /\ cand' \in Authors \cup {None} /\ held' \subseteq Authors /\ passed' \subseteq Authors
      /\ draft' = None \/ draft' \in DraftType
      /\ cached' \in [Keys -> Versions \cup {None}] /\ excused' \subseteq Keys
      /\ tests' \in [mode : {"off", "monitor", "block"}, baseline : Versions \cup {None}]
  BY Fields, D1Fields DEF Insert, store, history, TypeOK, Versions
<1>5. TypeOK'
  BY <1>3, <1>4 DEF Insert, store, history, TypeOK
<1> QED
  BY <1>3, <1>5 DEF S

LEMMA StoreAssetsEffect ==
  ASSUME TypeOK, NEW p \in Authors, StoreAssets(p)
  PROVE  TypeOK' /\ Moves(p, {"place", "decide"} \cup {"done"}) /\ Rests(p)
<1> DEFINE S == {"place", "decide"}
<1>1. S \in SUBSET Places
  BY DEF Places
<1>2. Ends(p) \/ (mem' = mem /\ \E x \in S : Goes(p, x))
  BY DEF StoreAssets
<1> HIDE DEF S
<1>3. /\ at' \in [Authors -> Places] /\ mem' \in [Authors -> MemType]
      /\ Moves(p, S \cup {"done"}) /\ Rests(p)
  BY <1>1, <1>2, RestsEffect
<1>4. /\ live' \in [ver : Versions \cup {None}, at : Nat, slug : Keys] /\ clock' \in Nat
      /\ no' \in [Versions -> Nat] /\ whole' \subseteq Versions /\ revived' \subseteq Versions
      /\ cand' \in Authors \cup {None} /\ held' \subseteq Authors /\ passed' \subseteq Authors
      /\ draft' = None \/ draft' \in DraftType
      /\ cached' \in [Keys -> Versions \cup {None}] /\ excused' \subseteq Keys
      /\ tests' \in [mode : {"off", "monitor", "block"}, baseline : Versions \cup {None}]
  BY Fields, D1Fields DEF StoreAssets, store, history, TypeOK, Versions
<1>5. TypeOK'
  BY <1>3, <1>4 DEF StoreAssets, store, history, TypeOK
<1> QED
  BY <1>3, <1>5 DEF S

LEMMA PromoteEffect ==
  ASSUME TypeOK, NEW p \in Authors, Promote(p)
  PROVE  TypeOK' /\ Moves(p, {"tests", "purge"} \cup {"done"}) /\ Rests(p)
<1> DEFINE S == {"tests", "purge"}
<1>1. S \in SUBSET Places
  BY DEF Places
<1>2. Ends(p) \/ (mem' = mem /\ \E x \in S : Goes(p, x))
  BY DEF Promote
<1> HIDE DEF S
<1>3. /\ at' \in [Authors -> Places] /\ mem' \in [Authors -> MemType]
      /\ Moves(p, S \cup {"done"}) /\ Rests(p)
  BY <1>1, <1>2, RestsEffect
<1>4. /\ live' \in [ver : Versions \cup {None}, at : Nat, slug : Keys] /\ clock' \in Nat
      /\ no' \in [Versions -> Nat] /\ whole' \subseteq Versions /\ revived' \subseteq Versions
      /\ cand' \in Authors \cup {None} /\ held' \subseteq Authors /\ passed' \subseteq Authors
      /\ draft' = None \/ draft' \in DraftType
      /\ cached' \in [Keys -> Versions \cup {None}] /\ excused' \subseteq Keys
      /\ tests' \in [mode : {"off", "monitor", "block"}, baseline : Versions \cup {None}]
  <2>1. p \in Versions /\ mem[p].slug \in Keys
    BY Fields DEF Versions
  <2>2. CASE mem[p].block
    BY <2>2, D1Fields DEF Promote, TypeOK
  <2>3. CASE ~mem[p].block
    BY <2>1, <2>3, GoesLiveType DEF Promote, TypeOK
  <2> QED
    BY <2>2, <2>3
<1>5. TypeOK'
  BY <1>3, <1>4 DEF Promote, store, history, TypeOK
<1> QED
  BY <1>3, <1>5 DEF S

LEMMA ChatPlacesEffect ==
  ASSUME TypeOK, NEW p \in Authors, ChatPlaces(p)
  PROVE  TypeOK' /\ Moves(p, {} \cup {"done"}) /\ Rests(p)
<1> DEFINE S == {}
<1>1. S \in SUBSET Places
  BY DEF Places
<1>2. Ends(p) \/ (mem' = mem /\ \E x \in S : Goes(p, x))
  BY DEF ChatPlaces
<1> HIDE DEF S
<1>3. /\ at' \in [Authors -> Places] /\ mem' \in [Authors -> MemType]
      /\ Moves(p, S \cup {"done"}) /\ Rests(p)
  BY <1>1, <1>2, RestsEffect
<1>4. /\ live' \in [ver : Versions \cup {None}, at : Nat, slug : Keys] /\ clock' \in Nat
      /\ no' \in [Versions -> Nat] /\ whole' \subseteq Versions /\ revived' \subseteq Versions
      /\ cand' \in Authors \cup {None} /\ held' \subseteq Authors /\ passed' \subseteq Authors
      /\ draft' = None \/ draft' \in DraftType
      /\ cached' \in [Keys -> Versions \cup {None}] /\ excused' \subseteq Keys
      /\ tests' \in [mode : {"off", "monitor", "block"}, baseline : Versions \cup {None}]
  <2>1. CASE live.ver # None
    <3> DEFINE o == live
    <3>1. live' = [o EXCEPT !.ver = p, !.at = clock + 1] /\ clock' = clock + 1 /\ excused' = excused \cup {live.slug}
      BY <2>1 DEF ChatPlaces
    <3>2. o \in [ver : Versions \cup {None}, at : Nat, slug : Keys] /\ p \in Versions /\ clock + 1 \in Nat
      BY D1Fields DEF TypeOK, Versions
    <3> HIDE DEF o
    <3>3. live' \in [ver : Versions \cup {None}, at : Nat, slug : Keys]
      BY <3>1, <3>2
    <3>4. clock' \in Nat /\ excused' \subseteq Keys
      BY <3>1, D1Fields
    <3> QED
      BY <3>3, <3>4 DEF ChatPlaces, TypeOK
  <2>2. CASE live.ver = None
    BY <2>2 DEF ChatPlaces, TypeOK
  <2> QED
    BY <2>1, <2>2
<1>5. TypeOK'
  BY <1>3, <1>4 DEF ChatPlaces, store, history, TypeOK
<1> QED
  BY <1>3, <1>5 DEF S

LEMMA RollbackEffect ==
  ASSUME TypeOK, NEW p \in Authors, Rollback(p)
  PROVE  TypeOK' /\ Moves(p, {"purge"} \cup {"done"}) /\ Rests(p)
<1> DEFINE S == {"purge"}
<1>1. S \in SUBSET Places
  BY DEF Places
<1>2. Ends(p) \/ (mem' = mem /\ \E x \in S : Goes(p, x))
  BY DEF Rollback
<1> HIDE DEF S
<1>3. /\ at' \in [Authors -> Places] /\ mem' \in [Authors -> MemType]
      /\ Moves(p, S \cup {"done"}) /\ Rests(p)
  BY <1>1, <1>2, RestsEffect
<1>4. /\ live' \in [ver : Versions \cup {None}, at : Nat, slug : Keys] /\ clock' \in Nat
      /\ no' \in [Versions -> Nat] /\ whole' \subseteq Versions /\ revived' \subseteq Versions
      /\ cand' \in Authors \cup {None} /\ held' \subseteq Authors /\ passed' \subseteq Authors
      /\ draft' = None \/ draft' \in DraftType
      /\ cached' \in [Keys -> Versions \cup {None}] /\ excused' \subseteq Keys
      /\ tests' \in [mode : {"off", "monitor", "block"}, baseline : Versions \cup {None}]
  <2>1. mem[p].slug \in Keys
    BY Fields
  <2>2. PICK v \in {w \in Versions : no[w] # 0} :
          IF live.ver # None
          THEN GoesLive(v, mem[p].slug) /\ revived' = revived \cup {v} /\ Goes(p, "purge") /\ UNCHANGED mem
          ELSE Ends(p) /\ UNCHANGED <<live, clock, revived, excused>>
    BY DEF Rollback
  <2>3. CASE live.ver # None
    BY <2>1, <2>2, <2>3, GoesLiveType DEF Rollback, TypeOK
  <2>4. CASE live.ver = None
    BY <2>2, <2>4 DEF Rollback, TypeOK
  <2> QED
    BY <2>3, <2>4
<1>5. TypeOK'
  BY <1>3, <1>4 DEF Rollback, store, history, TypeOK
<1> QED
  BY <1>3, <1>5 DEF S

LEMMA PurgeEffect ==
  ASSUME TypeOK, NEW p \in Authors, Purge(p)
  PROVE  TypeOK' /\ Moves(p, {"clear", "tests"} \cup {"done"}) /\ Rests(p)
<1> DEFINE S == {"clear", "tests"}
<1>1. S \in SUBSET Places
  BY DEF Places
<1>2. Ends(p) \/ (mem' = mem /\ \E x \in S : Goes(p, x))
  BY DEF Purge
<1> HIDE DEF S
<1>3. /\ at' \in [Authors -> Places] /\ mem' \in [Authors -> MemType]
      /\ Moves(p, S \cup {"done"}) /\ Rests(p)
  BY <1>1, <1>2, RestsEffect
<1>4. /\ live' \in [ver : Versions \cup {None}, at : Nat, slug : Keys] /\ clock' \in Nat
      /\ no' \in [Versions -> Nat] /\ whole' \subseteq Versions /\ revived' \subseteq Versions
      /\ cand' \in Authors \cup {None} /\ held' \subseteq Authors /\ passed' \subseteq Authors
      /\ draft' = None \/ draft' \in DraftType
      /\ cached' \in [Keys -> Versions \cup {None}] /\ excused' \subseteq Keys
      /\ tests' \in [mode : {"off", "monitor", "block"}, baseline : Versions \cup {None}]
  <2>1. mem[p].slug \in Keys
    BY Fields
  <2> QED
    BY <2>1, DeletesKeyType DEF Purge, TypeOK
<1>5. TypeOK'
  BY <1>3, <1>4 DEF Purge, store, history, TypeOK
<1> QED
  BY <1>3, <1>5 DEF S

LEMMA RunTestsEffect ==
  ASSUME TypeOK, NEW p \in Authors, RunTests(p)
  PROVE  TypeOK' /\ Moves(p, {"verdict"} \cup {"done"}) /\ Rests(p)
<1> DEFINE S == {"verdict"}
<1>1. S \in SUBSET Places
  BY DEF Places
<1>2. Ends(p) \/ (mem' = mem /\ \E x \in S : Goes(p, x))
  BY DEF RunTests
<1> HIDE DEF S
<1>3. /\ at' \in [Authors -> Places] /\ mem' \in [Authors -> MemType]
      /\ Moves(p, S \cup {"done"}) /\ Rests(p)
  BY <1>1, <1>2, RestsEffect
<1>4. /\ live' \in [ver : Versions \cup {None}, at : Nat, slug : Keys] /\ clock' \in Nat
      /\ no' \in [Versions -> Nat] /\ whole' \subseteq Versions /\ revived' \subseteq Versions
      /\ cand' \in Authors \cup {None} /\ held' \subseteq Authors /\ passed' \subseteq Authors
      /\ draft' = None \/ draft' \in DraftType
      /\ cached' \in [Keys -> Versions \cup {None}] /\ excused' \subseteq Keys
      /\ tests' \in [mode : {"off", "monitor", "block"}, baseline : Versions \cup {None}]
  BY Fields, D1Fields DEF RunTests, store, history, TypeOK, Versions
<1>5. TypeOK'
  BY <1>3, <1>4 DEF RunTests, store, history, TypeOK
<1> QED
  BY <1>3, <1>5 DEF S

LEMMA VerdictEffect ==
  ASSUME TypeOK, NEW p \in Authors, Verdict(p)
  PROVE  TypeOK' /\ Moves(p, {"guard"} \cup {"done"}) /\ Rests(p)
<1> DEFINE S == {"guard"}
<1>1. S \in SUBSET Places
  BY DEF Places
<1>2. Ends(p) \/ (mem' = mem /\ \E x \in S : Goes(p, x))
  BY DEF Verdict
<1> HIDE DEF S
<1>3. /\ at' \in [Authors -> Places] /\ mem' \in [Authors -> MemType]
      /\ Moves(p, S \cup {"done"}) /\ Rests(p)
  BY <1>1, <1>2, RestsEffect
<1>4. /\ live' \in [ver : Versions \cup {None}, at : Nat, slug : Keys] /\ clock' \in Nat
      /\ no' \in [Versions -> Nat] /\ whole' \subseteq Versions /\ revived' \subseteq Versions
      /\ cand' \in Authors \cup {None} /\ held' \subseteq Authors /\ passed' \subseteq Authors
      /\ draft' = None \/ draft' \in DraftType
      /\ cached' \in [Keys -> Versions \cup {None}] /\ excused' \subseteq Keys
      /\ tests' \in [mode : {"off", "monitor", "block"}, baseline : Versions \cup {None}]
  BY Fields, D1Fields DEF Verdict, store, history, TypeOK, Versions, Verdicts
<1>5. TypeOK'
  BY <1>3, <1>4 DEF Verdict, store, history, TypeOK
<1> QED
  BY <1>3, <1>5 DEF S

LEMMA GuardEffect ==
  ASSUME TypeOK, NEW p \in Authors, Guard(p)
  PROVE  TypeOK' /\ Moves(p, {"promote"} \cup {"done"}) /\ Rests(p)
<1> DEFINE S == {"promote"}
<1>1. S \in SUBSET Places
  BY DEF Places
<1>2. Ends(p) \/ (mem' = mem /\ \E x \in S : Goes(p, x))
  BY DEF Guard
<1> HIDE DEF S
<1>3. /\ at' \in [Authors -> Places] /\ mem' \in [Authors -> MemType]
      /\ Moves(p, S \cup {"done"}) /\ Rests(p)
  BY <1>1, <1>2, RestsEffect
<1>4. /\ live' \in [ver : Versions \cup {None}, at : Nat, slug : Keys] /\ clock' \in Nat
      /\ no' \in [Versions -> Nat] /\ whole' \subseteq Versions /\ revived' \subseteq Versions
      /\ cand' \in Authors \cup {None} /\ held' \subseteq Authors /\ passed' \subseteq Authors
      /\ draft' = None \/ draft' \in DraftType
      /\ cached' \in [Keys -> Versions \cup {None}] /\ excused' \subseteq Keys
      /\ tests' \in [mode : {"off", "monitor", "block"}, baseline : Versions \cup {None}]
  BY Fields, D1Fields DEF Guard, store, history, TypeOK, Versions
<1>5. TypeOK'
  BY <1>3, <1>4 DEF Guard, store, history, TypeOK
<1> QED
  BY <1>3, <1>5 DEF S

LEMMA GatePromotesEffect ==
  ASSUME TypeOK, NEW p \in Authors, GatePromotes(p)
  PROVE  TypeOK' /\ Moves(p, {"purgeGate"} \cup {"done"}) /\ Rests(p)
<1> DEFINE S == {"purgeGate"}
<1>1. S \in SUBSET Places
  BY DEF Places
<1>2. Ends(p) \/ (mem' = mem /\ \E x \in S : Goes(p, x))
  BY DEF GatePromotes
<1> HIDE DEF S
<1>3. /\ at' \in [Authors -> Places] /\ mem' \in [Authors -> MemType]
      /\ Moves(p, S \cup {"done"}) /\ Rests(p)
  BY <1>1, <1>2, RestsEffect
<1>4. /\ live' \in [ver : Versions \cup {None}, at : Nat, slug : Keys] /\ clock' \in Nat
      /\ no' \in [Versions -> Nat] /\ whole' \subseteq Versions /\ revived' \subseteq Versions
      /\ cand' \in Authors \cup {None} /\ held' \subseteq Authors /\ passed' \subseteq Authors
      /\ draft' = None \/ draft' \in DraftType
      /\ cached' \in [Keys -> Versions \cup {None}] /\ excused' \subseteq Keys
      /\ tests' \in [mode : {"off", "monitor", "block"}, baseline : Versions \cup {None}]
  <2>1. p \in Versions /\ mem[p].slug \in Keys
    BY Fields DEF Versions
  <2> QED
    BY <2>1, GoesLiveType DEF GatePromotes, TypeOK
<1>5. TypeOK'
  BY <1>3, <1>4 DEF GatePromotes, store, history, TypeOK
<1> QED
  BY <1>3, <1>5 DEF S

LEMMA ClearCandidateEffect ==
  ASSUME TypeOK, NEW p \in Authors, ClearCandidate(p)
  PROVE  TypeOK' /\ Moves(p, {} \cup {"done"}) /\ Rests(p)
<1> DEFINE S == {}
<1>1. S \in SUBSET Places
  BY DEF Places
<1>2. Ends(p) \/ (mem' = mem /\ \E x \in S : Goes(p, x))
  BY DEF ClearCandidate
<1> HIDE DEF S
<1>3. /\ at' \in [Authors -> Places] /\ mem' \in [Authors -> MemType]
      /\ Moves(p, S \cup {"done"}) /\ Rests(p)
  BY <1>1, <1>2, RestsEffect
<1>4. /\ live' \in [ver : Versions \cup {None}, at : Nat, slug : Keys] /\ clock' \in Nat
      /\ no' \in [Versions -> Nat] /\ whole' \subseteq Versions /\ revived' \subseteq Versions
      /\ cand' \in Authors \cup {None} /\ held' \subseteq Authors /\ passed' \subseteq Authors
      /\ draft' = None \/ draft' \in DraftType
      /\ cached' \in [Keys -> Versions \cup {None}] /\ excused' \subseteq Keys
      /\ tests' \in [mode : {"off", "monitor", "block"}, baseline : Versions \cup {None}]
  BY Fields, D1Fields DEF ClearCandidate, store, history, TypeOK, Versions
<1>5. TypeOK'
  BY <1>3, <1>4 DEF ClearCandidate, store, history, TypeOK
<1> QED
  BY <1>3, <1>5 DEF S

LEMMA CrashEffect ==
  ASSUME TypeOK, NEW p \in Authors, Crash(p)
  PROVE  TypeOK' /\ Moves(p, {} \cup {"done"}) /\ Rests(p)
<1> DEFINE S == {}
<1>1. S \in SUBSET Places
  BY DEF Places
<1>2. Ends(p) \/ (mem' = mem /\ \E x \in S : Goes(p, x))
  BY DEF Crash
<1> HIDE DEF S
<1>3. /\ at' \in [Authors -> Places] /\ mem' \in [Authors -> MemType]
      /\ Moves(p, S \cup {"done"}) /\ Rests(p)
  BY <1>1, <1>2, RestsEffect
<1>4. /\ live' \in [ver : Versions \cup {None}, at : Nat, slug : Keys] /\ clock' \in Nat
      /\ no' \in [Versions -> Nat] /\ whole' \subseteq Versions /\ revived' \subseteq Versions
      /\ cand' \in Authors \cup {None} /\ held' \subseteq Authors /\ passed' \subseteq Authors
      /\ draft' = None \/ draft' \in DraftType
      /\ cached' \in [Keys -> Versions \cup {None}] /\ excused' \subseteq Keys
      /\ tests' \in [mode : {"off", "monitor", "block"}, baseline : Versions \cup {None}]
  BY Fields, D1Fields DEF Crash, store, history, TypeOK, Versions
<1>5. TypeOK'
  BY <1>3, <1>4 DEF Crash, store, history, TypeOK
<1> QED
  BY <1>3, <1>5 DEF S

LEMMA ReadHeadEffect ==
  ASSUME TypeOK, NEW p \in Authors, ReadHead(p)
  PROVE  /\ TypeOK' /\ Moves(p, {"checkHead"})
<1>1. ASSUME NEW v \in Versions, ReadHead(p), mem' = [mem EXCEPT ![p].base = no[v]]
      PROVE  TypeOK' /\ Moves(p, {"checkHead"})
  <2> DEFINE m == [mem[p] EXCEPT !.base = no[v]]
  <2>1. m \in MemType
    BY <1>1, Fields, D1Fields DEF MemType
  <2>2. mem' = [mem EXCEPT ![p] = m]
    BY <1>1
  <2> HIDE DEF m
  <2>3. mem' \in [Authors -> MemType] /\ mem'[p] = m /\ \A q \in Authors \ {p} : mem'[q] = mem[q]
    BY <2>1, <2>2, MemSet
  <2>4. at' \in [Authors -> Places] /\ at'[p] \in {"checkHead"} /\ \A q \in Authors \ {p} : at'[q] = at[q]
    BY <1>1, <2>1, <2>3 DEF ReadHead, Goes, TypeOK, Places
  <2>5. TypeOK'
    BY <1>1, <2>3, <2>4 DEF ReadHead, store, history, TypeOK
  <2> QED
    BY <2>1, <2>3, <2>4, <2>5 DEF Moves
<1> QED
  BY <1>1 DEF ReadHead

LEMMA WholeVersions == TypeOK => whole \subseteq Versions
  BY DEF TypeOK

LEMMA ReadPageEffect ==
  ASSUME TypeOK, NEW p \in Authors, ReadPage(p)
  PROVE  /\ TypeOK'
         /\ \/ /\ Moves(p, {CASE Kind(p) = "tab" -> "decide"
                              [] Kind(p) = "restore" -> "target"
                              [] Kind(p) = "rollback" -> "rollback"
                              [] OTHER -> "number"})
               /\ mem'[p].from = mem[p].from /\ mem'[p].base = mem[p].base
               /\ mem'[p].over = mem[p].over /\ mem'[p].eff = mem[p].eff
            \/ Moves(p, {"done"}) /\ Rests(p) /\ Kind(p) # "tab"
<1> DEFINE x == CASE Kind(p) = "tab" -> "decide"
                  [] Kind(p) = "restore" -> "target"
                  [] Kind(p) = "rollback" -> "rollback"
                  [] OTHER -> "number"
<1>1. CASE FindsPage(p)
  <2> DEFINE m == [mem[p] EXCEPT !.slug = SlugOf(p)]
  <2>1. m \in MemType /\ m.from = mem[p].from /\ m.base = mem[p].base /\ m.over = mem[p].over /\ m.eff = mem[p].eff
    BY Fields, D1Fields DEF MemType, SlugOf
  <2>2. mem' = [mem EXCEPT ![p] = m] /\ Goes(p, x)
    BY <1>1 DEF ReadPage
  <2>3. x \in Places
    BY DEF Places
  <2> HIDE DEF m, x
  <2>4. mem' \in [Authors -> MemType] /\ mem'[p] = m /\ \A q \in Authors \ {p} : mem'[q] = mem[q]
    BY <2>1, <2>2, MemSet
  <2>5. at' \in [Authors -> Places] /\ at'[p] \in {x} /\ \A q \in Authors \ {p} : at'[q] = at[q]
    BY <2>2, <2>3 DEF Goes, TypeOK
  <2>6. TypeOK'
    BY <2>4, <2>5 DEF ReadPage, store, history, TypeOK
  <2> QED
    BY <2>1, <2>4, <2>5, <2>6 DEF Moves, x
<1>2. CASE ~FindsPage(p)
  <2>1. Ends(p) /\ {} \in SUBSET Places /\ Kind(p) # "tab"
    BY <1>2 DEF ReadPage, FindsPage
  <2>2. /\ at' \in [Authors -> Places] /\ mem' \in [Authors -> MemType]
        /\ Moves(p, {} \cup {"done"}) /\ Rests(p)
    BY <2>1, RestsEffect
  <2>3. TypeOK'
    BY <2>2 DEF ReadPage, store, history, TypeOK
  <2> QED
    BY <2>1, <2>2, <2>3
<1> QED
  BY <1>1, <1>2

LEMMA TargetEffect ==
  ASSUME TypeOK, NEW p \in Authors, Target(p)
  PROVE  /\ TypeOK' /\ Moves(p, {"number"}) /\ mem'[p].from = mem[p].from /\ mem'[p].base = mem[p].base
<1>1. ASSUME NEW v \in whole, Target(p), mem' = [mem EXCEPT ![p].target = v]
      PROVE  TypeOK' /\ Moves(p, {"number"}) /\ mem'[p].from = mem[p].from /\ mem'[p].base = mem[p].base
  <2> DEFINE m == [mem[p] EXCEPT !.target = v]
  <2>1. m \in MemType /\ m.from = mem[p].from /\ m.base = mem[p].base
    BY <1>1, Fields, D1Fields, WholeVersions DEF MemType
  <2>2. mem' = [mem EXCEPT ![p] = m]
    BY <1>1
  <2> HIDE DEF m
  <2>3. mem' \in [Authors -> MemType] /\ mem'[p] = m /\ \A q \in Authors \ {p} : mem'[q] = mem[q]
    BY <2>1, <2>2, MemSet
  <2>4. at' \in [Authors -> Places] /\ at'[p] \in {"number"} /\ \A q \in Authors \ {p} : at'[q] = at[q]
    BY <1>1, <2>1, <2>3 DEF Target, Goes, TypeOK, Places
  <2>5. TypeOK'
    BY <1>1, <2>3, <2>4 DEF Target, store, history, TypeOK
  <2> QED
    BY <2>1, <2>3, <2>4, <2>5 DEF Moves
<1> QED
  BY <1>1 DEF Target

LEMMA NumberEffect ==
  ASSUME TypeOK, NEW p \in Authors, Number(p)
  PROVE  /\ TypeOK'
         /\ \/ /\ Moves(p, {IF Kind(p) = "tab" THEN "commit" ELSE "insert"}) /\ mem'[p].from = mem[p].from /\ mem'[p].base = mem[p].base /\ mem'[p].over = mem[p].over /\ mem'[p].eff = mem[p].eff
               /\ Kind(p) = "edit" => mem'[p].num = mem[p].base + 1
            \/ /\ Moves(p, {"done"}) /\ mem'[p].from = 0
               /\ mem'[p].base = IF Kind(p) = "edit" THEN mem[p].base ELSE 0
<1>1. ASSUME NEW v \in Versions, Number(p), mem' = [mem EXCEPT ![p].num = no[v] + 1],
             Goes(p, IF Kind(p) = "tab" THEN "commit" ELSE "insert")
      PROVE  TypeOK' /\ Moves(p, {IF Kind(p) = "tab" THEN "commit" ELSE "insert"}) /\ mem'[p].from = mem[p].from /\ mem'[p].base = mem[p].base /\ mem'[p].over = mem[p].over /\ mem'[p].eff = mem[p].eff /\ mem'[p].num = no[v] + 1
  <2> DEFINE m == [mem[p] EXCEPT !.num = no[v] + 1]
  <2>1. m \in MemType /\ m.from = mem[p].from /\ m.base = mem[p].base /\ m.over = mem[p].over /\ m.eff = mem[p].eff /\ m.num = no[v] + 1
    BY <1>1, Fields, D1Fields DEF MemType
  <2>2. mem' = [mem EXCEPT ![p] = m]
    BY <1>1
  <2> HIDE DEF m
  <2>3. mem' \in [Authors -> MemType] /\ mem'[p] = m /\ \A q \in Authors \ {p} : mem'[q] = mem[q]
    BY <2>1, <2>2, MemSet
  <2>4. at' \in [Authors -> Places] /\ at'[p] \in {IF Kind(p) = "tab" THEN "commit" ELSE "insert"} /\ \A q \in Authors \ {p} : at'[q] = at[q]
    BY <1>1, <2>1, <2>3 DEF Goes, TypeOK, Places
  <2>5. TypeOK'
    BY <1>1, <2>3, <2>4 DEF Number, store, history, TypeOK
  <2> QED
    BY <2>1, <2>3, <2>4, <2>5 DEF Moves
<1>2. ASSUME Number(p), Ends(p)
      PROVE  TypeOK' /\ Moves(p, {"done"}) /\ mem'[p].from = 0 /\ mem'[p].base = (IF Kind(p) = "edit" THEN mem[p].base ELSE 0)
  <2>1. /\ at' \in [Authors -> Places] /\ mem' \in [Authors -> MemType] /\ at' = [at EXCEPT ![p] = "done"]
        /\ mem'[p].base = (IF Kind(p) = "edit" THEN mem[p].base ELSE 0) /\ mem'[p].from = 0
        /\ \A q \in Authors \ {p} : mem'[q] = mem[q]
    BY <1>2, EndsEffect
  <2>2. TypeOK'
    BY <1>2, <2>1 DEF Number, store, history, TypeOK
  <2> QED
    BY <2>1, <2>2 DEF Moves, TypeOK
<1>3. PICK v \in Versions :
        IF AsExpected(p, no[v])
        THEN /\ mem' = [mem EXCEPT ![p].num = no[v] + 1]
             /\ Goes(p, IF Kind(p) = "tab" THEN "commit" ELSE "insert")
        ELSE Ends(p)
  BY DEF Number
<1>4. CASE AsExpected(p, no[v])
  BY <1>1, <1>3, <1>4 DEF AsExpected
<1>5. CASE ~AsExpected(p, no[v])
  BY <1>2, <1>3, <1>5
<1> QED
  BY <1>4, <1>5

LEMMA CommitEffect ==
  ASSUME TypeOK, NEW p \in Authors, Commit(p)
  PROVE  /\ TypeOK' /\ Moves(p, {"tests", "purge", "editing"})
         /\ mem'[p].from = mem[p].from /\ mem'[p].base = mem[p].base
<1>1. ASSUME Commit(p), ~IsFree(mem[p].num), mem' = [mem EXCEPT ![p] = [@ EXCEPT !.force = FALSE, !.over = FALSE]],
             Goes(p, "editing"), UNCHANGED <<no, whole, draft, cand, live, clock, held, excused>>
      PROVE  TypeOK' /\ Moves(p, {"editing"}) /\ mem'[p].from = mem[p].from /\ mem'[p].base = mem[p].base
  <2> DEFINE m == [mem[p] EXCEPT !.force = FALSE, !.over = FALSE]
  <2>1. m \in MemType /\ m.from = mem[p].from /\ m.base = mem[p].base
    BY <1>1, Fields, D1Fields DEF MemType
  <2>2. mem' = [mem EXCEPT ![p] = m]
    BY <1>1
  <2> HIDE DEF m
  <2>3. mem' \in [Authors -> MemType] /\ mem'[p] = m /\ \A q \in Authors \ {p} : mem'[q] = mem[q]
    BY <2>1, <2>2, MemSet
  <2>4. at' \in [Authors -> Places] /\ at'[p] \in {"editing"} /\ \A q \in Authors \ {p} : at'[q] = at[q]
    BY <1>1, <2>1, <2>3 DEF Goes, TypeOK, Places
  <2>5. TypeOK'
    BY <1>1, <2>3, <2>4 DEF Commit, store, history, TypeOK
  <2> QED
    BY <2>1, <2>3, <2>4, <2>5 DEF Moves
<1>2. ASSUME Commit(p), IsFree(mem[p].num)
      PROVE  TypeOK' /\ Moves(p, {"tests", "purge"}) /\ mem' = mem
  <2>1. /\ mem' = mem /\ at' \in [Authors -> Places] /\ at'[p] \in {"tests", "purge"}
        /\ \A q \in Authors \ {p} : at'[q] = at[q]
    BY <1>2 DEF Commit, Goes, TypeOK, Places
  <2>2. no' \in [Versions -> Nat] /\ whole' \subseteq Versions /\ draft' = None
    BY <1>2, Fields DEF Commit, TypeOK, Versions
  <2>3. cand' \in Authors \cup {None} /\ held' \subseteq Authors
    BY <1>2 DEF Commit, TypeOK
  <2>4. live' \in [ver : Versions \cup {None}, at : Nat, slug : Keys] /\ clock' \in Nat /\ excused' \subseteq Keys
    <3>1. p \in Versions /\ mem[p].slug \in Keys
      BY Fields DEF Versions
    <3>2. CASE mem[p].block
      BY <1>2, <3>2, D1Fields DEF Commit, TypeOK
    <3>3. CASE ~mem[p].block
      BY <1>2, <3>1, <3>3, GoesLiveType DEF Commit
    <3> QED
      BY <3>2, <3>3
  <2>5. TypeOK'
    BY <1>2, <2>1, <2>2, <2>3, <2>4 DEF Commit, TypeOK
  <2> QED
    BY <2>1, <2>5 DEF Moves
<1>3. CASE ~IsFree(mem[p].num)
  BY <1>1, <1>3 DEF Commit, Moves
<1> QED
  BY <1>2, <1>3 DEF Moves

\* The owner, the visitors and the cache.
Others ==
    \/ \E m \in {"off", "monitor", "block"} : LookAtTests(m)
    \/ LookAtLive \/ ReadTests \/ WriteTests \/ SoftDelete \/ RestoreArtifact
    \/ \E r \in Readers : Miss(r) \/ Fill(r)
    \/ \E s \in Keys : Expire(s)

OwnerRow == [at : {"idle", "live", "merge", "write"}, mode : {"off", "monitor", "block"},
             patch : Versions \cup {None}, cur : Versions \cup {None}, left : Nat]

LEMMA OwnerType ==
  ASSUME TypeOK
  PROVE  /\ owner.at \in {"idle", "live", "merge", "write"} /\ owner.mode \in {"off", "monitor", "block"}
         /\ owner.patch \in Versions \cup {None} /\ owner.cur \in Versions \cup {None} /\ owner.left \in Nat
  BY DEF TypeOK

LEMMA OthersEffect ==
  ASSUME TypeOK, Others
  PROVE  TypeOK' /\ at' = at /\ mem' = mem /\ draft' = draft
<1>1. ASSUME NEW m \in {"off", "monitor", "block"}, LookAtTests(m) PROVE TypeOK' /\ at' = at /\ mem' = mem /\ draft' = draft
  <2> DEFINE a == IF m = "block" /\ tests.baseline = None THEN "live" ELSE "merge"
             n == owner.left - 1
             o == owner
  <2>1. owner' = [o EXCEPT !.mode = m, !.patch = None, !.left = n, !.at = a]
    BY <1>1 DEF LookAtTests
  <2>2. n \in Nat /\ a \in {"live", "merge"}
    BY <1>1, OwnerType DEF LookAtTests
  <2>3. o \in OwnerRow
    BY DEF TypeOK, OwnerRow
  <2> HIDE DEF n, a, o
  <2>4. owner' \in OwnerRow
    BY <2>1, <2>2, <2>3 DEF OwnerRow
  <2> QED
    BY <1>1, <2>4 DEF LookAtTests, store, history, TypeOK, OwnerRow
<1>2. ASSUME LookAtLive PROVE TypeOK' /\ at' = at /\ mem' = mem /\ draft' = draft
  <2> DEFINE o == owner
  <2>1. owner' = [o EXCEPT !.at = "merge", !.patch = live.ver]
    BY <1>2 DEF LookAtLive
  <2>2. o \in OwnerRow
    BY DEF TypeOK, OwnerRow
  <2> HIDE DEF o
  <2>3. owner' \in OwnerRow
    BY <2>1, <2>2, D1Fields DEF OwnerRow
  <2> QED
    BY <1>2, <2>3 DEF LookAtLive, store, history, TypeOK, OwnerRow
<1>3. ASSUME ReadTests PROVE TypeOK' /\ at' = at /\ mem' = mem /\ draft' = draft
  <2> DEFINE c == IF owner.patch # None THEN owner.patch ELSE tests.baseline
             o == owner
  <2>1. owner' = [o EXCEPT !.at = "write", !.cur = c] /\ c \in Versions \cup {None}
    BY <1>3, OwnerType, D1Fields DEF ReadTests
  <2>2. o \in OwnerRow
    BY DEF TypeOK, OwnerRow
  <2> HIDE DEF c, o
  <2>3. owner' \in OwnerRow
    BY <2>1, <2>2 DEF OwnerRow
  <2> QED
    BY <1>3, <2>3 DEF ReadTests, store, history, TypeOK, OwnerRow
<1>4. ASSUME WriteTests PROVE TypeOK' /\ at' = at /\ mem' = mem /\ draft' = draft
  <2>1. tests' \in [mode : {"off", "monitor", "block"}, baseline : Versions \cup {None}]
    BY <1>4, OwnerType DEF WriteTests
  <2>2. owner' \in [at : {"idle", "live", "merge", "write"}, mode : {"off", "monitor", "block"},
                    patch : Versions \cup {None}, cur : Versions \cup {None}, left : Nat]
    BY <1>4 DEF WriteTests, TypeOK
  <2> QED
    BY <1>4, <2>1, <2>2 DEF WriteTests, history, TypeOK
<1>5. ASSUME SoftDelete PROVE TypeOK' /\ at' = at /\ mem' = mem /\ draft' = draft
  <2>1. live' \in [ver : Versions \cup {None}, at : Nat, slug : Keys] /\ clock' \in Nat
    BY <1>5, KeysAre DEF SoftDelete, TypeOK
  <2>2. cached' \in [Keys -> Versions \cup {None}]
    BY <1>5, KeysAre, DeletesKeyType DEF SoftDelete, TypeOK
  <2>3. excused' \subseteq Keys
    BY <1>5, KeysAre, DeletesKeyType DEF SoftDelete, TypeOK
  <2>4. revived' \subseteq Versions
    BY <1>5 DEF SoftDelete, TypeOK
  <2>5. trash' \in {"drop", "purge", "deleted"} /\ latest' = latest
    BY <1>5 DEF SoftDelete, Trash
  <2>7. latest \in Versions \cup {None}
    BY DEF TypeOK
  <2>6. page' \in Keys
    BY <1>5, KeysAre DEF SoftDelete, TypeOK
  <2> QED
    BY <1>5, <2>1, <2>2, <2>3, <2>4, <2>5, <2>6, <2>7 DEF SoftDelete, TypeOK
<1>6. ASSUME RestoreArtifact PROVE TypeOK' /\ at' = at /\ mem' = mem /\ draft' = draft
  <2>0. UNCHANGED <<scene, no, whole, cand, draft, tests, at, mem, reader, owner, crashes, passed, held>>
    BY <1>6 DEF RestoreArtifact
  <2>1. CASE Trash("deleted", "rename")
    BY <1>6, <2>0, <2>1 DEF RestoreArtifact, Trash, TypeOK
  <2>2. CASE Trash("rename", "upsert")
    BY <1>6, <2>0, <2>2, KeysAre DEF RestoreArtifact, Trash, TypeOK
  <2>3. CASE Trash("upsert", "purgeBack")
    <3>1. /\ live' = [ver |-> latest, at |-> clock + 1, slug |-> page]
          /\ clock' = clock + 1 /\ excused' = excused \cup LeftBy(page)
          /\ revived' = revived \cup {latest} /\ latest' = None /\ UNCHANGED <<page, cached>>
      BY <1>6, <2>3 DEF RestoreArtifact, Trash
    <3>2. LeftBy(page) \subseteq Keys
      BY D1Fields DEF LeftBy
    <3>3. live' \in [ver : Versions \cup {None}, at : Nat, slug : Keys]
      BY <3>1, D1Fields
    <3>4. latest \in Versions /\ trash' = "purgeBack"
      BY <2>3 DEF Trash, TypeOK
    <3>5. revived' \subseteq Versions
      BY <3>1, <3>4 DEF TypeOK
    <3> QED
      BY <2>0, <3>1, <3>2, <3>3, <3>4, <3>5 DEF TypeOK
  <2>4. CASE Trash("purgeBack", "back")
    <3>1. DeletesKey(page) /\ UNCHANGED <<page, latest, live, clock, revived>>
      BY <1>6, <2>4 DEF RestoreArtifact, Trash
    <3>2. cached' \in [Keys -> Versions \cup {None}] /\ excused' \subseteq Keys
      BY <3>1, D1Fields, DeletesKeyType
    <3> QED
      BY <2>0, <2>4, <3>1, <3>2 DEF Trash, TypeOK
  <2> QED
    BY <1>6, <2>1, <2>2, <2>3, <2>4 DEF RestoreArtifact
<1>7. ASSUME NEW r \in Readers, Miss(r) \/ Fill(r) PROVE TypeOK' /\ at' = at /\ mem' = mem /\ draft' = draft
  <2>1. CASE Miss(r)
    <3>1. reader' \in [Readers -> [slug : Keys, ver : Versions] \cup {None}]
      BY <2>1, D1Fields DEF Miss, Deployed, TypeOK
    <3> QED
      BY <2>1, <3>1 DEF Miss, store, history, TypeOK
  <2>2. CASE Fill(r)
    <3>1. reader[r].slug \in Keys /\ reader[r].ver \in Versions
      BY <2>2 DEF Fill, TypeOK
    <3>2. cached' \in [Keys -> Versions \cup {None}] /\ excused' \subseteq Keys
          /\ reader' \in [Readers -> [slug : Keys, ver : Versions] \cup {None}]
      BY <2>2, <3>1 DEF Fill, TypeOK
    <3> QED
      BY <2>2, <3>2 DEF Fill, TypeOK
  <2> QED
    BY <1>7, <2>1, <2>2
<1>8. ASSUME NEW s \in Keys, Expire(s) PROVE TypeOK' /\ at' = at /\ mem' = mem /\ draft' = draft
  <2>1. cached' \in [Keys -> Versions \cup {None}] /\ excused' \subseteq Keys
    BY <1>8 DEF Expire, TypeOK
  <2> QED
    BY <1>8, <2>1 DEF Expire, TypeOK
<1> QED
  BY <1>1, <1>2, <1>3, <1>4, <1>5, <1>6, <1>7, <1>8 DEF Others

LEMMA NextCases == Next <=> Others \/ \E p \in Authors : Person(p) \/ Handler(p) \/ Crash(p)
  BY DEF Next, Others

LEMMA TypeStep == TypeOK /\ [Next]_vars => TypeOK'
<1> SUFFICES ASSUME TypeOK, [Next]_vars PROVE TypeOK'
  OBVIOUS
<1>1. CASE UNCHANGED vars
  BY <1>1 DEF vars, store, history, TypeOK
<1>2. CASE Others
  BY <1>2, OthersEffect
<1>3. ASSUME NEW p \in Authors, Person(p) PROVE TypeOK'
  BY <1>3, LoadLiveEffect, SaveDraftEffect, ReloadEffect, KeepMineEffect, DiscardEffect, PublishEffect,
     PublishAnywayEffect, ReadHeadEffect DEF Person
<1>4. ASSUME NEW p \in Authors, Handler(p) PROVE TypeOK'
  BY <1>4, LoadDraftEffect, ChecksEffect, UpsertDraftEffect, ReadBackEffect, StaleDraftEffect,
     StaleLiveEffect, CommitEffect, CheckHeadEffect, ReadPageEffect, TargetEffect, DecideEffect, NumberEffect,
     InsertEffect, StoreAssetsEffect, PromoteEffect, ChatPlacesEffect, RollbackEffect, PurgeEffect,
     RunTestsEffect, VerdictEffect, GuardEffect, GatePromotesEffect, ClearCandidateEffect DEF Handler
<1> QED
  BY <1>1, <1>2, <1>3, <1>4, CrashEffect, NextCases

LEMMA TypeInit == Init => TypeOK
<1> SUFFICES ASSUME Init PROVE TypeOK
  OBVIOUS
<1>1. PICK sc \in Scenes : scene = sc
  BY DEF Init
<1>2. scene \in SceneType
  BY <1>1, PublishingAssumption
<1>3. scene.mode \in {"off", "monitor", "block"}
  BY <1>2 DEF SceneType
<1>4. Noted \in MemType
  BY KeysAre DEF Noted, MemType
<1>5. at \in [Authors -> Places]
  BY DEF Init, Begins, Places
<1>6. MaxConfigs \in Nat
  BY PublishingAssumption
<1>7. /\ tests \in [mode : {"off", "monitor", "block"}, baseline : Versions \cup {None}]
      /\ live \in [ver : Versions \cup {None}, at : Nat, slug : Keys]
      /\ owner \in [at : {"idle", "live", "merge", "write"}, mode : {"off", "monitor", "block"},
                    patch : Versions \cup {None}, cur : Versions \cup {None}, left : Nat]
  BY <1>3, <1>6, KeysAre DEF Init, Versions
<1>8. no \in [Versions -> Nat] /\ whole \subseteq Versions /\ reader \in [Readers -> [slug : Keys, ver : Versions] \cup {None}]
      /\ page \in Keys /\ latest \in Versions \cup {None} /\ cached \in [Keys -> Versions \cup {None}]
  BY KeysAre DEF Init, Versions
<1> QED
  BY <1>1, <1>4, <1>5, <1>7, <1>8 DEF Init, TypeOK

\* Every variable has its type: the rows, and where each invocation is and what it holds.
THEOREM TypeCorrect == Spec => []TypeOK
  BY TypeInit, TypeStep, PTL DEF Spec

-----------------------------------------------------------------------------
(* Where a request of each kind can be, and the steps that change only     *)
(* what the requests and tabs hold, or the draft.                          *)

TabPlaces == {"opening", "loading", "editing", "checkSave", "checkSaveLive", "saving", "readBack",
              "keepOrReload", "anywayOrReload", "checkPublish", "checkPublishLive", "staleDraft",
              "staleLive", "stale"}
Tail == {"purge", "tests", "verdict", "guard", "promote", "purgeGate", "clear", "done"}
PlacesOf(k) ==
    CASE k = "tab" -> TabPlaces \cup Tail \cup {"page", "decide", "number", "commit"}
      [] k = "edit" -> Tail \cup {"reading", "checkHead", "page", "number", "insert", "assets", "decide", "place"}
      [] k = "rollback" -> {"page", "rollback", "purge", "done"}
      [] OTHER -> Tail \cup {"page", "target", "number", "insert", "assets", "decide", "place"}
InPlace == \A p \in Authors : at[p] \in PlacesOf(Kind(p))

Still == UNCHANGED <<scene, no, whole, page, live, cached, reader, trash, latest, passed, held, revived, excused>>
Flow(p) ==
    \/ at[p] \in TabPlaces /\ at'[p] \in TabPlaces \cup {"page"}
    \/ at[p] = "reading" /\ at'[p] = "checkHead"
    \/ at[p] = "checkHead" /\ at'[p] \in {"page", "done"}
    \/ at[p] = "page" /\ at'[p] \in {CASE Kind(p) = "tab" -> "decide"
                                        [] Kind(p) = "restore" -> "target"
                                        [] Kind(p) = "rollback" -> "rollback"
                                        [] OTHER -> "number", "done"}
    \/ at[p] = "target" /\ at'[p] \in {"number", "done"}
    \/ at[p] = "decide" /\ at'[p] = (IF Kind(p) = "tab" THEN "number" ELSE "place")
    \/ at[p] = "number" /\ at'[p] \in {IF Kind(p) = "tab" THEN "commit" ELSE "insert", "done"}
    \/ at[p] = "tests" /\ at'[p] \in {"verdict", "done"}
    \/ at[p] = "guard" /\ at'[p] \in {"promote", "done"}

Quiet(p) ==
    \/ LoadLive(p) \/ LoadDraft(p) \/ SaveDraft(p) \/ CheckSave(p) \/ UpsertDraft(p)
    \/ ReadBack(p) \/ Reload(p) \/ KeepMine(p) \/ Discard(p) \/ Publish(p)
    \/ CheckPublish(p) \/ StaleDraft(p) \/ StaleLive(p) \/ PublishAnyway(p) \/ ReadHead(p)
    \/ CheckHead(p) \/ Target(p) \/ Decide(p) \/ Number(p) \/ RunTests(p)
    \/ Guard(p) \/ ReadPage(p)

LEMMA QuietEffect ==
  ASSUME TypeOK, NEW p \in Authors, Quiet(p)
  PROVE  /\ TypeOK' /\ Still /\ Flow(p)
         /\ at' \in [Authors -> Places] /\ \A q \in Authors \ {p} : at'[q] = at[q] /\ mem'[q] = mem[q]
<1> DEFINE G == /\ TypeOK' /\ Still /\ Flow(p)
                /\ at' \in [Authors -> Places] /\ \A q \in Authors \ {p} : at'[q] = at[q] /\ mem'[q] = mem[q]
<1>1. CASE LoadLive(p)
  <2>1. Still
    BY <1>1 DEF LoadLive, Still, store, history
  <2>2. Flow(p)
    BY <1>1, LoadLiveEffect DEF LoadLive, Moves, Flow, TabPlaces
  <2> QED
    BY <1>1, <2>1, <2>2, LoadLiveEffect DEF Moves
<1>2. CASE LoadDraft(p)
  <2>1. Still
    BY <1>2 DEF LoadDraft, Still, store, history
  <2>2. Flow(p)
    BY <1>2, LoadDraftEffect DEF LoadDraft, Moves, Flow, TabPlaces
  <2> QED
    BY <1>2, <2>1, <2>2, LoadDraftEffect DEF Moves
<1>3. CASE SaveDraft(p)
  <2>1. Still
    BY <1>3 DEF SaveDraft, Still, store, history
  <2>2. Flow(p)
    BY <1>3, SaveDraftEffect DEF SaveDraft, Moves, Flow, TabPlaces
  <2> QED
    BY <1>3, <2>1, <2>2, SaveDraftEffect DEF Moves
<1>4. CASE CheckSave(p)
  <2>1. Still
    BY <1>4 DEF CheckSave, DraftConflict, Still, store, history
  <2>2. Flow(p)
    BY <1>4, ChecksEffect DEF CheckSave, DraftConflict, Moves, Flow, TabPlaces
  <2> QED
    BY <1>4, <2>1, <2>2, ChecksEffect DEF Moves
<1>5. CASE UpsertDraft(p)
  <2>1. Still
    BY <1>5 DEF UpsertDraft, Still, store, history
  <2>2. Flow(p)
    BY <1>5, UpsertDraftEffect DEF UpsertDraft, Moves, Flow, TabPlaces, Goes, TypeOK
  <2> QED
    BY <1>5, <2>1, <2>2, UpsertDraftEffect DEF Moves
<1>6. CASE ReadBack(p)
  <2>1. Still
    BY <1>6 DEF ReadBack, Still, store, history
  <2>2. Flow(p)
    BY <1>6, ReadBackEffect DEF ReadBack, Moves, Flow, TabPlaces
  <2> QED
    BY <1>6, <2>1, <2>2, ReadBackEffect DEF Moves
<1>7. CASE Reload(p)
  <2>1. Still
    BY <1>7 DEF Reload, Still, store, history
  <2>2. Flow(p)
    BY <1>7, ReloadEffect DEF Reload, Moves, Flow, TabPlaces
  <2> QED
    BY <1>7, <2>1, <2>2, ReloadEffect DEF Moves
<1>8. CASE KeepMine(p)
  <2>1. Still
    BY <1>8 DEF KeepMine, Still, store, history
  <2>2. Flow(p)
    BY <1>8, KeepMineEffect DEF KeepMine, Moves, Flow, TabPlaces
  <2> QED
    BY <1>8, <2>1, <2>2, KeepMineEffect DEF Moves
<1>9. CASE Discard(p)
  <2>1. Still
    BY <1>9 DEF Discard, Still, store, history
  <2>2. Flow(p)
    BY <1>9, DiscardEffect DEF Discard, Moves, Flow, TabPlaces
  <2> QED
    BY <1>9, <2>1, <2>2, DiscardEffect DEF Moves
<1>10. CASE Publish(p)
  <2>1. Still
    BY <1>10 DEF Publish, AsksToPublish, Still, store, history
  <2>2. Flow(p)
    BY <1>10, PublishEffect DEF Publish, AsksToPublish, Moves, Flow, TabPlaces
  <2> QED
    BY <1>10, <2>1, <2>2, PublishEffect DEF Moves
<1>11. CASE CheckPublish(p)
  <2>1. Still
    BY <1>11 DEF CheckPublish, DraftConflict, Still, store, history
  <2>2. Flow(p)
    BY <1>11, ChecksEffect DEF CheckPublish, DraftConflict, Moves, Flow, TabPlaces
  <2> QED
    BY <1>11, <2>1, <2>2, ChecksEffect DEF Moves
<1>12. CASE StaleDraft(p)
  <2>1. Still
    BY <1>12 DEF StaleDraft, Still, store, history
  <2>2. Flow(p)
    BY <1>12, StaleDraftEffect DEF StaleDraft, Moves, Flow, TabPlaces
  <2> QED
    BY <1>12, <2>1, <2>2, StaleDraftEffect DEF Moves
<1>13. CASE StaleLive(p)
  <2>1. Still
    BY <1>13 DEF StaleLive, Still, store, history
  <2>2. Flow(p)
    BY <1>13, StaleLiveEffect DEF StaleLive, Moves, Flow, TabPlaces
  <2> QED
    BY <1>13, <2>1, <2>2, StaleLiveEffect DEF Moves
<1>14. CASE PublishAnyway(p)
  <2>1. Still
    BY <1>14 DEF PublishAnyway, AsksToPublish, Still, store, history
  <2>2. Flow(p)
    BY <1>14, PublishAnywayEffect DEF PublishAnyway, AsksToPublish, Moves, Flow, TabPlaces
  <2> QED
    BY <1>14, <2>1, <2>2, PublishAnywayEffect DEF Moves
<1>15. CASE ReadHead(p)
  <2>1. Still
    BY <1>15 DEF ReadHead, Still, store, history
  <2>2. Flow(p)
    BY <1>15, ReadHeadEffect DEF ReadHead, Moves, Flow, TabPlaces
  <2> QED
    BY <1>15, <2>1, <2>2, ReadHeadEffect DEF Moves
<1>16. CASE CheckHead(p)
  <2>1. Still
    BY <1>16 DEF CheckHead, Still, store, history
  <2>2. Flow(p)
    BY <1>16, CheckHeadEffect DEF CheckHead, Moves, Flow, TabPlaces
  <2> QED
    BY <1>16, <2>1, <2>2, CheckHeadEffect DEF Moves
<1>17. CASE Target(p)
  <2>1. Still
    BY <1>17 DEF Target, Still, store, history
  <2>2. Flow(p)
    BY <1>17, TargetEffect DEF Target, Moves, Flow, TabPlaces
  <2> QED
    BY <1>17, <2>1, <2>2, TargetEffect DEF Moves
<1>18. CASE Decide(p)
  <2>1. Still
    BY <1>18 DEF Decide, Still, store, history
  <2>2. Flow(p)
    BY <1>18, DecideEffect DEF Decide, Moves, Flow, TabPlaces, Goes, TypeOK
  <2> QED
    BY <1>18, <2>1, <2>2, DecideEffect DEF Moves
<1>19. CASE Number(p)
  <2>1. Still
    BY <1>19 DEF Number, Still, store, history
  <2>2. Flow(p)
    BY <1>19, NumberEffect DEF Number, Moves, Flow, TabPlaces
  <2> QED
    BY <1>19, <2>1, <2>2, NumberEffect DEF Moves
<1>20. CASE RunTests(p)
  <2>1. Still
    BY <1>20 DEF RunTests, Still, store, history
  <2>2. Flow(p)
    BY <1>20, RunTestsEffect DEF RunTests, Moves, Flow, TabPlaces
  <2> QED
    BY <1>20, <2>1, <2>2, RunTestsEffect DEF Moves
<1>21. CASE Guard(p)
  <2>1. Still
    BY <1>21 DEF Guard, Still, store, history
  <2>2. Flow(p)
    BY <1>21, GuardEffect DEF Guard, Moves, Flow, TabPlaces
  <2> QED
    BY <1>21, <2>1, <2>2, GuardEffect DEF Moves
<1>22. CASE ReadPage(p)
  <2>1. Still
    BY <1>22 DEF ReadPage, Still, store, history
  <2>2. Flow(p)
    BY <1>22, ReadPageEffect DEF ReadPage, Moves, Flow
  <2> QED
    BY <1>22, <2>1, <2>2, ReadPageEffect DEF Moves
<1> QED
  BY <1>1, <1>2, <1>3, <1>4, <1>5, <1>6, <1>7, <1>8, <1>9, <1>10, <1>11, <1>12, <1>13, <1>14, <1>15, <1>16, <1>17, <1>18, <1>19, <1>20, <1>21, <1>22 DEF Quiet

\* The other steps of requests.
Writes(p) ==
    \/ Commit(p) \/ Insert(p) \/ StoreAssets(p) \/ Promote(p) \/ ChatPlaces(p) \/ Rollback(p)
    \/ Purge(p) \/ Verdict(p) \/ GatePromotes(p) \/ ClearCandidate(p) \/ Crash(p)

LEMMA NextKinds ==
  ASSUME Next
  PROVE  Others \/ \E p \in Authors : Quiet(p) \/ Writes(p)
  BY NextCases DEF Person, Handler, Quiet, Writes

Order(p) ==
    \/ at[p] = "commit" /\ at'[p] \in {"tests", "purge", "editing"}
    \/ at[p] = "insert" /\ at'[p] \in {"decide", "assets"}
    \/ at[p] = "assets" /\ at'[p] \in {"place", "decide"}
    \/ at[p] = "place" /\ at'[p] \in {"tests", "purge"}
    \/ at[p] = "rollback" /\ at'[p] = "purge"
    \/ at[p] = "purge" /\ Kind(p) # "rollback" /\ at'[p] = "tests"
    \/ at[p] = "purgeGate" /\ at'[p] = "clear"
    \/ at[p] = "verdict" /\ at'[p] = "guard"
    \/ at[p] = "promote" /\ at'[p] = "purgeGate"
    \/ at'[p] = "done"

LEMMA WritesEffect ==
  ASSUME TypeOK, NEW p \in Authors, Writes(p)
  PROVE  TypeOK' /\ Moves(p, Places) /\ scene' = scene /\ Order(p)
<1>1. CASE Commit(p)
  <2>1. Moves(p, Places) /\ TypeOK'
    BY <1>1, CommitEffect DEF Moves, TypeOK
  <2>2. scene' = scene
    BY <1>1 DEF Commit, store
  <2>3. Order(p)
    BY <1>1, CommitEffect DEF Commit, Moves, Order
  <2> QED
    BY <2>1, <2>2, <2>3
<1>2. CASE Insert(p)
  <2>1. Moves(p, Places) /\ TypeOK'
    BY <1>2, InsertEffect DEF Moves, TypeOK
  <2>2. scene' = scene
    BY <1>2 DEF Insert, store
  <2>3. Order(p)
    BY <1>2, InsertEffect DEF Insert, Moves, Order, Ends, Goes, TypeOK
  <2> QED
    BY <2>1, <2>2, <2>3
<1>3. CASE StoreAssets(p)
  <2>1. Moves(p, Places) /\ TypeOK'
    BY <1>3, StoreAssetsEffect DEF Moves, TypeOK
  <2>2. scene' = scene
    BY <1>3 DEF StoreAssets, store
  <2>3. Order(p)
    BY <1>3, StoreAssetsEffect DEF StoreAssets, Moves, Order, Ends, Goes, TypeOK
  <2> QED
    BY <2>1, <2>2, <2>3
<1>4. CASE Promote(p)
  <2>1. Moves(p, Places) /\ TypeOK'
    BY <1>4, PromoteEffect DEF Moves, TypeOK
  <2>2. scene' = scene
    BY <1>4 DEF Promote, store
  <2>3. Order(p)
    BY <1>4, PromoteEffect DEF Promote, Moves, Order, Ends, Goes, TypeOK
  <2> QED
    BY <2>1, <2>2, <2>3
<1>5. CASE ChatPlaces(p)
  <2>1. Moves(p, Places) /\ TypeOK'
    BY <1>5, ChatPlacesEffect DEF Moves, TypeOK
  <2>2. scene' = scene
    BY <1>5 DEF ChatPlaces, store
  <2>3. Order(p)
    BY <1>5, ChatPlacesEffect DEF ChatPlaces, Moves, Order, Ends, Goes, TypeOK
  <2> QED
    BY <2>1, <2>2, <2>3
<1>6. CASE Rollback(p)
  <2>1. Moves(p, Places) /\ TypeOK'
    BY <1>6, RollbackEffect DEF Moves, TypeOK
  <2>2. scene' = scene
    BY <1>6 DEF Rollback, store
  <2>3. Order(p)
    BY <1>6, RollbackEffect DEF Rollback, Moves, Order, Ends, Goes, TypeOK
  <2> QED
    BY <2>1, <2>2, <2>3
<1>7. CASE Purge(p)
  <2>1. Moves(p, Places) /\ TypeOK'
    BY <1>7, PurgeEffect DEF Moves, TypeOK
  <2>2. scene' = scene
    BY <1>7 DEF Purge, store
  <2>3. Order(p)
    BY <1>7, PurgeEffect DEF Purge, Moves, Order, Ends, Goes, TypeOK
  <2> QED
    BY <2>1, <2>2, <2>3
<1>8. CASE Verdict(p)
  <2>1. Moves(p, Places) /\ TypeOK'
    BY <1>8, VerdictEffect DEF Moves, TypeOK
  <2>2. scene' = scene
    BY <1>8 DEF Verdict, store
  <2>3. Order(p)
    BY <1>8, VerdictEffect DEF Verdict, Moves, Order, Ends, Goes, TypeOK
  <2> QED
    BY <2>1, <2>2, <2>3
<1>9. CASE GatePromotes(p)
  <2>1. Moves(p, Places) /\ TypeOK'
    BY <1>9, GatePromotesEffect DEF Moves, TypeOK
  <2>2. scene' = scene
    BY <1>9 DEF GatePromotes, store
  <2>3. Order(p)
    BY <1>9, GatePromotesEffect DEF GatePromotes, Moves, Order, Ends, Goes, TypeOK
  <2> QED
    BY <2>1, <2>2, <2>3
<1>10. CASE ClearCandidate(p)
  <2>1. Moves(p, Places) /\ TypeOK'
    BY <1>10, ClearCandidateEffect DEF Moves, TypeOK
  <2>2. scene' = scene
    BY <1>10 DEF ClearCandidate, store
  <2>3. Order(p)
    BY <1>10, ClearCandidateEffect DEF ClearCandidate, Moves, Order, Ends, Goes, TypeOK
  <2> QED
    BY <2>1, <2>2, <2>3
<1>11. CASE Crash(p)
  <2>1. Moves(p, Places) /\ TypeOK'
    BY <1>11, CrashEffect DEF Moves, TypeOK
  <2>2. scene' = scene
    BY <1>11 DEF Crash, store
  <2>3. Order(p)
    BY <1>11, CrashEffect DEF Crash, Moves, Order, Ends, Goes, TypeOK
  <2> QED
    BY <2>1, <2>2, <2>3
<1> QED
  BY <1>1, <1>2, <1>3, <1>4, <1>5, <1>6, <1>7, <1>8, <1>9, <1>10, <1>11 DEF Writes

LEMMA SceneStays == [Next]_vars /\ TypeOK => scene' = scene
<1> SUFFICES ASSUME TypeOK, [Next]_vars PROVE scene' = scene
  OBVIOUS
<1>1. CASE UNCHANGED vars
  BY <1>1 DEF vars
<1>2. CASE Others
  BY <1>2 DEF Others, LookAtTests, LookAtLive, ReadTests, WriteTests, SoftDelete, RestoreArtifact, Miss, Fill, Expire
<1>3. ASSUME NEW p \in Authors, Quiet(p) \/ Writes(p) PROVE scene' = scene
  BY <1>3, QuietEffect, WritesEffect DEF Still
<1> QED
  BY <1>1, <1>2, <1>3, NextKinds

LEMMA PlaceStep == TypeOK /\ InPlace /\ [Next]_vars => InPlace'
<1> SUFFICES ASSUME TypeOK, InPlace, [Next]_vars PROVE InPlace'
  OBVIOUS
<1>a. scene' = scene
  BY SceneStays
<1> SUFFICES ASSUME NEW q \in Authors PROVE at'[q] \in PlacesOf(Kind(q))
  BY <1>a DEF InPlace, Kind
<1>0. at[q] \in PlacesOf(Kind(q))
  BY DEF InPlace
<1>1. CASE UNCHANGED vars
  BY <1>0, <1>1 DEF vars
<1>2. CASE Others
  BY <1>0, <1>2, OthersEffect
<1>3. ASSUME NEW p \in Authors, Quiet(p) PROVE at'[q] \in PlacesOf(Kind(q))
  <2>1. CASE p # q
    BY <1>0, <1>3, <2>1, QuietEffect
  <2>2. CASE p = q
    BY <1>0, <1>3, <2>2, QuietEffect DEF Flow, PlacesOf, TabPlaces, Tail
  <2> QED
    BY <2>1, <2>2
<1>4. ASSUME NEW p \in Authors, Writes(p) PROVE at'[q] \in PlacesOf(Kind(q))
  <2>1. CASE p # q
    BY <1>0, <1>4, <2>1, WritesEffect DEF Moves
  <2>2. CASE p = q
    BY <1>0, <1>4, <2>2, WritesEffect DEF Order, PlacesOf, TabPlaces, Tail
  <2> QED
    BY <2>1, <2>2
<1> QED
  BY <1>1, <1>2, <1>3, <1>4, NextKinds

LEMMA PlaceInit == Init => InPlace
  BY DEF Init, InPlace, Begins, PlacesOf, TabPlaces, Tail, Kind

-----------------------------------------------------------------------------
(* The cache.                                                              *)

KeyIsCurrent(s) == cached[s] \in {None, Deployment(s)} \/ AboutToPurge(s) \/ s \in excused
Purges(p, s) == at[p] \in {"purge", "purgeGate"} /\ mem[p].slug = s

\* A key stays current if nothing happens to it, and whoever is about to purge it still is.
LEMMA KeyStays ==
  ASSUME NEW s \in Keys, KeyIsCurrent(s), cached'[s] = cached[s], Deployment(s)' = Deployment(s) \/ s \in excused',
         s \in excused => s \in excused', AboutToPurge(s) => AboutToPurge(s)' \/ s \in excused'
  PROVE  KeyIsCurrent(s)'
  BY DEF KeyIsCurrent

LEMMA OthersPurge ==
  ASSUME TypeOK, NEW p \in Authors, NEW s \in Keys, trash' = trash, page' = page,
         \A q \in Authors \ {p} : at'[q] = at[q] /\ mem'[q] = mem[q],
         Purges(p, s) => s \in excused'
  PROVE  AboutToPurge(s) => AboutToPurge(s)' \/ s \in excused'
<1> SUFFICES ASSUME AboutToPurge(s), s \notin excused' PROVE AboutToPurge(s)'
  OBVIOUS
<1>1. CASE \E q \in Authors : Purges(q, s)
  <2>1. PICK q \in Authors : Purges(q, s)
    BY <1>1
  <2>2. q # p
    BY <2>1
  <2> QED
    BY <2>1, <2>2 DEF Purges, AboutToPurge
<1>2. CASE ~\E q \in Authors : Purges(q, s)
  BY <1>2 DEF Purges, AboutToPurge
<1> QED
  BY <1>1, <1>2

\* Going live under a slug concerns its key, and the key of the row that was there.
LEMMA OtherKeys ==
  ASSUME TypeOK, NEW v \in Versions, NEW s \in Keys, NEW t \in Keys, s # t, GoesLive(v, t)
  PROVE  (Deployment(s)' = Deployment(s) \/ s \in excused') /\ excused \subseteq excused'
<1>1. excused' = excused \cup LeftBy(t)
  BY DEF GoesLive
<1>2. CASE live.ver = None
  <2>1. live' = [ver |-> v, at |-> clock + 1, slug |-> t]
    BY <1>2 DEF GoesLive
  <2> QED
    BY <1>1, <1>2, <2>1 DEF Deployment
<1>3. CASE live.ver # None
  <2>1. live' = [ver |-> v, at |-> clock + 1, slug |-> live.slug]
    BY <1>3 DEF GoesLive
  <2> QED
    BY <1>1, <1>3, <2>1 DEF Deployment, LeftBy
<1> QED
  BY <1>2, <1>3

LEMMA GoesLiveKeepsKeys ==
  ASSUME TypeOK, NEW p \in Authors, NEW s \in Keys, NEW v \in Versions, KeyIsCurrent(s),
         GoesLive(v, mem[p].slug), at'[p] \in {"purge", "purgeGate"}, ~Purges(p, s),
         UNCHANGED <<page, cached, mem, trash>>, \A q \in Authors \ {p} : at'[q] = at[q]
  PROVE  KeyIsCurrent(s)'
<1>1. CASE mem[p].slug = s
  BY <1>1 DEF KeyIsCurrent, AboutToPurge
<1>2. CASE mem[p].slug # s
  <2>1. mem[p].slug \in Keys
    BY Fields
  <2>2. (Deployment(s)' = Deployment(s) \/ s \in excused') /\ excused \subseteq excused'
    BY <1>2, <2>1, OtherKeys
  <2>3. AboutToPurge(s) => AboutToPurge(s)' \/ s \in excused'
    BY OthersPurge
  <2> QED
    BY <2>2, <2>3, KeyStays
<1> QED
  BY <1>1, <1>2

LEMMA DeletedKey ==
  ASSUME TypeOK, NEW s \in Keys, NEW t \in Keys, DeletesKey(t)
  PROVE  /\ s = t => cached'[s] = None \/ s \in excused'
         /\ s # t => cached'[s] = cached[s] /\ (s \in excused => s \in excused')
  BY DEF DeletesKey, TypeOK

LEMMA CacheWrites ==
  ASSUME TypeOK, NEW p \in Authors, Writes(p), NEW s \in Keys, KeyIsCurrent(s)
  PROVE  KeyIsCurrent(s)'
<1>0. /\ \A q \in Authors \ {p} : at'[q] = at[q] /\ mem'[q] = mem[q]
      /\ p \in Versions /\ mem[p].slug \in Keys
  BY WritesEffect, Fields DEF Moves, Versions
\* A step that leaves D1's deployment and the keys alone.
<1>1. ASSUME UNCHANGED <<page, live, cached, trash>>, excused \subseteq excused', Purges(p, s) => s \in excused'
      PROVE  KeyIsCurrent(s)'
  <2>1. AboutToPurge(s) => AboutToPurge(s)' \/ s \in excused'
    BY <1>0, <1>1, OthersPurge
  <2>2. Deployment(s)' = Deployment(s)
    BY <1>1 DEF Deployment
  <2> QED
    BY <1>1, <2>1, <2>2, KeyStays
<1>2. CASE Commit(p)
  <2>1. at[p] = "commit" /\ UNCHANGED <<page, cached, trash>>
    BY <1>2 DEF Commit
  <2>2. CASE GoesLive(p, mem[p].slug) /\ Goes(p, "purge") /\ mem' = mem
    BY <1>0, <2>1, <2>2, GoesLiveKeepsKeys DEF Goes, TypeOK, Purges
  <2>3. CASE live' = live /\ excused' = excused
    BY <1>1, <2>1, <2>3 DEF Purges
  <2> QED
    BY <1>2, <2>2, <2>3 DEF Commit
<1>3. CASE Insert(p) \/ StoreAssets(p) \/ ClearCandidate(p) \/ Verdict(p)
  BY <1>1, <1>3 DEF Insert, StoreAssets, ClearCandidate, Verdict, store, history, Purges
<1>4. CASE Promote(p)
  <2>1. at[p] = "place" /\ UNCHANGED <<page, cached, trash, mem>>
    BY <1>4 DEF Promote
  <2>2. CASE GoesLive(p, mem[p].slug) /\ Goes(p, "purge")
    BY <1>0, <2>1, <2>2, GoesLiveKeepsKeys DEF Goes, TypeOK, Purges
  <2>3. CASE live' = live /\ excused' = excused
    BY <1>1, <2>1, <2>3 DEF Purges
  <2> QED
    BY <1>4, <2>2, <2>3 DEF Promote
<1>5. CASE ChatPlaces(p)
  <2>1. at[p] = "place" /\ UNCHANGED <<page, cached, trash>>
    BY <1>5 DEF ChatPlaces
  <2>2. CASE live.ver = None
    BY <1>1, <1>5, <2>1, <2>2 DEF ChatPlaces, Purges
  <2>3. CASE live.ver # None
    <3>1. live'.slug = live.slug /\ excused' = excused \cup {live.slug}
      BY <1>5, <2>3, D1Fields DEF ChatPlaces, TypeOK
    <3>2. CASE s = live.slug
      BY <3>1, <3>2 DEF KeyIsCurrent
    <3>3. CASE s # live.slug
      <4>1. Deployment(s) = None /\ Deployment(s)' = None
        BY <3>1, <3>3 DEF Deployment
      <4>2. AboutToPurge(s) => AboutToPurge(s)' \/ s \in excused'
        BY <1>0, <2>1, OthersPurge DEF Purges
      <4> QED
        BY <2>1, <3>1, <4>1, <4>2, KeyStays
    <3> QED
      BY <3>2, <3>3
  <2> QED
    BY <2>2, <2>3
<1>6. CASE Rollback(p)
  <2>1. at[p] = "rollback" /\ UNCHANGED <<page, cached, trash>>
    BY <1>6 DEF Rollback
  <2>2. ASSUME NEW v \in Versions, GoesLive(v, mem[p].slug), Goes(p, "purge"), mem' = mem PROVE KeyIsCurrent(s)'
    BY <1>0, <2>1, <2>2, GoesLiveKeepsKeys DEF Goes, TypeOK, Purges
  <2>3. CASE live' = live /\ excused' = excused
    BY <1>1, <2>1, <2>3 DEF Purges
  <2> QED
    BY <1>6, <2>2, <2>3 DEF Rollback
<1>7. CASE Purge(p)
  <2>1. DeletesKey(mem[p].slug) /\ UNCHANGED <<page, live, trash>>
    BY <1>7 DEF Purge
  <2>2. CASE s = mem[p].slug
    BY <1>0, <2>1, <2>2, DeletedKey DEF KeyIsCurrent
  <2>3. CASE s # mem[p].slug
    <3>1. cached'[s] = cached[s] /\ (s \in excused => s \in excused')
      BY <1>0, <2>1, <2>3, DeletedKey
    <3>2. AboutToPurge(s) => AboutToPurge(s)' \/ s \in excused'
      BY <1>0, <2>1, <2>3, OthersPurge DEF Purges
    <3>3. Deployment(s)' = Deployment(s)
      BY <2>1 DEF Deployment
    <3> QED
      BY <3>1, <3>2, <3>3, KeyStays
  <2> QED
    BY <2>2, <2>3
<1>8. CASE GatePromotes(p)
  BY <1>0, <1>8, GoesLiveKeepsKeys DEF GatePromotes, Goes, TypeOK, Purges
<1>9. CASE Crash(p)
  BY <1>1, <1>9 DEF Crash, store, Purges
<1> QED
  BY <1>2, <1>3, <1>4, <1>5, <1>6, <1>7, <1>8, <1>9 DEF Writes

\* Until it is deleted the page is live under the slug that its deletion purges.
FirstRow == trash \in {"none", "drop"} => live.ver # None /\ live.slug = FirstSlug

LEMMA FirstRowStep == TypeOK /\ FirstRow /\ [Next]_vars => FirstRow'
<1> SUFFICES ASSUME TypeOK, FirstRow, [Next]_vars PROVE FirstRow'
  OBVIOUS
<1>1. CASE UNCHANGED <<trash, live>>
  BY <1>1 DEF FirstRow
<1>2. ASSUME trash' = trash, NEW v \in Versions, NEW s \in Keys, GoesLive(v, s) PROVE FirstRow'
  BY <1>2, PublishingAssumption DEF FirstRow, GoesLive
<1>3. CASE UNCHANGED vars
  BY <1>1, <1>3 DEF vars, store
<1>4. ASSUME NEW p \in Authors, Quiet(p) PROVE FirstRow'
  BY <1>1, <1>4, QuietEffect DEF Still
<1>5. ASSUME NEW p \in Authors, Writes(p) PROVE FirstRow'
  <2>0. p \in Versions /\ mem[p].slug \in Keys
    BY Fields DEF Versions
  <2>1. CASE Commit(p) \/ Promote(p) \/ GatePromotes(p)
    BY <1>1, <1>2, <2>0, <2>1 DEF Commit, Promote, GatePromotes
  <2>2. CASE Rollback(p)
    BY <1>1, <1>2, <2>0, <2>2 DEF Rollback
  <2>3. CASE ChatPlaces(p)
    <3>1. CASE live.ver = None
      BY <1>1, <2>3, <3>1 DEF ChatPlaces
    <3>2. CASE live.ver # None
      <4>1. live'.ver = p /\ live'.slug = live.slug /\ trash' = trash
        BY <2>3, <3>2 DEF ChatPlaces, TypeOK
      <4> QED
        BY <2>0, <4>1, PublishingAssumption DEF FirstRow
    <3> QED
      BY <3>1, <3>2
  <2>4. CASE Insert(p) \/ StoreAssets(p) \/ Purge(p) \/ Verdict(p) \/ ClearCandidate(p) \/ Crash(p)
    BY <1>1, <2>4 DEF Insert, StoreAssets, Purge, Verdict, ClearCandidate, Crash, store
  <2> QED
    BY <1>5, <2>1, <2>2, <2>3, <2>4 DEF Writes
<1>6. CASE Others
  <2>1. CASE SoftDelete
    BY <2>1 DEF SoftDelete, Trash, FirstRow
  <2>2. CASE RestoreArtifact
    BY <2>2 DEF RestoreArtifact, Trash, FirstRow
  <2>3. CASE ~(SoftDelete \/ RestoreArtifact)
    BY <1>1, <1>6, <2>3 DEF Others, LookAtTests, LookAtLive, ReadTests, WriteTests, Miss, Fill, Expire, store
  <2> QED
    BY <2>1, <2>2, <2>3
<1> QED
  BY <1>3, <1>4, <1>5, <1>6, NextKinds

LEMMA CacheOwner ==
  ASSUME TypeOK, FirstRow, SoftDelete \/ RestoreArtifact, NEW s \in Keys, KeyIsCurrent(s)
  PROVE  KeyIsCurrent(s)'
<1>0. at' = at /\ mem' = mem
  BY DEF SoftDelete, RestoreArtifact
<1>1. ASSUME trash \notin {"purge", "purgeBack"}, cached' = cached, excused \subseteq excused',
             Deployment(s)' = Deployment(s) \/ s \in excused'
      PROVE  KeyIsCurrent(s)'
  <2>1. AboutToPurge(s) => AboutToPurge(s)'
    BY <1>0, <1>1 DEF AboutToPurge
  <2> QED
    BY <1>1, <2>1, KeyStays
<1>2. ASSUME NEW t \in Keys, DeletesKey(t), live' = live,
             s # t => trash \notin {"purge", "purgeBack"} \/ (trash = "purge" /\ t = FirstSlug)
                                                         \/ (trash = "purgeBack" /\ t = page)
      PROVE  KeyIsCurrent(s)'
  <2>1. CASE s = t
    BY <1>2, <2>1, DeletedKey DEF KeyIsCurrent
  <2>2. CASE s # t
    <3>1. AboutToPurge(s) => AboutToPurge(s)'
      BY <1>0, <1>2, <2>2 DEF AboutToPurge
    <3>2. Deployment(s)' = Deployment(s)
      BY <1>2 DEF Deployment
    <3> QED
      BY <1>2, <2>2, <3>1, <3>2, DeletedKey, KeyStays
  <2> QED
    BY <2>1, <2>2
<1>3. CASE SoftDelete /\ Trash("none", "drop")
  BY <1>1, <1>3 DEF SoftDelete, Trash, Deployment
<1>4. CASE SoftDelete /\ Trash("drop", "purge")
  <2>1. CASE s = FirstSlug
    BY <1>4, <2>1 DEF Trash, KeyIsCurrent, AboutToPurge
  <2>2. CASE s # FirstSlug
    <3>1. live'.ver = None /\ live.slug = FirstSlug /\ trash = "drop" /\ cached' = cached /\ excused' = excused
      BY <1>4 DEF SoftDelete, Trash, FirstRow
    <3> QED
      BY <1>1, <2>2, <3>1 DEF Deployment
  <2> QED
    BY <2>1, <2>2
<1>5. CASE SoftDelete /\ Trash("purge", "deleted")
  <2>1. DeletesKey(FirstSlug) /\ live' = live /\ trash = "purge"
    BY <1>5 DEF SoftDelete, Trash
  <2> QED
    BY <1>2, <2>1, KeysAre
<1>6. CASE RestoreArtifact /\ (Trash("deleted", "rename") \/ Trash("rename", "upsert"))
  BY <1>1, <1>6 DEF RestoreArtifact, Trash, Deployment
<1>7. CASE RestoreArtifact /\ Trash("upsert", "purgeBack")
  <2>1. /\ trash = "upsert" /\ trash' = "purgeBack" /\ page' = page /\ cached' = cached
        /\ live' = [ver |-> latest, at |-> clock + 1, slug |-> page] /\ excused' = excused \cup LeftBy(page)
    BY <1>7 DEF RestoreArtifact, Trash
  <2>2. CASE s = page
    BY <2>1, <2>2 DEF KeyIsCurrent, AboutToPurge
  <2>3. CASE s # page
    <3>1. Deployment(s)' = None
      BY <2>1, <2>3 DEF Deployment
    <3>2. Deployment(s) = None \/ s \in LeftBy(page)
      BY <2>3 DEF Deployment, LeftBy
    <3> QED
      BY <1>1, <2>1, <3>1, <3>2
  <2> QED
    BY <2>2, <2>3
<1>8. CASE RestoreArtifact /\ Trash("purgeBack", "back")
  <2>1. DeletesKey(page) /\ live' = live /\ trash = "purgeBack" /\ page \in Keys
    BY <1>8, D1Fields DEF RestoreArtifact, Trash
  <2> QED
    BY <1>2, <2>1
<1> QED
  BY <1>3, <1>4, <1>5, <1>6, <1>7, <1>8 DEF SoftDelete, RestoreArtifact

LEMMA CacheStep == TypeOK /\ FirstRow /\ CacheIsCurrent /\ [Next]_vars => CacheIsCurrent'
<1> SUFFICES ASSUME TypeOK, FirstRow, CacheIsCurrent, [Next]_vars, NEW s \in Keys PROVE KeyIsCurrent(s)'
  BY DEF CacheIsCurrent, KeyIsCurrent
<1>0. KeyIsCurrent(s)
  BY DEF CacheIsCurrent, KeyIsCurrent
<1>1. ASSUME UNCHANGED <<page, live, cached, trash, at, mem, excused>> PROVE KeyIsCurrent(s)'
  BY <1>0, <1>1 DEF KeyIsCurrent, AboutToPurge, Deployment
<1>2. CASE UNCHANGED vars
  BY <1>1, <1>2 DEF vars, store, history
<1>3. ASSUME NEW p \in Authors, Quiet(p) PROVE KeyIsCurrent(s)'
  <2>1. /\ UNCHANGED <<page, live, cached, trash, excused>> /\ ~Purges(p, s)
        /\ \A q \in Authors \ {p} : at'[q] = at[q] /\ mem'[q] = mem[q]
    BY <1>3, QuietEffect DEF Still, Flow, TabPlaces, Purges
  <2>2. AboutToPurge(s) => AboutToPurge(s)' \/ s \in excused'
    BY <2>1, OthersPurge
  <2> QED
    BY <1>0, <2>1, <2>2, KeyStays DEF Deployment
<1>4. ASSUME NEW p \in Authors, Writes(p) PROVE KeyIsCurrent(s)'
  BY <1>0, <1>4, CacheWrites
<1>5. CASE Others
  <2>0. at' = at /\ mem' = mem
    BY <1>5, OthersEffect
  <2>1. CASE SoftDelete \/ RestoreArtifact
    BY <1>0, <2>1, CacheOwner
  <2>2. ASSUME NEW r \in Readers, Fill(r) PROVE KeyIsCurrent(s)'
    <3>1. reader[r].slug \in Keys
      BY <2>2 DEF Fill, TypeOK
    <3>2. UNCHANGED <<page, live, trash>>
      BY <2>2 DEF Fill
    <3>3. CASE s = reader[r].slug
      <4>1. cached'[s] = reader[r].ver
        BY <2>2, <3>1, <3>3 DEF Fill, TypeOK
      <4>2. Deployment(s)' = Deployment(s)
        BY <3>2 DEF Deployment
      <4> QED
        BY <2>2, <3>3, <4>1, <4>2 DEF Fill, KeyIsCurrent
    <3>4. CASE s # reader[r].slug
      <4>1. cached'[s] = cached[s] /\ (s \in excused => s \in excused')
        BY <2>2, <3>4 DEF Fill, TypeOK
      <4> QED
        BY <1>0, <2>0, <3>2, <4>1, KeyStays DEF Deployment, AboutToPurge
    <3> QED
      BY <3>3, <3>4
  <2>3. ASSUME NEW t \in Keys, Expire(t) PROVE KeyIsCurrent(s)'
    <3>1. UNCHANGED <<page, live, trash>>
      BY <2>3 DEF Expire
    <3>2. CASE s = t
      BY <2>3, <3>2 DEF Expire, KeyIsCurrent, TypeOK
    <3>3. CASE s # t
      <4>1. cached'[s] = cached[s] /\ (s \in excused => s \in excused')
        BY <2>3, <3>3 DEF Expire, TypeOK
      <4> QED
        BY <1>0, <2>0, <3>1, <4>1, KeyStays DEF Deployment, AboutToPurge
    <3> QED
      BY <3>2, <3>3
  <2>4. ASSUME NEW r \in Readers, Miss(r) PROVE KeyIsCurrent(s)'
    BY <1>1, <2>4 DEF Miss, store, history
  <2>5. CASE LookAtLive \/ ReadTests \/ WriteTests \/ \E m \in {"off", "monitor", "block"} : LookAtTests(m)
    BY <1>1, <2>5 DEF LookAtTests, LookAtLive, ReadTests, WriteTests, store, history
  <2> QED
    BY <1>5, <2>1, <2>2, <2>3, <2>4, <2>5 DEF Others
<1> QED
  BY <1>2, <1>3, <1>4, <1>5, NextKinds

\* An entry that is not what D1 has under its slug is about to be purged under that very
\* key, or one of the ways CacheIsCurrent names made it: a purge of another slug counts
\* only for the key the production row had, which the step leaves behind.
THEOREM CacheStaysCurrent == Spec => []CacheIsCurrent
<1>1. Init => CacheIsCurrent
  BY DEF Init, CacheIsCurrent
<1>2. Init => FirstRow
  BY PublishingAssumption DEF Init, FirstRow, Versions
<1> QED
  BY <1>1, <1>2, TypeInit, TypeStep, FirstRowStep, CacheStep, PTL DEF Spec

-----------------------------------------------------------------------------
(* What visitors can get.                                                  *)

Gets(v) == \/ v = live.ver
           \/ \E s \in Keys : v = cached[s]
           \/ \E r \in Readers : reader[r] # None /\ v = reader[r].ver

LEMMA DeletedGets ==
  ASSUME TypeOK, NEW t \in Keys, DeletesKey(t), NEW s \in Keys
  PROVE  cached'[s] \in {cached[s], None}
  BY DEF DeletesKey, TypeOK

\* A step serves what was served, what it puts live, and what it reads from there.
LEMMA ServedStep ==
  ASSUME TypeOK, [Next]_vars, NEW v, Gets(v)'
  PROVE  \/ Gets(v) \/ v = None
         \/ \E p \in Authors : /\ v = p
                               /\ \/ Commit(p) /\ ~mem[p].block /\ IsFree(mem[p].num)
                                  \/ Promote(p) /\ ~mem[p].block
                                  \/ ChatPlaces(p)
                                  \/ GatePromotes(p)
         \/ v \in revived'
<1>1. CASE UNCHANGED vars
  BY <1>1 DEF vars, store, Gets
<1>2. CASE Others
  <2>1. ASSUME NEW m \in {"off", "monitor", "block"}, LookAtTests(m) PROVE Gets(v)
    BY <2>1 DEF LookAtTests, store, Gets
  <2>2. CASE LookAtLive \/ ReadTests \/ WriteTests
    BY <2>2 DEF LookAtLive, ReadTests, WriteTests, store, Gets
  <2>3. CASE SoftDelete
    BY <2>3, KeysAre, DeletedGets DEF SoftDelete, Gets
  <2>4. CASE RestoreArtifact
    <3>1. CASE Trash("upsert", "purgeBack")
      <4>1. live'.ver = latest /\ latest \in revived' /\ cached' = cached /\ reader' = reader
        BY <2>4, <3>1 DEF RestoreArtifact, Trash
      <4> QED
        BY <4>1 DEF Gets
    <3>2. CASE Trash("purgeBack", "back")
      <4>1. DeletesKey(page) /\ page \in Keys /\ live' = live /\ reader' = reader
        BY <2>4, <3>2, D1Fields DEF RestoreArtifact, Trash
      <4> QED
        BY <4>1, DeletedGets DEF Gets
    <3>3. CASE ~Trash("upsert", "purgeBack") /\ ~Trash("purgeBack", "back")
      BY <2>4, <3>3 DEF RestoreArtifact, Gets
    <3> QED
      BY <3>1, <3>2, <3>3
  <2>5. ASSUME NEW r \in Readers, Miss(r) \/ Fill(r) PROVE Gets(v) \/ v = None
    <3>1. CASE Miss(r)
      <4>1. /\ reader' = [reader EXCEPT ![r] = [slug |-> live.slug, ver |-> live.ver]]
            /\ live' = live /\ cached' = cached
        BY <3>1 DEF Miss, Deployed, store
      <4>2. \A q \in Readers : q = r \/ reader'[q] = reader[q]
        BY <4>1
      <4>3. reader'[r].ver = live.ver
        BY <4>1 DEF TypeOK
      <4> QED
        BY <4>1, <4>2, <4>3 DEF Gets
    <3>2. CASE Fill(r)
      <4>1. /\ reader' = [reader EXCEPT ![r] = None] /\ reader[r] # None /\ live' = live
            /\ cached' = [cached EXCEPT ![reader[r].slug] = reader[r].ver]
        BY <3>2 DEF Fill
      <4>2. \A q \in Readers : q # r => reader'[q] = reader[q]
        BY <4>1
      <4>3. \A s \in Keys : cached'[s] = cached[s] \/ cached'[s] = reader[r].ver
        BY <4>1 DEF TypeOK
      <4>4. reader'[r] = None
        BY <4>1 DEF TypeOK
      <4> QED
        BY <4>1, <4>2, <4>3, <4>4 DEF Gets
    <3> QED
      BY <2>5, <3>1, <3>2
  <2>6. ASSUME NEW s \in Keys, Expire(s) PROVE Gets(v) \/ v = None
    BY <2>6 DEF Expire, Gets, TypeOK
  <2> QED
    BY <1>2, <2>1, <2>2, <2>3, <2>4, <2>5, <2>6 DEF Others
<1>3. ASSUME NEW p \in Authors, Quiet(p) PROVE Gets(v)
  BY <1>3, QuietEffect DEF Still, Gets
<1>4. ASSUME NEW p \in Authors, Writes(p)
      PROVE  \/ Gets(v) \/ v = None
             \/ /\ v = p
                /\ \/ Commit(p) /\ ~mem[p].block /\ IsFree(mem[p].num)
                   \/ Promote(p) /\ ~mem[p].block
                   \/ ChatPlaces(p)
                   \/ GatePromotes(p)
             \/ v \in revived'
  <2>1. CASE Commit(p)
    BY <2>1 DEF Commit, GoesLive, Gets
  <2>2. CASE Insert(p) \/ StoreAssets(p) \/ ClearCandidate(p) \/ Verdict(p) \/ Crash(p)
    BY <2>2 DEF Insert, StoreAssets, ClearCandidate, Verdict, Crash, store, history, Gets
  <2>3. CASE Promote(p)
    BY <2>3 DEF Promote, GoesLive, Gets
  <2>4. CASE ChatPlaces(p)
    BY <2>4, D1Fields DEF ChatPlaces, Gets, TypeOK
  <2>5. CASE Rollback(p)
    BY <2>5 DEF Rollback, GoesLive, Gets
  <2>6. CASE Purge(p)
    BY <2>6, Fields, DeletedGets DEF Purge, Gets
  <2>7. CASE GatePromotes(p)
    BY <2>7 DEF GatePromotes, GoesLive, Gets
  <2> QED
    BY <1>4, <2>1, <2>2, <2>3, <2>4, <2>5, <2>6, <2>7 DEF Writes
<1> QED
  BY <1>1, <1>2, <1>3, <1>4, NextKinds

\* What only grows, and the sets that the two invariants are about.
LEMMA Grows ==
  ASSUME TypeOK, [Next]_vars
  PROVE  /\ whole \subseteq whole' /\ revived \subseteq revived' /\ passed \subseteq passed'
         /\ \A v \in Authors : v \in held' => v \in held \/ (Commit(v) /\ mem[v].block /\ IsFree(mem[v].num))
                                                \/ (Promote(v) /\ mem[v].block)
<1>1. CASE UNCHANGED vars
  BY <1>1 DEF vars, store, history
<1>2. CASE Others
  BY <1>2 DEF Others, LookAtTests, LookAtLive, ReadTests, WriteTests, SoftDelete, RestoreArtifact, Miss, Fill,
              Expire, store, history
<1>3. ASSUME NEW p \in Authors, Quiet(p)
      PROVE  whole' = whole /\ revived' = revived /\ passed' = passed /\ held' = held
  BY <1>3, QuietEffect DEF Still
<1>4. ASSUME NEW p \in Authors, Writes(p)
      PROVE  /\ whole \subseteq whole' /\ revived \subseteq revived' /\ passed \subseteq passed'
             /\ \A v \in Authors : v \in held' => v \in held \/ (Commit(v) /\ mem[v].block /\ IsFree(mem[v].num))
                                                    \/ (Promote(v) /\ mem[v].block)
  <2>1. CASE Commit(p)
    <3>1. revived' = revived /\ passed' = passed
      BY <2>1 DEF Commit
    <3>2. whole \subseteq whole'
      BY <2>1 DEF Commit
    <3>3. held' = held \/ (held' = held \cup {p} /\ mem[p].block /\ IsFree(mem[p].num))
      BY <2>1 DEF Commit
    <3> QED
      BY <2>1, <3>1, <3>2, <3>3
  <2>2. CASE Insert(p) \/ StoreAssets(p) \/ ClearCandidate(p) \/ Verdict(p) \/ Crash(p)
    BY <2>2 DEF Insert, StoreAssets, ClearCandidate, Verdict, Crash, store, history
  <2>3. CASE Promote(p)
    BY <2>3 DEF Promote
  <2>4. CASE ChatPlaces(p) \/ Rollback(p) \/ Purge(p) \/ GatePromotes(p)
    BY <2>4 DEF ChatPlaces, Rollback, Purge, GatePromotes, store, history
  <2> QED
    BY <1>4, <2>1, <2>2, <2>3, <2>4 DEF Writes
<1> QED
  BY <1>1, <1>2, <1>3, <1>4, NextKinds

\* How a request moves on.
LEMMA Progress ==
  ASSUME TypeOK, [Next]_vars, NEW p \in Authors
  PROVE  at'[p] = at[p] \/ (Quiet(p) /\ Flow(p)) \/ (Writes(p) /\ Order(p))
<1>1. CASE UNCHANGED vars
  BY <1>1 DEF vars
<1>2. CASE Others
  BY <1>2, OthersEffect
<1>3. ASSUME NEW q \in Authors, Quiet(q) \/ Writes(q) PROVE at'[p] = at[p] \/ (Quiet(p) /\ Flow(p)) \/ (Writes(p) /\ Order(p))
  BY <1>3, QuietEffect, WritesEffect DEF Moves
<1> QED
  BY <1>1, <1>2, <1>3, NextKinds

\* A version has its files before it can be put live.
Placed(p) == \/ at[p] \in {"place", "purge", "tests", "verdict", "guard", "promote", "purgeGate", "clear"}
                /\ Kind(p) # "rollback"
             \/ at[p] = "decide" /\ Kind(p) # "tab"
PlacedIsWhole == \A p \in Authors : Placed(p) => p \in whole

LEMMA PlacedStep == TypeOK /\ InPlace /\ PlacedIsWhole /\ [Next]_vars => PlacedIsWhole'
<1> SUFFICES ASSUME TypeOK, InPlace, PlacedIsWhole, [Next]_vars PROVE PlacedIsWhole'
  OBVIOUS
<1>1. scene' = scene
  BY SceneStays
<1> SUFFICES ASSUME NEW p \in Authors, Placed(p)' PROVE p \in whole'
  BY DEF PlacedIsWhole
<1>2. Placed(p) => p \in whole'
  BY Grows DEF PlacedIsWhole
<1>3. CASE at'[p] = at[p]
  BY <1>1, <1>2, <1>3 DEF Placed, Kind
<1>4. CASE Quiet(p) /\ Flow(p)
  <2>1. at[p] \in PlacesOf(Kind(p))
    BY DEF InPlace
  <2>2. Placed(p)
    BY <1>1, <1>4, <2>1 DEF Placed, Flow, Kind, PlacesOf, TabPlaces, Tail
  <2> QED
    BY <1>2, <2>2
<1>5. CASE Writes(p) /\ Order(p)
  <2>0. at[p] \in PlacesOf(Kind(p))
    BY DEF InPlace
  <2>1. CASE Commit(p)
    BY <1>1, <2>1, CommitEffect DEF Commit, Goes, TypeOK, Placed, Moves
  <2>2. CASE Insert(p)
    BY <1>1, <2>2 DEF Insert, Ends, Goes, TypeOK, Placed
  <2>3. CASE StoreAssets(p)
    BY <2>3 DEF StoreAssets
  <2>4. CASE ~(Commit(p) \/ Insert(p) \/ StoreAssets(p))
    <3>1. at[p] \notin {"commit", "insert", "assets"} \/ at'[p] = "done"
      BY <1>5, <2>4 DEF Writes, Promote, ChatPlaces, Rollback, Purge, Verdict, GatePromotes, ClearCandidate,
                        Crash, Ends, Goes, TypeOK
    <3>2. Placed(p)
      BY <1>1, <1>5, <2>0, <3>1 DEF Order, Placed, Kind, PlacesOf, TabPlaces, Tail
    <3> QED
      BY <1>2, <3>2
  <2> QED
    BY <2>1, <2>2, <2>3, <2>4
<1> QED
  BY <1>3, <1>4, <1>5, Progress

LEMMA WholeStep == TypeOK /\ InPlace /\ PlacedIsWhole /\ ServedIsWhole /\ [Next]_vars => ServedIsWhole'
<1> SUFFICES ASSUME TypeOK, InPlace, PlacedIsWhole, ServedIsWhole, [Next]_vars PROVE ServedIsWhole'
  OBVIOUS
<1> SUFFICES ASSUME NEW v, Gets(v)', v # None PROVE v \in whole' \/ v \in revived'
  BY DEF ServedIsWhole, Served, Gets
<1>1. CASE Gets(v)
  <2>1. v \in whole \/ v \in revived
    BY <1>1 DEF ServedIsWhole, Served, Gets
  <2> QED
    BY <2>1, Grows
<1>2. ASSUME NEW p \in Authors, v = p,
             \/ Commit(p) /\ ~mem[p].block /\ IsFree(mem[p].num)
             \/ Promote(p) /\ ~mem[p].block
             \/ ChatPlaces(p)
             \/ GatePromotes(p)
      PROVE  v \in whole'
  <2>0. at[p] \in PlacesOf(Kind(p))
    BY DEF InPlace
  <2>1. CASE Commit(p) /\ IsFree(mem[p].num)
    BY <1>2, <2>1 DEF Commit
  <2>2. CASE Promote(p) \/ ChatPlaces(p) \/ GatePromotes(p)
    <3>1. at[p] \in {"place", "promote"}
      BY <2>2 DEF Promote, ChatPlaces, GatePromotes
    <3>2. Placed(p)
      BY <2>0, <3>1 DEF Placed, PlacesOf
    <3> QED
      BY <1>2, <3>2, Grows DEF PlacedIsWhole
  <2> QED
    BY <1>2, <2>1, <2>2
<1> QED
  BY <1>1, <1>2, ServedStep

\* What visitors can get has all its files, but for what a rollback or a restore named.
THEOREM ServedStaysWhole == Spec => []ServedIsWhole
<1>1. Init => PlacedIsWhole
  BY DEF Init, PlacedIsWhole, Placed, Begins
<1>2. Init => ServedIsWhole
  BY PublishingAssumption DEF Init, ServedIsWhole, Served
<1> QED
  BY <1>1, <1>2, TypeInit, TypeStep, PlaceInit, PlaceStep, PlacedStep, WholeStep, PTL DEF Spec

\* The block gate: a version that is held back came from its commit, and goes on to be
\* promoted only after its tests; what is served was never held back, or has passed.
Published(v) == v \in Authors /\ v \notin held /\ at[v] \in Tail
GateInv ==
    /\ \A p \in Authors : p \in held => at[p] \in Tail
    /\ \A p \in Authors : at[p] \in {"guard", "promote"} => p \in passed
    /\ \A v : Gets(v) => v \in {None, First} \/ v \in revived \/ v \in passed \/ Published(v)

LEMMA GateStep == TypeOK /\ GateInv /\ [Next]_vars => GateInv'
<1> SUFFICES ASSUME TypeOK, GateInv, [Next]_vars PROVE GateInv'
  OBVIOUS
<1>1. ASSUME NEW p \in Authors, at[p] \in Tail PROVE at'[p] \in Tail
  BY <1>1, Progress DEF Flow, Order, TabPlaces, Tail
<1>2. ASSUME NEW p \in Authors, p \in held' PROVE at'[p] \in Tail
  <2>1. CASE p \in held
    BY <1>1, <2>1 DEF GateInv
  <2>2. CASE Commit(p) /\ mem[p].block /\ IsFree(mem[p].num)
    BY <2>2 DEF Commit, Goes, TypeOK, Tail
  <2>3. CASE Promote(p) /\ mem[p].block
    BY <2>3 DEF Promote, Goes, TypeOK, Tail
  <2> QED
    BY <1>2, <2>1, <2>2, <2>3, Grows
<1>3. ASSUME NEW p \in Authors, at'[p] \in {"guard", "promote"} PROVE p \in passed'
  <2>1. CASE at[p] \in {"guard", "promote"}
    BY <2>1, Grows DEF GateInv
  <2>2. CASE at[p] \notin {"guard", "promote"}
    <3>1. Writes(p) /\ at[p] = "verdict" /\ at'[p] = "guard"
      BY <1>3, <2>2, Progress DEF Flow, Order, TabPlaces
    <3>2. Verdict(p)
      BY <3>1 DEF Writes, Commit, Insert, StoreAssets, Promote, ChatPlaces, Rollback, Purge, GatePromotes,
                  ClearCandidate, Crash, Ends, Goes, TypeOK
    <3>3. PICK v \in Verdicts :
            /\ passed' = IF v = "failed" THEN passed ELSE passed \cup {p}
            /\ IF mem[p].block /\ Promotable(v) THEN Goes(p, "guard") /\ UNCHANGED mem ELSE Ends(p)
      BY <3>2 DEF Verdict
    <3>4. v # "failed"
      BY <3>1, <3>3 DEF Promotable, Ends, Goes, TypeOK
    <3> QED
      BY <3>3, <3>4
  <2> QED
    BY <2>1, <2>2
<1>4. ASSUME NEW v, Gets(v)'
      PROVE  v \in {None, First} \/ v \in revived' \/ v \in passed' \/ Published(v)'
  <2>1. CASE Gets(v) /\ ~Published(v)
    BY <2>1, Grows DEF GateInv
  <2>2. CASE Published(v)
    <3>1. at[v] \notin {"commit", "place"} /\ at'[v] \in Tail
      BY <1>1, <2>2 DEF Published, Tail
    <3>2. v \notin held'
      BY <2>2, <3>1, Grows DEF Published, Commit, Promote
    <3> QED
      BY <2>2, <3>1, <3>2 DEF Published
  <2>3. ASSUME NEW p \in Authors, v = p,
               \/ Commit(p) /\ ~mem[p].block /\ IsFree(mem[p].num)
               \/ Promote(p) /\ ~mem[p].block
               \/ ChatPlaces(p)
               \/ GatePromotes(p)
        PROVE  v \in passed' \/ Published(v)'
    <3>1. CASE GatePromotes(p)
      BY <2>3, <3>1, Grows DEF GatePromotes, GateInv
    <3>2. CASE Commit(p) /\ ~mem[p].block /\ IsFree(mem[p].num)
      BY <2>3, <3>2 DEF Commit, Goes, TypeOK, GateInv, Published, Tail
    <3>3. CASE Promote(p) /\ ~mem[p].block
      BY <2>3, <3>3 DEF Promote, Goes, TypeOK, GateInv, Published, Tail
    <3>4. CASE ChatPlaces(p)
      BY <2>3, <3>4 DEF ChatPlaces, Ends, Goes, TypeOK, GateInv, Published, Tail
    <3> QED
      BY <2>3, <3>1, <3>2, <3>3, <3>4
  <2> QED
    BY <1>4, <2>1, <2>2, <2>3, ServedStep
<1> QED
  BY <1>2, <1>3, <1>4 DEF GateInv

\* A version that the block gate held back is served only once its tests were promotable,
\* or after someone put it live by hand.
THEOREM HeldBackUntilPassed == Spec => []HeldUntilPassed
<1>1. Init => GateInv
  BY DEF Init, GateInv, Gets, Begins
<1>2. TypeOK /\ GateInv => HeldUntilPassed
  <2> SUFFICES ASSUME TypeOK, GateInv, NEW v, Gets(v), v \in held PROVE v \in passed \/ v \in revived
    BY DEF HeldUntilPassed, Served, Gets
  <2>1. v \in Authors /\ v # None /\ v # First
    BY PublishingAssumption DEF TypeOK, Versions
  <2> QED
    BY <2>1 DEF GateInv, Published
<1> QED
  BY <1>1, <1>2, TypeInit, TypeStep, GateStep, PTL DEF Spec

-----------------------------------------------------------------------------
(* Edits over the API replace the head they read.                          *)

\* A step leaves a request alone, or is a step of that request.
LEMMA OwnStep ==
  ASSUME TypeOK, [Next]_vars, NEW p \in Authors
  PROVE  (at'[p] = at[p] /\ mem'[p] = mem[p]) \/ Quiet(p) \/ Writes(p)
<1>1. CASE UNCHANGED vars
  BY <1>1 DEF vars
<1>2. CASE Others
  BY <1>2, OthersEffect
<1>3. ASSUME NEW q \in Authors, Quiet(q) \/ Writes(q), q # p PROVE at'[p] = at[p] /\ mem'[p] = mem[p]
  BY <1>3, QuietEffect, WritesEffect DEF Moves
<1> QED
  BY <1>1, <1>2, <1>3, NextKinds

\* Version numbers are taken by a commit or an insert, where they are free.
LEMMA NumberStep ==
  ASSUME TypeOK, [Next]_vars
  PROVE  \/ no' = no
         \/ \E p \in Authors : /\ Commit(p) \/ Insert(p)
                               /\ IsFree(mem[p].num) /\ no' = [no EXCEPT ![p] = mem[p].num]
<1>1. CASE UNCHANGED vars
  BY <1>1 DEF vars, store
<1>2. CASE Others
  BY <1>2 DEF Others, LookAtTests, LookAtLive, ReadTests, WriteTests, SoftDelete, RestoreArtifact, Miss, Fill,
              Expire, store
<1>3. ASSUME NEW p \in Authors, Quiet(p) PROVE no' = no
  BY <1>3, QuietEffect DEF Still
<1>4. ASSUME NEW p \in Authors, Writes(p)
      PROVE  \/ no' = no
             \/ (Commit(p) \/ Insert(p)) /\ IsFree(mem[p].num) /\ no' = [no EXCEPT ![p] = mem[p].num]
  <2>1. CASE Commit(p)
    BY <2>1 DEF Commit
  <2>2. CASE Insert(p)
    BY <2>2 DEF Insert
  <2>3. CASE StoreAssets(p) \/ Promote(p) \/ ChatPlaces(p) \/ Rollback(p) \/ Purge(p)
    BY <2>3 DEF StoreAssets, Promote, ChatPlaces, Rollback, Purge
  <2>4. CASE Verdict(p) \/ GatePromotes(p) \/ ClearCandidate(p) \/ Crash(p)
    BY <2>4 DEF Verdict, GatePromotes, ClearCandidate, Crash, store
  <2> QED
    BY <1>4, <2>1, <2>2, <2>3, <2>4 DEF Writes
<1> QED
  BY <1>1, <1>2, <1>3, <1>4, NextKinds

\* No two versions share a number, and an edit gets the one after the head it read.
NumbersDiffer == \A v, w \in Versions : v # w /\ no[v] = no[w] => no[v] = 0
BeforeInsert == {"reading", "checkHead", "page", "number", "insert"}
EditNumber(p) ==
    /\ at[p] = "insert" => mem[p].num = mem[p].base + 1
    /\ no[p] # 0 => no[p] = mem[p].base + 1 /\ at[p] \notin BeforeInsert
HeadInv == NumbersDiffer /\ \A p \in Authors : Kind(p) = "edit" => EditNumber(p)

\* What the steps of an edit do to the base it remembers.
LEMMA EditOwnStep ==
  ASSUME TypeOK, InPlace, [Next]_vars, NEW p \in Authors, Kind(p) = "edit"
  PROVE  \/ at'[p] = at[p] /\ mem'[p] = mem[p]
         \/ at[p] = "reading" /\ at'[p] = "checkHead"
         \/ at[p] = "number" /\ at'[p] = "insert" /\ mem'[p].base = mem[p].base /\ mem'[p].num = mem'[p].base + 1
         \/ /\ mem'[p].base = mem[p].base
            /\ at'[p] # "insert"
            /\ at'[p] \in BeforeInsert => at[p] \in BeforeInsert
<1>0. at[p] \in PlacesOf("edit") /\ PlacesOf("edit") \cap (TabPlaces \cup {"commit", "target", "rollback"}) = {}
  BY DEF InPlace, PlacesOf, TabPlaces, Tail
<1>1. CASE Quiet(p)
  <2>1. CASE ReadHead(p)
    BY <2>1, ReadHeadEffect DEF ReadHead, Moves
  <2>2. CASE Number(p)
    BY <2>2, NumberEffect DEF Number, Moves, BeforeInsert
  <2>3. CASE CheckHead(p) \/ RunTests(p) \/ Guard(p)
    <3>1. Moves(p, {"page", "verdict", "promote", "done"}) /\ Rests(p)
      BY <2>3, CheckHeadEffect, RunTestsEffect, GuardEffect DEF Moves
    <3>2. at'[p] = "page" => at[p] = "checkHead"
      BY <2>3, RunTestsEffect, GuardEffect DEF CheckHead, Moves
    <3> QED
      BY <3>1, <3>2 DEF Moves, Rests, BeforeInsert
  <2>4. CASE Decide(p)
    BY <2>4, DecideEffect DEF Decide, Goes, TypeOK, BeforeInsert, Moves
  <2>5. CASE ReadPage(p)
    BY <2>5, ReadPageEffect DEF ReadPage, Moves, Rests, BeforeInsert
  <2>6. CASE ~(ReadHead(p) \/ Number(p) \/ CheckHead(p) \/ RunTests(p) \/ Guard(p) \/ Decide(p) \/ ReadPage(p))
    <3>1. at[p] \in TabPlaces \cup {"target"}
      BY <1>1, <2>6 DEF Quiet, LoadLive, LoadDraft, SaveDraft, CheckSave, UpsertDraft, ReadBack, Reload,
                        KeepMine, Discard, Publish, CheckPublish, StaleDraft, StaleLive, PublishAnyway,
                        Target, DraftConflict, TabPlaces
    <3> QED
      BY <1>0, <3>1
  <2> QED
    BY <2>1, <2>2, <2>3, <2>4, <2>5, <2>6
<1>2. CASE Writes(p)
  <2>1. at'[p] \notin BeforeInsert
    BY <1>2, WritesEffect DEF Order, BeforeInsert
  <2>2. Rests(p) \/ Commit(p)
    BY <1>2, InsertEffect, StoreAssetsEffect, PromoteEffect, ChatPlacesEffect, RollbackEffect, PurgeEffect,
       VerdictEffect, GatePromotesEffect, ClearCandidateEffect, CrashEffect DEF Writes
  <2>3. mem'[p].base = mem[p].base
    BY <2>2, CommitEffect DEF Rests
  <2> QED
    BY <2>1, <2>3 DEF BeforeInsert
<1> QED
  BY <1>1, <1>2, OwnStep

LEMMA HeadStep == TypeOK /\ InPlace /\ HeadInv /\ [Next]_vars => HeadInv'
<1> SUFFICES ASSUME TypeOK, InPlace, HeadInv, [Next]_vars PROVE HeadInv'
  OBVIOUS
<1>0. scene' = scene /\ no \in [Versions -> Nat] /\ Authors \subseteq Versions
  BY SceneStays DEF TypeOK, Versions
<1>1. NumbersDiffer'
  <2>1. CASE no' = no
    BY <2>1 DEF HeadInv, NumbersDiffer
  <2>2. ASSUME NEW p \in Authors, IsFree(mem[p].num), no' = [no EXCEPT ![p] = mem[p].num]
        PROVE  NumbersDiffer'
    <3> SUFFICES ASSUME NEW v \in Versions, NEW w \in Versions, v # w, no'[v] = no'[w] PROVE no'[v] = 0
      BY DEF NumbersDiffer
    <3>1. CASE v # p /\ w # p
      BY <1>0, <2>2, <3>1 DEF HeadInv, NumbersDiffer
    <3>2. CASE v = p \/ w = p
      BY <1>0, <2>2, <3>2 DEF IsFree
    <3> QED
      BY <3>1, <3>2
  <2> QED
    BY <2>1, <2>2, NumberStep
<1>2. ASSUME NEW p \in Authors, Kind(p)' = "edit" PROVE EditNumber(p)'
  <2>1. Kind(p) = "edit" /\ EditNumber(p) /\ no[p] \in Nat
    BY <1>0, <1>2 DEF Kind, HeadInv
  <2>2. at'[p] = "insert" => mem'[p].num = mem'[p].base + 1
    BY <2>1, EditOwnStep DEF EditNumber
  <2>3. CASE no'[p] = no[p]
    BY <2>1, <2>2, <2>3, EditOwnStep DEF EditNumber, BeforeInsert
  <2>4. CASE no'[p] # no[p]
    <3>1. (Commit(p) \/ Insert(p)) /\ IsFree(mem[p].num) /\ no'[p] = mem[p].num
      BY <1>0, <2>4, NumberStep
    <3>2. ~Commit(p)
      BY <2>1 DEF Commit, InPlace, PlacesOf, Tail
    <3>3. Insert(p) /\ at[p] = "insert" /\ mem' = mem /\ at'[p] \notin BeforeInsert
      BY <3>1, <3>2 DEF Insert, Goes, TypeOK, BeforeInsert
    <3> QED
      BY <2>1, <2>2, <3>1, <3>3 DEF EditNumber
  <2> QED
    BY <2>3, <2>4
<1> QED
  BY <1>1, <1>2 DEF HeadInv

\* An edit over the API replaces exactly the head it read, whatever overlaps it.
THEOREM EditsStayOnTheHead == Spec => []EditsBuildOnTheHead
<1>1. Init => HeadInv
  <2> SUFFICES ASSUME Init PROVE HeadInv
    OBVIOUS
  <2>1. \A v \in Versions : no[v] = IF v = First THEN 1 ELSE 0
    BY DEF Init
  <2>2. NumbersDiffer
    BY <2>1 DEF NumbersDiffer
  <2>3. ASSUME NEW p \in Authors, Kind(p) = "edit" PROVE EditNumber(p)
    <3>1. no[p] = 0
      BY <2>1, PublishingAssumption DEF Versions
    <3>2. at[p] = "reading"
      BY <2>3 DEF Init, Begins
    <3> QED
      BY <3>1, <3>2 DEF EditNumber
  <2> QED
    BY <2>2, <2>3 DEF HeadInv
<1>2. TypeOK /\ HeadInv => EditsBuildOnTheHead
  <2> SUFFICES ASSUME TypeOK, HeadInv, NEW p \in Authors, Kind(p) = "edit", no[p] # 0, NEW v \in Versions \ {p}
               PROVE  no[v] <= mem[p].base \/ no[v] > no[p]
    BY DEF EditsBuildOnTheHead
  <2>1. no[p] = mem[p].base + 1 /\ no[p] \in Nat /\ no[v] \in Nat /\ mem[p].base \in Nat
    BY Fields, D1Fields DEF HeadInv, EditNumber, Versions
  <2>2. no[v] # no[p]
    BY DEF HeadInv, NumbersDiffer, Versions
  <2> QED
    BY <2>1, <2>2
<1> QED
  BY <1>1, <1>2, TypeInit, TypeStep, PlaceInit, PlaceStep, HeadStep, PTL DEF Spec

-----------------------------------------------------------------------------
(* What the only open tab publishes is built on the page it was checked against. *)

\* A change of the production row is newer than all before it, or removes the row.
Stamped == live.ver = None => live.at = 0

LEMMA StampStep ==
  ASSUME TypeOK, Stamped, [Next]_vars
  PROVE  Stamped' /\ clock \in Nat /\ clock' >= clock /\ (live' = live \/ live'.at = clock + 1 \/ live'.at = 0)
<1>0. clock \in Nat /\ live \in [ver : Versions \cup {None}, at : Nat, slug : Keys] /\ None \notin Versions
  BY PublishingAssumption DEF TypeOK
<1>1. ASSUME NEW v \in Versions, NEW s \in Keys, GoesLive(v, s)
      PROVE  live'.ver # None /\ live'.at = clock + 1 /\ clock' = clock + 1
  BY <1>0, <1>1 DEF GoesLive
<1>2. CASE live' = live /\ (clock' = clock \/ clock' = clock + 1)
  BY <1>0, <1>2 DEF Stamped
<1>3. CASE UNCHANGED vars
  BY <1>2, <1>3 DEF vars, store
<1>4. CASE Others
  <2>1. CASE SoftDelete
    BY <1>0, <2>1 DEF SoftDelete, Stamped
  <2>2. CASE RestoreArtifact
    <3>1. CASE Trash("upsert", "purgeBack")
      <4>1. live'.ver = latest /\ live'.at = clock + 1 /\ clock' = clock + 1 /\ latest \in Versions
        BY <2>2, <3>1 DEF RestoreArtifact, Trash, TypeOK
      <4> QED
        BY <1>0, <4>1 DEF Stamped
    <3>2. CASE ~Trash("upsert", "purgeBack")
      BY <1>2, <2>2, <3>2 DEF RestoreArtifact
    <3> QED
      BY <3>1, <3>2
  <2>3. CASE ~(SoftDelete \/ RestoreArtifact)
    BY <1>2, <1>4, <2>3 DEF Others, LookAtTests, LookAtLive, ReadTests, WriteTests, Miss, Fill, Expire, store
  <2> QED
    BY <2>1, <2>2, <2>3
<1>5. ASSUME NEW p \in Authors, Quiet(p) PROVE live' = live /\ (clock' = clock \/ clock' = clock + 1)
  <2>1. live' = live
    BY <1>5, QuietEffect DEF Still
  <2>2. CASE UpsertDraft(p)
    BY <2>1, <2>2 DEF UpsertDraft
  <2>3. CASE ~UpsertDraft(p)
    BY <1>5, <2>1, <2>3 DEF Quiet, LoadLive, LoadDraft, SaveDraft, CheckSave, ReadBack, Reload, KeepMine, Discard,
                      Publish, CheckPublish, StaleDraft, StaleLive, PublishAnyway, ReadHead, CheckHead, ReadPage, Target,
                      Decide, Number, RunTests, Guard, DraftConflict
  <2> QED
    BY <2>2, <2>3
<1>6. ASSUME NEW p \in Authors, Writes(p)
      PROVE  \/ live' = live /\ clock' = clock
             \/ live'.ver # None /\ live'.at = clock + 1 /\ clock' = clock + 1
  <2>1. p \in Versions /\ mem[p].slug \in Keys
    BY Fields DEF Versions
  <2>2. CASE Commit(p) \/ Promote(p) \/ Rollback(p) \/ GatePromotes(p)
    BY <1>1, <2>1, <2>2 DEF Commit, Promote, Rollback, GatePromotes
  <2>3. CASE ChatPlaces(p)
    BY <1>0, <2>1, <2>3 DEF ChatPlaces
  <2>4. CASE Insert(p) \/ StoreAssets(p) \/ Purge(p) \/ Verdict(p) \/ ClearCandidate(p) \/ Crash(p)
    BY <2>4 DEF Insert, StoreAssets, Purge, Verdict, ClearCandidate, Crash, store
  <2> QED
    BY <1>6, <2>2, <2>3, <2>4 DEF Writes
<1>7. CASE live'.ver # None /\ live'.at = clock + 1 /\ clock' = clock + 1
  BY <1>0, <1>7 DEF Stamped
<1> QED
  BY <1>0, <1>2, <1>3, <1>4, <1>5, <1>6, <1>7, NextKinds

\* The draft is written by tabs; every other step leaves it or clears it.
LEMMA DraftStep ==
  ASSUME TypeOK, [Next]_vars
  PROVE  draft' = draft \/ draft' = None \/ \E p \in Authors : UpsertDraft(p)
<1>1. CASE UNCHANGED vars
  BY <1>1 DEF vars, store
<1>2. CASE Others
  BY <1>2, OthersEffect
<1>3. ASSUME NEW p \in Authors, Quiet(p), ~UpsertDraft(p) PROVE draft' = draft \/ draft' = None
  BY <1>3 DEF Quiet, LoadLive, LoadDraft, SaveDraft, CheckSave, ReadBack, Reload, KeepMine, Discard,
              Publish, CheckPublish, StaleDraft, StaleLive, PublishAnyway, ReadHead, CheckHead, ReadPage, Target,
              Decide, Number, RunTests, Guard, DraftConflict, store
<1>4. ASSUME NEW p \in Authors, Writes(p) PROVE draft' = draft \/ draft' = None
  BY <1>4 DEF Writes, Commit, Insert, StoreAssets, Promote, ChatPlaces, Rollback, Purge, Verdict, GatePromotes,
              ClearCandidate, Crash, store
<1> QED
  BY <1>1, <1>2, <1>3, <1>4, NextKinds

\* With one tab, the draft and what the tab remembers say which page they were made from.
Loaded(p) == at[p] \notin {"opening", "loading", "done"}
TabInv(p) ==
    /\ mem[p].base = mem[p].from
    /\ draft # None => draft.base = draft.from /\ (Loaded(p) => draft.base = mem[p].base)
    /\ at[p] = "staleLive" => mem[p].eff = mem[p].base
    /\ Checked(p) => mem[p].eff <= clock /\ (live.at <= mem[p].from \/ live.at > mem[p].eff)
BaseInv == Stamped /\ \A p \in Authors : OnlyTab(p) => TabInv(p)

\* The steps of a tab that neither load, check nor decide.
Steady(p) ==
    /\ \/ mem'[p].from = mem[p].from /\ mem'[p].base = mem[p].base
       \/ mem'[p].from = 0 /\ mem'[p].base = 0 /\ at'[p] = "done"
    /\ at'[p] # "staleLive" /\ ~Checked(p)'
    /\ Loaded(p)' => Loaded(p)

LEMMA SteadyTab ==
  ASSUME TypeOK, InPlace, [Next]_vars, NEW p \in Authors, Kind(p) = "tab", Quiet(p) \/ Writes(p)
  PROVE  \/ LoadLive(p) \/ LoadDraft(p) \/ UpsertDraft(p) \/ StaleDraft(p) \/ StaleLive(p) \/ ReadPage(p)
         \/ Decide(p) \/ Number(p) \/ Steady(p)
<1>0. at[p] \in PlacesOf("tab") /\ PlacesOf("tab") \cap {"reading", "checkHead", "target"} = {}
  BY DEF InPlace, PlacesOf, TabPlaces, Tail
<1>1. CASE SaveDraft(p)
  BY <1>1, SaveDraftEffect DEF SaveDraft, Moves, Steady, Loaded, Checked
<1>2. CASE CheckSave(p) \/ CheckPublish(p)
  <2>1. Loaded(p)
    BY <1>2 DEF CheckSave, CheckPublish, DraftConflict, Loaded
  <2> QED
    BY <1>2, <2>1, ChecksEffect DEF Moves, Steady, Checked
<1>3. CASE ReadBack(p)
  <2>1. Loaded(p)
    BY <1>3 DEF ReadBack, Loaded
  <2> QED
    BY <1>3, <2>1, ReadBackEffect DEF Moves, Steady, Checked
<1>4. CASE Reload(p)
  BY <1>4, ReloadEffect DEF Moves, Steady, Loaded, Checked
<1>5. CASE KeepMine(p)
  <2>1. Loaded(p)
    BY <1>5 DEF KeepMine, Loaded
  <2> QED
    BY <1>5, <2>1, KeepMineEffect DEF Moves, Steady, Checked
<1>6. CASE Discard(p)
  BY <1>6, DiscardEffect DEF Moves, Steady, Loaded, Checked
<1>7. CASE Publish(p)
  BY <1>7, PublishEffect DEF Publish, Moves, Steady, Loaded, Checked
<1>8. CASE PublishAnyway(p)
  BY <1>8, PublishAnywayEffect DEF PublishAnyway, Moves, Steady, Loaded, Checked
<1>9. CASE ReadHead(p) \/ CheckHead(p) \/ Target(p)
  BY <1>0, <1>9 DEF ReadHead, CheckHead, Target
<1>10. CASE RunTests(p) \/ Guard(p)
  <2>1. Moves(p, {"verdict", "promote", "done"}) /\ Rests(p) /\ Loaded(p)
    BY <1>10, RunTestsEffect, GuardEffect DEF RunTests, Guard, Moves, Loaded
  <2> QED
    BY <2>1 DEF Moves, Rests, Steady, Checked
<1>11. CASE Commit(p)
  <2>1. Loaded(p)
    BY <1>11 DEF Commit, Loaded
  <2> QED
    BY <1>11, <2>1, CommitEffect DEF Moves, Steady, Checked
<1>12. CASE Writes(p) /\ ~Commit(p)
  <2>1. Rests(p)
    BY <1>12, InsertEffect, StoreAssetsEffect, PromoteEffect, ChatPlacesEffect, RollbackEffect, PurgeEffect,
       VerdictEffect, GatePromotesEffect, ClearCandidateEffect, CrashEffect DEF Writes
  <2>2. Order(p)
    BY <1>12, WritesEffect
  <2>3. ~Insert(p) /\ ~StoreAssets(p) /\ at[p] \notin {"insert", "assets"}
    BY <1>0 DEF Insert, StoreAssets, PlacesOf, TabPlaces, Tail
  <2> QED
    BY <2>1, <2>2, <2>3 DEF Order, Rests, Steady, Loaded, Checked
<1> QED
  BY <1>1, <1>2, <1>3, <1>4, <1>5, <1>6, <1>7, <1>8, <1>9, <1>10, <1>11, <1>12 DEF Quiet, Writes

LEMMA BaseStep == TypeOK /\ InPlace /\ BaseInv /\ [Next]_vars => BaseInv'
<1> SUFFICES ASSUME TypeOK, InPlace, BaseInv, [Next]_vars PROVE BaseInv'
  OBVIOUS
<1>0. scene' = scene
  BY SceneStays
<1>1. Stamped' /\ clock \in Nat /\ clock' >= clock /\ (live' = live \/ live'.at = clock + 1 \/ live'.at = 0)
  BY StampStep DEF BaseInv
<1> SUFFICES ASSUME NEW p \in Authors, OnlyTab(p)' PROVE TabInv(p)'
  BY <1>1 DEF BaseInv
<1>2. OnlyTab(p) /\ Kind(p) = "tab" /\ TabInv(p)
  BY <1>0 DEF OnlyTab, Kind, BaseInv
<1>3. /\ mem[p].base \in Nat /\ mem[p].from \in Nat /\ mem[p].eff \in Nat /\ live.at \in Nat
      /\ draft = None \/ (draft.base \in Nat /\ draft.from \in Nat)
  BY Fields, D1Fields
<1>4. draft' = draft \/ draft' = None \/ UpsertDraft(p)
  <2>1. ASSUME NEW q \in Authors, UpsertDraft(q), q # p PROVE FALSE
    BY <1>2, <2>1 DEF UpsertDraft, InPlace, PlacesOf, OnlyTab, Tail
  <2> QED
    BY <2>1, DraftStep
\* A check that passed stays good: what goes live later is newer than it, or nothing is live.
<1>5. ASSUME Checked(p), mem'[p] = mem[p]
      PROVE  mem'[p].eff <= clock' /\ (live'.at <= mem'[p].from \/ live'.at > mem'[p].eff)
  <2>1. mem[p].eff <= clock /\ (live.at <= mem[p].from \/ live.at > mem[p].eff)
    BY <1>2, <1>5 DEF TabInv
  <2>2. clock' \in Nat
    BY TypeStep DEF TypeOK
  <2> QED
    BY <1>1, <1>3, <1>5, <2>1, <2>2
<1>6. CASE at'[p] = at[p] /\ mem'[p] = mem[p]
  <2>1. ~UpsertDraft(p)
    BY <1>6 DEF UpsertDraft, Goes, TypeOK
  <2> QED
    BY <1>2, <1>4, <1>5, <1>6, <2>1 DEF TabInv, Loaded, Checked
<1>7. CASE Quiet(p) \/ Writes(p)
  <2>1. CASE LoadLive(p)
    <3>1. draft' = draft
      BY <2>1 DEF LoadLive, store
    <3> QED
      BY <1>2, <2>1, <3>1, LoadLiveEffect DEF Moves, TabInv, Loaded, Checked
  <2>2. CASE LoadDraft(p)
    <3>1. draft' = draft
      BY <2>2 DEF LoadDraft, store
    <3> QED
      BY <1>2, <2>2, <3>1, LoadDraftEffect DEF Moves, TabInv, Loaded, Checked
  <2>3. CASE UpsertDraft(p)
    <3>1. mem' = mem /\ at'[p] = "readBack" /\ Loaded(p)
      BY <2>3 DEF UpsertDraft, Goes, TypeOK, Loaded
    <3>2. draft'.from = mem[p].from /\ draft'.base = IF KeepsBase(p) THEN draft.base ELSE mem[p].base
      BY <2>3 DEF UpsertDraft
    <3>3. draft'.base = mem[p].base
      BY <1>2, <3>1, <3>2 DEF TabInv, KeepsBase
    <3> QED
      BY <1>2, <3>1, <3>2, <3>3 DEF TabInv, Checked
  <2>4. CASE StaleDraft(p)
    <3>1. EffectiveBase(p) = mem[p].base
      BY <1>2, <1>3, <2>4 DEF StaleDraft, TabInv, Loaded, EffectiveBase, Earlier
    <3>2. draft' = draft /\ Loaded(p)
      BY <2>4 DEF StaleDraft, store, Loaded
    <3> QED
      BY <1>2, <2>4, <3>1, <3>2, StaleDraftEffect DEF Moves, TabInv, Checked
  <2>5. CASE StaleLive(p)
    <3>1. draft' = draft /\ live' = live /\ clock' = clock /\ at[p] = "staleLive" /\ Loaded(p)
      BY <2>5 DEF StaleLive, store, Loaded
    <3>2. at'[p] = "page" => mem'[p].eff = clock /\ live.at <= mem[p].from
      BY <1>2, <1>3, <2>5, <3>1, StaleLiveEffect DEF TabInv, LiveIsNewer, BaseInv, Stamped
    <3>3. at'[p] \in {"stale", "page"} /\ mem'[p].from = mem[p].from /\ mem'[p].base = mem[p].base
      BY <2>5, StaleLiveEffect DEF Moves
    <3> QED
      BY <1>1, <1>2, <3>1, <3>2, <3>3 DEF TabInv, Checked
  <2>6. CASE ReadPage(p) \/ Decide(p) \/ Number(p)
    <3>1. CASE at'[p] = "done"
      <4>1. Number(p) /\ mem'[p].from = 0 /\ mem'[p].base = 0
        BY <1>2, <2>6, <3>1, ReadPageEffect, DecideEffect, NumberEffect DEF Moves
      <4> QED
        BY <1>2, <1>4, <3>1, <4>1 DEF TabInv, Loaded, Checked, UpsertDraft, Number
    <3>2. CASE at'[p] # "done"
      <4>1. /\ at[p] \in {"page", "decide", "number"} /\ at'[p] \in {"decide", "number", "commit"}
            /\ mem'[p].from = mem[p].from /\ mem'[p].base = mem[p].base
            /\ mem'[p].over = mem[p].over /\ mem'[p].eff = mem[p].eff
        BY <1>2, <2>6, <3>2, ReadPageEffect, DecideEffect, NumberEffect DEF ReadPage, Decide, Number, Goes, TypeOK, Moves
      <4>2. draft' = draft /\ live' = live /\ clock' = clock
        BY <2>6 DEF ReadPage, Decide, Number, store
      <4> QED
        BY <1>2, <4>1, <4>2 DEF TabInv, Loaded, Checked
    <3> QED
      BY <3>1, <3>2
  <2>7. CASE Steady(p) /\ ~UpsertDraft(p)
    BY <1>2, <1>4, <2>7 DEF Steady, TabInv, Loaded
  <2> QED
    BY <1>2, <1>7, <2>1, <2>2, <2>3, <2>4, <2>5, <2>6, <2>7, SteadyTab
<1> QED
  BY <1>6, <1>7, OwnStep

\* A publish of the only open tab that passed the check for a stale base is built on the
\* page that was live when it was checked.
THEOREM CheckedStaysCurrent == Spec => []CheckedIsCurrent
<1>1. Init => BaseInv
  <2> SUFFICES ASSUME Init PROVE BaseInv
    OBVIOUS
  <2>1. Stamped
    BY PublishingAssumption DEF Init, Stamped, Versions
  <2>2. ASSUME NEW p \in Authors, OnlyTab(p) PROVE TabInv(p)
    BY <2>2 DEF OnlyTab, Init, Begins, Noted, TabInv, Loaded, Checked
  <2> QED
    BY <2>1, <2>2 DEF BaseInv
<1>2. BaseInv => CheckedIsCurrent
  BY DEF BaseInv, TabInv, CheckedIsCurrent
<1> QED
  BY <1>1, <1>2, TypeInit, TypeStep, PlaceInit, PlaceStep, BaseStep, PTL DEF Spec

=============================================================================
