----------------------------- MODULE Publishing -----------------------------
(***************************************************************************)
(* How one artifact gets a new live version, and what its visitors are     *)
(* served meanwhile: drafts and the editor's publish (editor/draft.ts,     *)
(* editor/index.ts), publishes and edits over the API (publish/,           *)
(* artifacts/edits.ts), restores and rollbacks (artifacts/versions.ts),    *)
(* the agent's publish (data/agent/admin-chat.ts), the block gate of the   *)
(* artifact tests (tests/), soft delete and restore (artifacts/crud.ts)    *)
(* and the KV cache of the deployment (serve/).                            *)
(*                                                                         *)
(* Worker invocations share D1 and KV and nothing else.  A step is one     *)
(* statement or one D1 batch with the synchronous code around it.  An      *)
(* author makes at most one version, which bears the author's name.  Every *)
(* write of a deployment or a draft has a stamp of its own: no two fall    *)
(* into the same millisecond.                                              *)
(***************************************************************************)
EXTENDS Integers

CONSTANTS
    Authors,     \* the editor tabs and API requests that may make a version
    Readers,     \* the requests that serve the page
    First,       \* the version that is live at the start
    Slugs,       \* the routing slugs the page may have
    FirstSlug,   \* the one it has at the start
    Tombstone,   \* artifacts.slug of a deleted page
    None,
    Scenes,      \* who the authors are and what else happens, see SceneType
    MaxSaves,    \* a bound on the saves of a draft per tab
    MaxConfigs,  \* a bound on the owner's changes of the test settings
    MaxCrashes   \* a bound on invocations that are cut

Versions == Authors \cup {First}

\* A slug names a key of KV, deploy:<slug>; the tombstone can get one too.
Keys == Slugs \cup {Tombstone}

\* tab: an editor tab of one user.  edit: editArtifact with base_version.
\* push: publishArtifact without one.  chat: the admin chat's publish.
Kinds == {"tab", "edit", "push", "restore", "rollback", "chat", "none"}

\*   losesDelete   both attempts at deleting a KV key fail
\*   delete        the owner deletes the artifact, and may restore it
\*   settings      the owner changes the test settings
\*   cut           invocations may be cut
EventKinds == {"losesDelete", "delete", "settings", "cut"}

SceneType == [kind : [Authors -> Kinds], mode : {"off", "monitor", "block"}, events : SUBSET EventKinds]

ASSUME PublishingAssumption ==
    /\ First \notin Authors /\ None \notin Versions
    /\ FirstSlug \in Slugs /\ Tombstone \notin Slugs
    /\ Scenes \subseteq SceneType
    /\ MaxSaves \in Nat /\ MaxConfigs \in Nat /\ MaxCrashes \in Nat

VARIABLES
    scene,    \* which of the Scenes this is; never changes
    clock,
    \* D1
    no,       \* versions.version_no, 0 while there is no such row
    whole,    \* the versions whose assets are stored
    page,     \* artifacts.slug, the tombstone while deleted_at is set
    live,     \* the production deployment: version_id, updated_at and slug
    cand,     \* the candidate deployment
    draft,    \* the user's row of artifact_drafts
    tests,    \* artifact_tests: the mode, and baseline_version_id
    \* KV
    cached,   \* the version under each key
    \* invocations
    at,       \* where each author is
    mem,      \* and what it remembers
    reader,
    owner,    \* the owner's change of the test settings
    trash,    \* the owner's deletion of the artifact, and its restore
    latest,   \* the version the restore has read
    crashes,
    \* history
    passed,   \* versions whose tests were promotable
    held,     \* versions that were published as candidates
    revived,  \* versions that a rollback or a restored artifact brought back
    excused   \* the keys that are stale for a reason named in CacheIsCurrent

store == <<no, whole, page, live, cand, draft, tests, cached>>
history == <<passed, held, revived, excused>>
vars == <<scene, clock, store, at, mem, reader, owner, trash, latest, crashes, history>>

Kind(p) == scene.kind[p]
Noted == [from |-> 0, base |-> 0, seen |-> 0, force |-> FALSE, over |-> FALSE,
          eff |-> 0, num |-> 0, block |-> FALSE, saves |-> 0, target |-> None,
          slug |-> Tombstone]

Begins(p) == CASE Kind(p) = "tab" -> "opening"
               [] Kind(p) = "edit" -> "reading"
               [] Kind(p) \in {"push", "restore", "rollback"} -> "page"
               [] Kind(p) = "chat" -> "number"
               [] OTHER -> "done"

Init ==
    /\ scene \in Scenes
    /\ clock = 1
    /\ no = [v \in Versions |-> IF v = First THEN 1 ELSE 0]
    /\ whole = {First}
    /\ page = FirstSlug
    /\ live = [ver |-> First, at |-> 1, slug |-> FirstSlug]
    /\ cand = None
    /\ draft = None
    /\ tests = [mode |-> scene.mode, baseline |-> IF scene.mode = "block" THEN First ELSE None]
    /\ cached = [s \in Keys |-> None]
    /\ at = [p \in Authors |-> Begins(p)]
    /\ mem = [p \in Authors |-> Noted]
    /\ reader = [r \in Readers |-> None]
    /\ owner = [at |-> "idle", mode |-> "off", patch |-> None, cur |-> None, left |-> MaxConfigs]
    /\ trash = "none" /\ latest = None
    /\ crashes = 0
    /\ passed = {} /\ held = {} /\ revived = {} /\ excused = {}

(***************************************************************************)
(* Helpers                                                                 *)
(***************************************************************************)
Goes(p, place) == at' = [at EXCEPT ![p] = place]

\* A request is over.  Only the base of an edit is worth remembering.
Ends(p) ==
    /\ Goes(p, "done")
    /\ mem' = [mem EXCEPT ![p] = [Noted EXCEPT !.base = IF Kind(p) = "edit" THEN mem[p].base ELSE 0]]

\* What D1 answers for a key.
Deployment(s) == IF live.ver # None /\ live.slug = s THEN live.ver ELSE None

\* The key of the production row, left to whoever purges another one.
LeftBy(s) == IF live.ver # None /\ live.slug # s THEN {live.slug} ELSE {}

\* The upsert of the production row: a row that is there keeps its slug.
GoesLive(v, s) ==
    /\ live' = [ver |-> v, at |-> clock + 1, slug |-> IF live.ver # None THEN live.slug ELSE s]
    /\ clock' = clock + 1
    /\ excused' = excused \cup LeftBy(s)

\* The version with the highest version_no; the next one gets one more.
IsHead(v) == \A w \in Versions : no[w] <= no[v]

\* UNIQUE(artifact_id, version_no)
IsFree(n) == \A v \in Versions : no[v] # n

\* shouldBlockPublish
Blocks == tests.mode = "block" /\ tests.baseline # None

-----------------------------------------------------------------------------
(* The editor tab: what it loads, its drafts, and how it publishes.        *)

\* handleEditor reads the production row, then the user's draft.  A page that is
\* not live opens empty and is left out.
LoadLive(p) ==
    /\ at[p] = "opening" /\ live.ver # None
    /\ mem' = [mem EXCEPT ![p] = [@ EXCEPT !.from = live.at, !.base = live.at]]
    /\ Goes(p, "loading")
    /\ UNCHANGED <<scene, clock, store, reader, owner, trash, latest, crashes, history>>

LoadDraft(p) ==
    /\ at[p] = "loading"
    /\ mem' = [mem EXCEPT ![p] =
                 IF draft = None THEN [@ EXCEPT !.seen = 0, !.force = FALSE]
                 ELSE [@ EXCEPT !.from = draft.from, !.base = draft.base,
                                !.seen = draft.at, !.force = FALSE]]
    /\ Goes(p, "editing")
    /\ UNCHANGED <<scene, clock, store, reader, owner, trash, latest, crashes, history>>

\* saveDraft of the client: no draftUpdatedAt is sent where no draft was loaded.
SaveDraft(p) ==
    /\ at[p] = "editing" /\ mem[p].saves < MaxSaves
    /\ mem' = [mem EXCEPT ![p].saves = @ + 1]
    /\ Goes(p, IF mem[p].seen = 0 THEN "saving" ELSE "checkSave")
    /\ UNCHANGED <<scene, clock, store, reader, owner, trash, latest, crashes, history>>

\* draftConflict reads the draft, and the production row if there is none.
DraftMatches(p) == draft # None /\ draft.at = mem[p].seen
LiveIsNewer(stamp) == live.ver # None /\ live.at > stamp

\* A refusal tells the tab the newer stamp, which it goes by if the person keeps their copy.
DraftConflict(p, reads, readsLive, passes, refuses) ==
    /\ \/ /\ at[p] = reads /\ draft # None /\ ~DraftMatches(p)
          /\ mem' = [mem EXCEPT ![p].seen = draft.at] /\ Goes(p, refuses)
       \/ /\ at[p] = readsLive /\ LiveIsNewer(mem[p].seen)
          /\ mem' = [mem EXCEPT ![p].seen = live.at] /\ Goes(p, refuses)
       \/ /\ UNCHANGED mem
          /\ \/ at[p] = reads /\ draft = None /\ Goes(p, readsLive)
             \/ at[p] = reads /\ DraftMatches(p) /\ Goes(p, passes)
             \/ at[p] = readsLive /\ ~LiveIsNewer(mem[p].seen) /\ Goes(p, passes)
    /\ UNCHANGED <<scene, clock, store, reader, owner, trash, latest, crashes, history>>

CheckSave(p) == DraftConflict(p, "checkSave", "checkSaveLive", "saving", "keepOrReload")

\* base_live_at is kept from the first save, unless the person kept their copy.
KeepsBase(p) == draft # None /\ ~mem[p].force

UpsertDraft(p) ==
    /\ at[p] = "saving"
    /\ draft' = [at |-> clock + 1, from |-> mem[p].from,
                 base |-> IF KeepsBase(p) THEN draft.base ELSE mem[p].base]
    /\ clock' = clock + 1
    /\ Goes(p, "readBack")
    /\ UNCHANGED <<scene, no, whole, page, live, cand, tests, cached, mem, reader, owner, trash, latest, crashes, history>>

ReadBack(p) ==
    /\ at[p] = "readBack"
    /\ IF draft = None THEN mem' = [mem EXCEPT ![p].force = FALSE]
       ELSE mem' = [mem EXCEPT ![p] = [@ EXCEPT !.seen = draft.at, !.force = FALSE]]
    /\ Goes(p, "editing")
    /\ UNCHANGED <<scene, clock, store, reader, owner, trash, latest, crashes, history>>

\* The person's answer to a DRAFT_CONFLICT, on a save and on a publish.
Reload(p) ==
    /\ at[p] \in {"keepOrReload", "anywayOrReload"}
    /\ Goes(p, "opening")
    /\ UNCHANGED <<scene, clock, store, mem, reader, owner, trash, latest, crashes, history>>

KeepMine(p) ==
    /\ \/ /\ at[p] = "keepOrReload"
          /\ mem' = [mem EXCEPT ![p].force = TRUE]
          /\ Goes(p, "saving")
       \/ /\ at[p] = "anywayOrReload"
          /\ mem' = [mem EXCEPT ![p] = [@ EXCEPT !.force = TRUE, !.over = FALSE]]
          /\ Goes(p, "staleDraft")
    /\ UNCHANGED <<scene, clock, store, reader, owner, trash, latest, crashes, history>>

Discard(p) ==
    /\ at[p] = "editing" /\ draft # None /\ mem[p].seen # 0
    /\ draft' = None
    /\ Goes(p, "opening")
    /\ UNCHANGED <<scene, clock, no, whole, page, live, cand, tests, cached, mem, reader, owner, trash, latest, crashes, history>>

\* publishNow of the client, then handlePublish up to its commit.  After a
\* STALE_BASE the person publishes anyway, without the base, or goes on editing.
AsksToPublish(p) == Goes(p, IF mem[p].seen # 0 /\ ~mem[p].force THEN "checkPublish"
                            ELSE IF mem'[p].over THEN "page" ELSE "staleDraft")

Publish(p) ==
    /\ at[p] = "editing"
    /\ mem' = [mem EXCEPT ![p].over = FALSE]
    /\ AsksToPublish(p)
    /\ UNCHANGED <<scene, clock, store, reader, owner, trash, latest, crashes, history>>

CheckPublish(p) ==
    DraftConflict(p, "checkPublish", "checkPublishLive",
                  IF mem[p].over THEN "page" ELSE "staleDraft", "anywayOrReload")

\* staleBaseConflict reads the draft's base, then the production row.
Earlier(a, b) == IF a < b THEN a ELSE b
SavedAt(p) == IF draft = None THEN mem[p].base ELSE draft.at
EffectiveBase(p) == IF draft = None THEN mem[p].base ELSE Earlier(draft.base, mem[p].base)

StaleDraft(p) ==
    /\ at[p] = "staleDraft"
    /\ mem' = [mem EXCEPT ![p].eff = EffectiveBase(p)]
    /\ Goes(p, "staleLive")
    /\ UNCHANGED <<scene, clock, store, reader, owner, trash, latest, crashes, history>>

\* What passes remembers in eff when it was checked, for CheckedIsCurrent.
StaleLive(p) ==
    /\ at[p] = "staleLive"
    /\ IF LiveIsNewer(mem[p].eff)
       THEN Goes(p, "stale") /\ UNCHANGED mem
       ELSE Goes(p, "page") /\ mem' = [mem EXCEPT ![p].eff = clock]
    /\ UNCHANGED <<scene, clock, store, reader, owner, trash, latest, crashes, history>>

PublishAnyway(p) ==
    /\ at[p] = "stale"
    /\ \/ mem' = [mem EXCEPT ![p].over = TRUE] /\ AsksToPublish(p)
       \/ mem' = [mem EXCEPT ![p].force = FALSE] /\ Goes(p, "editing")
    /\ UNCHANGED <<scene, clock, store, reader, owner, trash, latest, crashes, history>>

\* The batch: version, assets, deployment, and the draft is cleared.  If another
\* publish took the number the whole batch fails and the tab goes on.
Commit(p) ==
    /\ at[p] = "commit"
    /\ IF IsFree(mem[p].num)
       THEN /\ no' = [no EXCEPT ![p] = mem[p].num]
            /\ whole' = whole \cup {p}
            /\ draft' = None
            /\ IF mem[p].block
               THEN /\ cand' = p /\ held' = held \cup {p}
                    /\ Goes(p, "tests") /\ UNCHANGED <<live, clock, excused>>
               ELSE /\ GoesLive(p, mem[p].slug)
                    /\ Goes(p, "purge") /\ UNCHANGED <<cand, held>>
            /\ UNCHANGED mem
       ELSE /\ mem' = [mem EXCEPT ![p] = [@ EXCEPT !.force = FALSE, !.over = FALSE]]
            /\ Goes(p, "editing")
            /\ UNCHANGED <<no, whole, draft, cand, live, clock, held, excused>>
    /\ UNCHANGED <<scene, page, tests, cached, reader, owner, trash, latest, crashes, passed, revived>>

-----------------------------------------------------------------------------
(* Publishing over the API.                                                *)

\* The client of an edit names the head it has read; editArtifact reads the head.
ReadHead(p) ==
    /\ at[p] = "reading"
    /\ \E v \in Versions : IsHead(v) /\ mem' = [mem EXCEPT ![p].base = no[v]]
    /\ Goes(p, "checkHead")
    /\ UNCHANGED <<scene, clock, store, reader, owner, trash, latest, crashes, history>>

CheckHead(p) ==
    /\ at[p] = "checkHead"
    /\ IF \E v \in Versions : IsHead(v) /\ no[v] = mem[p].base THEN Goes(p, "page") /\ UNCHANGED mem ELSE Ends(p)
    /\ UNCHANGED <<scene, clock, store, reader, owner, trash, latest, crashes, history>>

\* Everyone but the chat reads the page's slug, goes on for a while, and purges that
\* key in the end.  The editor and a restore prefer the deployment's slug; the editor
\* and a rollback do not look at deleted_at.
SlugOf(p) == IF Kind(p) \in {"tab", "restore"} /\ live.ver # None THEN live.slug ELSE page
FindsPage(p) == page # Tombstone \/ Kind(p) \in {"tab", "rollback"}

ReadPage(p) ==
    /\ at[p] = "page"
    /\ IF FindsPage(p)
       THEN /\ mem' = [mem EXCEPT ![p].slug = SlugOf(p)]
            /\ Goes(p, CASE Kind(p) = "tab" -> "decide"
                         [] Kind(p) = "restore" -> "target"
                         [] Kind(p) = "rollback" -> "rollback"
                         [] OTHER -> "number")
       ELSE Ends(p)
    /\ UNCHANGED <<scene, clock, store, reader, owner, trash, latest, crashes, history>>

\* A restore names a version that has its files.
Target(p) ==
    /\ at[p] = "target"
    /\ \E v \in whole : mem' = [mem EXCEPT ![p].target = v]
    /\ Goes(p, "number")
    /\ UNCHANGED <<scene, clock, store, reader, owner, trash, latest, crashes, history>>

\* The editor decides on the channel before the number, the others after the insert.
Decide(p) ==
    /\ at[p] = "decide"
    /\ mem' = [mem EXCEPT ![p].block = Blocks]
    /\ Goes(p, IF Kind(p) = "tab" THEN "number" ELSE "place")
    /\ UNCHANGED <<scene, clock, store, reader, owner, trash, latest, crashes, history>>

\* expectedVersionNo is one more than the head an edit was made on.
AnyHead(p, head) == TRUE
AsExpected(p, head) == Kind(p) = "edit" => head = mem[p].base

Number(p) ==
    /\ at[p] = "number"
    /\ \E v \in Versions :
        /\ IsHead(v)
        /\ IF AsExpected(p, no[v])
           THEN /\ mem' = [mem EXCEPT ![p].num = no[v] + 1]
                /\ Goes(p, IF Kind(p) = "tab" THEN "commit" ELSE "insert")
           ELSE Ends(p)
    /\ UNCHANGED <<scene, clock, store, reader, owner, trash, latest, crashes, history>>

\* A restore inserts version and assets in one batch.
Insert(p) ==
    /\ at[p] = "insert"
    /\ IF IsFree(mem[p].num)
       THEN /\ no' = [no EXCEPT ![p] = mem[p].num]
            /\ IF Kind(p) = "restore"
               THEN whole' = whole \cup {p} /\ Goes(p, "decide")
               ELSE UNCHANGED whole /\ Goes(p, "assets")
            /\ UNCHANGED mem
       ELSE Ends(p) /\ UNCHANGED <<no, whole>>
    /\ UNCHANGED <<scene, clock, page, live, cand, draft, tests, cached, reader, owner, trash, latest, crashes, history>>

StoreAssets(p) ==
    /\ at[p] = "assets"
    /\ whole' = whole \cup {p}
    /\ Goes(p, IF Kind(p) = "chat" THEN "place" ELSE "decide")
    /\ UNCHANGED <<scene, clock, no, page, live, cand, draft, tests, cached, mem, reader, owner, trash, latest, crashes, history>>

\* promoteVersion
Promote(p) ==
    /\ at[p] = "place" /\ Kind(p) # "chat"
    /\ IF mem[p].block
       THEN /\ cand' = p /\ held' = held \cup {p}
            /\ Goes(p, "tests") /\ UNCHANGED <<live, clock, excused>>
       ELSE /\ GoesLive(p, mem[p].slug)
            /\ Goes(p, "purge") /\ UNCHANGED <<cand, held>>
    /\ UNCHANGED <<scene, no, whole, page, draft, tests, cached, mem, reader, owner, trash, latest, crashes, passed, revived>>

\* The admin chat moves the production row if there is one, and leaves the cache.
ChatPlaces(p) ==
    /\ at[p] = "place" /\ Kind(p) = "chat"
    /\ IF live.ver # None
       THEN /\ live' = [live EXCEPT !.ver = p, !.at = clock + 1]
            /\ clock' = clock + 1 /\ excused' = excused \cup {live.slug}
       ELSE UNCHANGED <<live, clock, excused>>
    /\ Ends(p)
    /\ UNCHANGED <<scene, no, whole, page, cand, draft, tests, cached, reader, owner, trash, latest, crashes, passed, held, revived>>

\* rollbackPointer: any version of the artifact will do.
Rollback(p) ==
    /\ at[p] = "rollback"
    /\ \E v \in {w \in Versions : no[w] # 0} :
        IF live.ver # None
        THEN GoesLive(v, mem[p].slug) /\ revived' = revived \cup {v} /\ Goes(p, "purge") /\ UNCHANGED mem
        ELSE Ends(p) /\ UNCHANGED <<live, clock, revived, excused>>
    /\ UNCHANGED <<scene, no, whole, page, cand, draft, tests, cached, reader, owner, trash, latest, crashes, passed, held>>

-----------------------------------------------------------------------------
(* The cache is purged, the tests run, the gate decides.                   *)

\* Each key is deleted with one retry; both attempts may fail.
LeavesKey(s) == UNCHANGED <<cached, excused>>
DeletesKey(s) ==
    \/ cached' = [cached EXCEPT ![s] = None] /\ excused' = excused \ {s}
    \/ "losesDelete" \in scene.events /\ UNCHANGED cached /\ excused' = excused \cup {s}

Purge(p) ==
    /\ at[p] \in {"purge", "purgeGate"}
    /\ DeletesKey(mem[p].slug)
    /\ IF at[p] = "purgeGate" THEN Goes(p, "clear") /\ UNCHANGED mem
       ELSE IF Kind(p) = "rollback" THEN Ends(p)
       ELSE Goes(p, "tests") /\ UNCHANGED mem
    /\ UNCHANGED <<scene, clock, no, whole, page, live, cand, draft, tests, reader, owner, trash, latest, crashes, passed, held, revived>>

\* runPostPublishTests, runBlockGate: runTests does nothing where tests are off.
RunTests(p) ==
    /\ at[p] = "tests"
    /\ IF tests.mode = "off" THEN Ends(p) ELSE Goes(p, "verdict") /\ UNCHANGED mem
    /\ UNCHANGED <<scene, clock, store, reader, owner, trash, latest, crashes, history>>

Verdicts == {"passed", "promotable", "failed"}
HasRun(verdict) == TRUE
Promotable(verdict) == verdict # "failed"

\* The run is stored, and a passing version becomes the baseline.
Verdict(p) ==
    /\ at[p] = "verdict"
    /\ \E v \in Verdicts :
        /\ passed' = IF v = "failed" THEN passed ELSE passed \cup {p}
        /\ tests' = IF v = "passed" THEN [tests EXCEPT !.baseline = p] ELSE tests
        /\ IF mem[p].block /\ Promotable(v) THEN Goes(p, "guard") /\ UNCHANGED mem ELSE Ends(p)
    /\ UNCHANGED <<scene, clock, no, whole, page, live, cand, draft, cached, reader, owner, trash, latest, crashes, held, revived, excused>>

IsCandidate(p) == cand = p

Guard(p) ==
    /\ at[p] = "guard"
    /\ IF IsCandidate(p) THEN Goes(p, "promote") /\ UNCHANGED mem ELSE Ends(p)
    /\ UNCHANGED <<scene, clock, store, reader, owner, trash, latest, crashes, history>>

GatePromotes(p) ==
    /\ at[p] = "promote"
    /\ GoesLive(p, mem[p].slug)
    /\ Goes(p, "purgeGate")
    /\ UNCHANGED <<scene, no, whole, page, cand, draft, tests, cached, mem, reader, owner, trash, latest, crashes,
                   passed, held, revived>>

ClearCandidate(p) ==
    /\ at[p] = "clear"
    /\ cand' = None
    /\ Ends(p)
    /\ UNCHANGED <<scene, clock, no, whole, page, live, draft, tests, cached, reader, owner, trash, latest, crashes, history>>

-----------------------------------------------------------------------------
(* The owner: test settings, soft delete and restore.                      *)

\* handleConfigureTests: a first block makes the live version the baseline.
LookAtTests(m) ==
    /\ "settings" \in scene.events /\ owner.at = "idle" /\ owner.left > 0
    /\ owner' = [owner EXCEPT !.mode = m, !.patch = None, !.left = @ - 1,
                   !.at = IF m = "block" /\ tests.baseline = None THEN "live" ELSE "merge"]
    /\ UNCHANGED <<scene, clock, store, at, mem, reader, trash, latest, crashes, history>>

LookAtLive ==
    /\ owner.at = "live"
    /\ owner' = [owner EXCEPT !.at = "merge", !.patch = live.ver]
    /\ UNCHANGED <<scene, clock, store, at, mem, reader, trash, latest, crashes, history>>

\* upsertTestConfig: read, merge, write.
ReadTests ==
    /\ owner.at = "merge"
    /\ owner' = [owner EXCEPT !.at = "write", !.cur = IF owner.patch # None THEN owner.patch ELSE tests.baseline]
    /\ UNCHANGED <<scene, clock, store, at, mem, reader, trash, latest, crashes, history>>

WriteTests ==
    /\ owner.at = "write"
    /\ tests' = [mode |-> owner.mode, baseline |-> owner.cur]
    /\ owner' = [owner EXCEPT !.at = "idle", !.patch = None, !.cur = None]
    /\ UNCHANGED <<scene, clock, no, whole, page, live, cand, draft, cached, at, mem, reader, trash, latest, crashes, history>>

\* softDeleteArtifact marks the artifact and frees its slug, drops its production row
\* and purges the slug that handleDeleteArtifact read.
Trash(from, to) == trash = from /\ trash' = to

SoftDelete ==
    /\ "delete" \in scene.events
    /\ \/ Trash("none", "drop") /\ page' = Tombstone /\ UNCHANGED <<live, cached, excused>>
       \/ /\ Trash("drop", "purge")
          /\ live' = [ver |-> None, at |-> 0, slug |-> Tombstone]
          /\ UNCHANGED <<page, cached, excused>>
       \/ Trash("purge", "deleted") /\ DeletesKey(FirstSlug) /\ UNCHANGED <<page, live>>
    /\ UNCHANGED <<scene, clock, no, whole, cand, draft, tests, at, mem, reader, owner, latest, crashes,
                   passed, held, revived>>

\* handleRestoreArtifact reads the latest version, takes a slug that is free (the old
\* one unless another page has it by now), and puts the version live under it.
RestoreArtifact ==
    /\ \/ /\ Trash("deleted", "rename")
          /\ \E v \in Versions : IsHead(v) /\ latest' = v
          /\ UNCHANGED <<page, live, clock, cached, revived, excused>>
       \/ /\ Trash("rename", "upsert")
          /\ page' \in Slugs
          /\ UNCHANGED <<latest, live, clock, cached, revived, excused>>
       \/ /\ Trash("upsert", "purgeBack")
          /\ live' = [ver |-> latest, at |-> clock + 1, slug |-> page]
          /\ clock' = clock + 1 /\ excused' = excused \cup LeftBy(page)
          /\ revived' = revived \cup {latest} /\ latest' = None
          /\ UNCHANGED <<page, cached>>
       \/ /\ Trash("purgeBack", "back")
          /\ DeletesKey(page)
          /\ UNCHANGED <<page, latest, live, clock, revived>>
    /\ UNCHANGED <<scene, no, whole, cand, draft, tests, at, mem, reader, owner, crashes, passed, held>>

-----------------------------------------------------------------------------
(* Visitors, time and the platform.                                        *)

\* handleServe: a hit under the slug asked for is served; a miss reads the deployment
\* with that slug in D1 ...
Newest == IF live.ver = None THEN None ELSE CHOOSE v \in Versions : IsHead(v)
Deployed == live.ver
Miss(r) ==
    /\ reader[r] = None /\ Deployed # None /\ cached[live.slug] = None
    /\ reader' = [reader EXCEPT ![r] = [slug |-> live.slug, ver |-> Deployed]]
    /\ UNCHANGED <<scene, clock, store, at, mem, owner, trash, latest, crashes, history>>

\* ... and caches what it read.
Fill(r) ==
    /\ reader[r] # None
    /\ cached' = [cached EXCEPT ![reader[r].slug] = reader[r].ver]
    /\ excused' = IF reader[r].ver # Deployment(reader[r].slug)
                  THEN excused \cup {reader[r].slug} ELSE excused \ {reader[r].slug}
    /\ reader' = [reader EXCEPT ![r] = None]
    /\ UNCHANGED <<scene, clock, no, whole, page, live, cand, draft, tests, at, mem, owner, trash, latest, crashes,
                   passed, held, revived>>

\* CACHE_TTL
KeepForever(s) == FALSE /\ UNCHANGED vars
Expire(s) ==
    /\ cached[s] # None
    /\ cached' = [cached EXCEPT ![s] = None] /\ excused' = excused \ {s}
    /\ UNCHANGED <<scene, clock, no, whole, page, live, cand, draft, tests, at, mem, reader, owner, trash, latest,
                   crashes, passed, held, revived>>

\* The invocation is cut; waitUntil is cut with it.
Waits == {"opening", "editing", "keepOrReload", "anywayOrReload", "stale", "reading", "done"}

Crash(p) ==
    /\ "cut" \in scene.events /\ at[p] \notin Waits /\ crashes < MaxCrashes
    /\ crashes' = crashes + 1
    /\ excused' = IF at[p] \in {"purge", "purgeGate"} THEN excused \cup {mem[p].slug} ELSE excused
    /\ Ends(p)
    /\ UNCHANGED <<scene, clock, store, reader, owner, trash, latest, passed, held, revived>>

-----------------------------------------------------------------------------
\* What the person at a tab decides.
Person(p) == \/ LoadLive(p) \/ SaveDraft(p) \/ Reload(p) \/ KeepMine(p) \/ Discard(p)
             \/ Publish(p) \/ PublishAnyway(p) \/ ReadHead(p)

\* What a started request goes on to do.
Handler(p) ==
    \/ LoadDraft(p) \/ CheckSave(p) \/ UpsertDraft(p) \/ ReadBack(p)
    \/ CheckPublish(p) \/ StaleDraft(p) \/ StaleLive(p) \/ Commit(p)
    \/ CheckHead(p) \/ ReadPage(p) \/ Target(p) \/ Decide(p) \/ Number(p) \/ Insert(p) \/ StoreAssets(p)
    \/ Promote(p) \/ ChatPlaces(p) \/ Rollback(p)
    \/ Purge(p) \/ RunTests(p) \/ Verdict(p) \/ Guard(p) \/ GatePromotes(p) \/ ClearCandidate(p)

Next ==
    \/ \E p \in Authors : Person(p) \/ Handler(p) \/ Crash(p)
    \/ \E m \in {"off", "monitor", "block"} : LookAtTests(m)
    \/ LookAtLive \/ ReadTests \/ WriteTests \/ SoftDelete \/ RestoreArtifact
    \/ \E r \in Readers : Miss(r) \/ Fill(r)
    \/ \E s \in Keys : Expire(s)

\* Started requests go on unless they are cut, and cached entries expire.
Fairness ==
    /\ \A p \in Authors : WF_vars(Handler(p))
    /\ \A r \in Readers : WF_vars(Fill(r))
    /\ \A s \in Keys : WF_vars(Expire(s))

Spec == Init /\ [][Next]_vars /\ Fairness

-----------------------------------------------------------------------------
Places == {"opening", "loading", "editing", "checkSave", "checkSaveLive", "saving",
           "readBack", "keepOrReload", "anywayOrReload", "checkPublish",
           "checkPublishLive", "staleDraft", "staleLive", "stale", "decide", "number",
           "commit", "reading", "checkHead", "page", "target", "insert", "assets", "place",
           "rollback", "purge", "purgeGate", "tests", "verdict", "guard", "promote",
           "clear", "done"}

DraftType == [at : Nat, from : Nat, base : Nat]
MemType == [from : Nat, base : Nat, seen : Nat, force : BOOLEAN, over : BOOLEAN, eff : Nat,
            num : Nat, block : BOOLEAN, saves : Nat, target : Versions \cup {None},
            slug : Keys]

\* Every variable has its type: the rows, where each invocation is and what it holds.
TypeOK ==
    /\ scene \in Scenes
    /\ clock \in Nat
    /\ no \in [Versions -> Nat]
    /\ whole \subseteq Versions
    /\ page \in Keys
    /\ live \in [ver : Versions \cup {None}, at : Nat, slug : Keys]
    /\ cand \in Authors \cup {None}
    /\ draft = None \/ draft \in DraftType
    /\ tests \in [mode : {"off", "monitor", "block"}, baseline : Versions \cup {None}]
    /\ cached \in [Keys -> Versions \cup {None}]
    /\ at \in [Authors -> Places]
    /\ mem \in [Authors -> MemType]
    /\ reader \in [Readers -> [slug : Keys, ver : Versions] \cup {None}]
    /\ owner \in [at : {"idle", "live", "merge", "write"}, mode : {"off", "monitor", "block"},
                  patch : Versions \cup {None}, cur : Versions \cup {None}, left : Nat]
    /\ trash \in {"none", "drop", "purge", "deleted", "rename", "upsert", "purgeBack", "back"}
    /\ latest \in Versions \/ (latest = None /\ trash \notin {"rename", "upsert"})
    /\ crashes \in Nat
    /\ passed \subseteq Authors /\ held \subseteq Authors
    /\ revived \subseteq Versions
    /\ excused \subseteq Keys

\* An edit over the API (base_version, expectedVersionNo) replaces exactly the head it
\* read: no other version has a number after its base and up to its own, however many
\* publishes of any kind overlap it.
EditsBuildOnTheHead ==
    \A p \in Authors : Kind(p) = "edit" /\ no[p] # 0 =>
        \A v \in Versions \ {p} : no[v] <= mem[p].base \/ no[v] > no[p]

\* What visitors can get, from the production row or under any key of the cache, has all
\* its files, unless a rollback or the restore of the artifact named a version without them.
Served == {live.ver} \cup {cached[s] : s \in Keys} \cup {reader[r].ver : r \in {q \in Readers : reader[q] # None}}
ServedIsWhole == \A v \in Served \ {None} : v \in whole \/ v \in revived

\* A version the block gate held back is served only once its tests were promotable, or
\* after someone put it live by hand; no overlap of publishes, changes of the settings
\* or restores brings it out.
HeldUntilPassed == \A v \in Served : v \in held => v \in passed \/ v \in revived

\* An entry that is not what D1 has under its slug has someone who is about to purge that
\* very key, or one of these made it: a fill that read D1 before the change, a key that
\* could not be deleted twice, an invocation cut before its purge, the admin chat's
\* publish, or a change of the production row by someone who purges another slug than
\* it had: an author who read the page's slug before it was deleted or restored, or in
\* between, or the restore itself, which may find a row that such an author inserted.
AboutToPurge(s) == \/ \E p \in Authors : at[p] \in {"purge", "purgeGate"} /\ mem[p].slug = s
                   \/ trash = "purge" /\ s = FirstSlug
                   \/ trash = "purgeBack" /\ s = page
CacheIsCurrent == \A s \in Keys : cached[s] \in {None, Deployment(s)} \/ AboutToPurge(s) \/ s \in excused

\* A publish of the only open tab that has passed staleBaseConflict is built on the page
\* that was live when it was checked: no sequence of saves, reloads, discards, kept
\* copies and publishes by others gets an older copy past the check.  (Two tabs do it,
\* see DraftSaysWhatItBuildsOn.)
OnlyTab(p) == Kind(p) = "tab" /\ \A q \in Authors \ {p} : Kind(q) # "tab"
Checked(p) == ~mem[p].over /\ at[p] \in {"page", "decide", "number", "commit"}
CheckedIsCurrent ==
    \A p \in Authors : OnlyTab(p) /\ Checked(p) => live.at <= mem[p].from \/ live.at > mem[p].eff

\* Whatever raced, once nobody publishes any more visitors get the live version for good,
\* and nothing under a slug the page no longer has.
CacheSettles == <>[](\A s \in Keys : cached[s] \in {None, Deployment(s)})

\* src/shareout-app/src/tests/block-gate.ts:48-50: "promote to production only if it passes
\* AND is still the newest candidate (a later republish supersedes it - monotonic, no
\* lost-update regression to an older version)".
GateIsMonotonic == [][\A p \in Authors : GatePromotes(p) /\ live.ver # None => no[live.ver] <= no[p]]_vars

\* src/shareout-app/src/editor/draft.ts:233: "base_live_at: when the live page this draft
\* builds on went live".
DraftSaysWhatItBuildsOn == draft # None => draft.base <= draft.from
=============================================================================
