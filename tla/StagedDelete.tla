---------------------------- MODULE StagedDelete ----------------------------
(* Permanent deletion of one path while other processes change the same    *)
(* directory: the listing and the confirmed intent, the move of the target *)
(* to a hidden stage, the index, shares, favorites and version rows, the   *)
(* quarantine, and the unlink.                                             *)
(*                                                                         *)
(* A thing is a file or folder object (an inode).  Its stamp is its change *)
(* time, which every rename and every edit moves; size and modification    *)
(* time tell nothing apart, since an edit can put both back.  The folder's *)
(* content is its list of entries.                                         *)
EXTENDS Naturals, FiniteSets

CONSTANTS
    Things,           \* the objects there are
    Texts,            \* contents
    Bare,             \* the content of an empty folder
    NoThing, NoText,
    MaxOutside,       \* bound: changes made by other processes
    MaxServed,        \* bound: changes made by other requests, including of the policy
    MaxSlips          \* bound: calls that fail

VARIABLES
    held,      \* the thing at the target path, at the hidden stage and in the quarantine
    thing,     \* content and stamp of each thing
    aside,     \* things other processes or requests took elsewhere
    links,     \* what the server keeps of the path: index row, share, favorite, version rows
    spare,     \* recovery copy of the witness
    mode,      \* the deletion policy
    epoch,     \* mutationEpoch
    del,       \* the request
    unlinked,  \* what was unlinked, with its content at that moment (history)
    outside, slips

deleteVars == <<held, thing, aside, links, spare, mode, epoch, del, unlinked, outside, slips>>

Spots == {"target", "stage", "box"}
NoToken == [thing |-> NoThing, stamp |-> 0, text |-> NoText]

\* deleteIdentityToken: what names an object at one moment; and with the content hash.
Identity(t) == [thing |-> t, stamp |-> thing[t].stamp, text |-> NoText]
Snapshot(t) == [Identity(t) EXCEPT !.text = thing[t].text]

\* sameDeleteStageEntry: the object at a spot is the one seen, unchanged since.
Still(spot, token) ==
    /\ held[spot] # NoThing
    /\ held[spot] = token.thing
    /\ thing[token.thing].stamp = token.stamp

\* hashStableStagedFile, or the walk of an empty folder: the content is the one seen, and no
\* change came while it was read.
Intact(spot) == Still(spot, del.cap) /\ thing[held[spot]].text = del.seen.text

KeepTree == UNCHANGED <<held, thing, aside>>
KeepRest == UNCHANGED <<mode, epoch, outside>>
To(at) == del' = [del EXCEPT !.at = at]
Slip == slips < MaxSlips /\ slips' = slips + 1
NoSlip == UNCHANGED slips

\* A rename: the object keeps its content and gets a new stamp.
Rename(from, to) ==
    /\ held' = [held EXCEPT ![to] = held[from], ![from] = NoThing]
    /\ thing' = [thing EXCEPT ![held[from]].stamp = @ + 1]
    /\ UNCHANGED aside

\* The reply.  Warnings alone are a success with warning headers; a residual is reported as
\* a failed recovery; anything else is a refusal.
Reply(d, kind) ==
    [d EXCEPT !.at = "done",
              !.answer = CASE kind = "error" /\ d.told = {} -> "refused"
                           [] kind = "error" -> "residual"
                           [] kind = "done" /\ d.told = {} /\ ~d.warned -> "deleted"
                           [] OTHER -> "warned"]
Refuse == del' = Reply(del, "error")

-----------------------------------------------------------------------------
(* Listing, intent and request.                                            *)

\* The listing a user looks at, with the identity token of the entry.
ListTarget ==
    /\ del.at = "idle" /\ held["target"] # NoThing
    /\ del' = [del EXCEPT !.at = "listed", !.shown = Snapshot(held["target"])]
    /\ NoSlip /\ KeepTree /\ KeepRest /\ UNCHANGED <<links, spare, unlinked>>

\* prepareDeleteIntents: the policy and the epoch are read, then the tree without the lock.
StartIntent ==
    /\ del.at = "listed"
    /\ del' = [del EXCEPT !.at = "scan", !.epoch = epoch, !.mode = mode]
    /\ NoSlip /\ KeepTree /\ KeepRest /\ UNCHANGED <<links, spare, unlinked>>

\* The entry must still be the one that was listed.
ScanTarget ==
    /\ del.at = "scan"
    /\ IF Still("target", del.shown)
       THEN del' = [del EXCEPT !.at = "scanHash", !.token = Identity(held["target"])]
       ELSE del' = [del EXCEPT !.at = "scanned", !.token = NoToken]
    /\ NoSlip /\ KeepTree /\ KeepRest /\ UNCHANGED <<links, spare, unlinked>>

\* The content is read by name afterwards.
ScanContent ==
    /\ del.at = "scanHash"
    /\ IF held["target"] # NoThing
       THEN del' = [del EXCEPT !.at = "scanned", !.token.text = thing[held["target"]].text]
       ELSE del' = [del EXCEPT !.at = "scanned", !.token = NoToken]
    /\ NoSlip /\ KeepTree /\ KeepRest /\ UNCHANGED <<links, spare, unlinked>>

\* Two attempts that a mutation overtook are followed by one under the lock.
LastAttempt == del.tries = 2
EndIntent ==
    /\ del.at = "scanned"
    /\ \/ /\ ~LastAttempt /\ del.epoch # epoch
          /\ del' = [del EXCEPT !.at = "scan", !.tries = @ + 1, !.epoch = epoch, !.mode = mode]
       \/ /\ LastAttempt \/ del.epoch = epoch
          /\ IF del.token = NoToken THEN Refuse ELSE To("confirmed")
    /\ NoSlip /\ KeepTree /\ KeepRest /\ UNCHANGED <<links, spare, unlinked>>

\* DeleteWithExpectedPolicyAndTarget: the policy must be the confirmed one.  A deletion into
\* the trash is another transaction.
RequestConfirmed ==
    /\ del.at = "confirmed"
    /\ epoch' = epoch + 1
    /\ IF del.mode # mode THEN Refuse
       ELSE IF mode = "trash" THEN del' = [del EXCEPT !.at = "done", !.answer = "trashed"]
       ELSE To("stat")
    /\ NoSlip /\ KeepTree /\ UNCHANGED <<links, spare, unlinked, mode, outside>>

\* delete and PermanentDelete: no confirmation; what the request finds is what it deletes.
\* The content is hashed now or when the witness is open.
RequestPlain(hashed) ==
    /\ del.at = "idle" /\ mode = "permanent"
    /\ epoch' = epoch + 1
    /\ del' = [del EXCEPT !.at = "stat", !.plain = TRUE, !.hashed = hashed, !.mode = mode]
    /\ NoSlip /\ KeepTree /\ UNCHANGED <<links, spare, unlinked, mode, outside>>

\* deleteTargetSnapshotLocked: identity first, then content, then the comparison with the
\* confirmed token.  A folder with entries is not deleted for good.
StatTarget ==
    /\ del.at = "stat"
    /\ IF held["target"] = NoThing THEN Refuse
       ELSE LET t == held["target"] IN
            del' = [del EXCEPT !.at = "hash", !.seen = Identity(t),
                               !.shown = IF del.plain THEN Snapshot(t) ELSE @]
    /\ NoSlip /\ KeepTree /\ KeepRest /\ UNCHANGED <<links, spare, unlinked>>

HashTarget ==
    /\ del.at = "hash"
    /\ LET t    == held["target"]
           seen == [del.seen EXCEPT !.text = thing[t].text]
       IN  IF t = NoThing \/ (del.folder /\ seen.text # Bare) \/ (~del.plain /\ seen # del.token)
           THEN Refuse
           ELSE del' = [del EXCEPT !.at = "witness",
                                   !.seen = IF del.hashed \/ del.folder THEN seen ELSE @]
    /\ NoSlip /\ KeepTree /\ KeepRest /\ UNCHANGED <<links, spare, unlinked>>

-----------------------------------------------------------------------------
(* The move to the stage.                                                  *)

\* openDeleteWitness and captureDeleteWitnessContentHashLocked: a handle that keeps the
\* object readable wherever its name goes.
OpenWitness ==
    /\ del.at = "witness"
    /\ IF Still("target", del.seen)
       THEN del' = [del EXCEPT !.at = "look", !.seen = Snapshot(held["target"])]
       ELSE Refuse
    /\ NoSlip /\ KeepTree /\ KeepRest /\ UNCHANGED <<links, spare, unlinked>>

\* renameDeleteLeafNoReplace: look, rename to a fresh name, look again.
LookBeforeMove ==
    /\ del.at = "look"
    /\ IF Still("target", del.seen) THEN To("move") ELSE Refuse
    /\ NoSlip /\ KeepTree /\ KeepRest /\ UNCHANGED <<links, spare, unlinked>>

MoveToStage ==
    /\ del.at = "move"
    /\ \/ /\ held["target"] # NoThing /\ Rename("target", "stage") /\ To("moved") /\ NoSlip
       \/ /\ (held["target"] = NoThing /\ NoSlip) \/ Slip
          /\ Refuse /\ KeepTree
    /\ KeepRest /\ UNCHANGED <<links, spare, unlinked>>

\* An object that is not the witness is not moved again.  A failed directory sync is a warning.
LookAfterMove ==
    /\ del.at = "moved"
    /\ IF held["stage"] = del.seen.thing
       THEN \E warn \in BOOLEAN :
               /\ IF warn THEN Slip ELSE NoSlip
               /\ del' = [del EXCEPT !.at = "settle", !.cap = Identity(held["stage"]),
                                     !.warned = @ \/ warn]
       ELSE To("recover") /\ NoSlip
    /\ KeepTree /\ KeepRest /\ UNCHANGED <<links, spare, unlinked>>

\* preserveDeleteWitnessRecoveryLocked: the content of the open witness is copied beside the
\* target and compared with the captured hash; the unknown object stays at the stage.  A
\* folder has no copy.
Recover ==
    /\ del.at = "recover"
    /\ \/ /\ ~del.folder /\ NoSlip
          /\ spare' = thing[del.seen.thing].text
          /\ del' = Reply([del EXCEPT !.told = {"stage", "spare"},
                                      !.vouched = spare' = del.seen.text], "error")
       \/ /\ (del.folder /\ NoSlip) \/ Slip
          /\ del' = Reply([del EXCEPT !.told = {"stage"}], "error")
          /\ UNCHANGED spare
    /\ KeepTree /\ KeepRest /\ UNCHANGED <<links, unlinked>>

\* How far the request had come when it turned back.
Back(from) == del' = [del EXCEPT !.at = "unlook", !.undo = from]

Settle ==
    /\ del.at = "settle"
    /\ IF Still("stage", del.cap) THEN To("verify") ELSE Back("stage")
    /\ NoSlip /\ KeepTree /\ KeepRest /\ UNCHANGED <<links, spare, unlinked>>

\* snapshotStagedDeleteLocked; the version hashes are read after it.
VerifyStage ==
    /\ del.at = "verify"
    /\ \/ Intact("stage") /\ To("index") /\ NoSlip
       \/ /\ (~Intact("stage") /\ NoSlip) \/ Slip
          /\ Back("stage")
    /\ KeepTree /\ KeepRest /\ UNCHANGED <<links, spare, unlinked>>

-----------------------------------------------------------------------------
(* What the server keeps of the path.                                      *)

Drop(kind) == links' = [links EXCEPT ![kind] = FALSE]

DeleteIndexRow ==
    /\ del.at = "index"
    /\ \/ Drop("index") /\ To("shares") /\ NoSlip
       \/ Slip /\ Back("index") /\ UNCHANGED links
    /\ KeepTree /\ KeepRest /\ UNCHANGED <<spare, unlinked>>

\* handlePathDeleted: shares, then favorites.  A store that only warns has changed.
DisableShare ==
    /\ del.at = "shares"
    /\ \/ \E warn \in BOOLEAN : /\ IF warn THEN Slip ELSE NoSlip
                                /\ Drop("share")
                                /\ del' = [del EXCEPT !.at = "favorites", !.warned = @ \/ warn]
       \/ Slip /\ Back("hook") /\ UNCHANGED links
    /\ KeepTree /\ KeepRest /\ UNCHANGED <<spare, unlinked>>

\* A failure gives the shares back; if that fails too, the error says so.
RemoveFavorites ==
    /\ del.at = "favorites"
    /\ \/ \E warn \in BOOLEAN : /\ IF warn THEN Slip ELSE NoSlip
                                /\ Drop("favorite")
                                /\ del' = [del EXCEPT !.at = "versions", !.warned = @ \/ warn]
       \/ Slip /\ links' = [links EXCEPT !["share"] = TRUE] /\ Back("hook")
       \/ /\ slips + 1 < MaxSlips /\ slips' = slips + 2 /\ UNCHANGED links
          /\ del' = [del EXCEPT !.at = "unlook", !.undo = "hook", !.told = @ \cup {"links"}]
    /\ KeepTree /\ KeepRest /\ UNCHANGED <<spare, unlinked>>

DeleteVersionRows ==
    /\ del.at = "versions"
    /\ \/ Drop("rows") /\ To("part") /\ NoSlip
       \/ ~del.folder /\ Slip /\ Back("versions") /\ UNCHANGED links
    /\ KeepTree /\ KeepRest /\ UNCHANGED <<spare, unlinked>>

-----------------------------------------------------------------------------
(* The removal: from here on failures are warnings.                        *)

\* What remains is named in the report and left alone.
Leave(spot) == del' = [del EXCEPT !.at = "objects", !.told = @ \cup {spot}]

\* removeStagedDeleteTargetLocked: a stage that is gone is only a warning.
LookAtStage ==
    /\ del.at = "part"
    /\ IF held["stage"] = NoThing THEN del' = [del EXCEPT !.at = "objects", !.warned = TRUE]
       ELSE IF Intact("stage") THEN To("quarantine")
       ELSE Leave("stage")
    /\ NoSlip /\ KeepTree /\ KeepRest /\ UNCHANGED <<links, spare, unlinked>>

\* isolateStagedDeleteForRemovalLocked: an owner-only directory, a look, the move into it.
MakeQuarantine ==
    /\ del.at = "quarantine"
    /\ \/ Still("stage", del.cap) /\ To("into") /\ NoSlip
       \/ /\ (~Still("stage", del.cap) /\ NoSlip) \/ Slip
          /\ Leave("stage")
    /\ KeepTree /\ KeepRest /\ UNCHANGED <<links, spare, unlinked>>

MoveToQuarantine ==
    /\ del.at = "into"
    /\ IF held["stage"] # NoThing THEN Rename("stage", "box") /\ To("inside")
       ELSE Leave("stage") /\ KeepTree
    /\ NoSlip /\ KeepRest /\ UNCHANGED <<links, spare, unlinked>>

\* The object inside must be the staged one; it is synced, read once more and listed in the
\* manifest of the removal.
LookInside ==
    /\ del.at = "inside"
    /\ \/ /\ held["box"] = del.cap.thing /\ thing[held["box"]].text = del.seen.text /\ NoSlip
          /\ del' = [del EXCEPT !.at = "check", !.cap = Identity(held["box"])]
       \/ /\ (~(held["box"] = del.cap.thing /\ thing[held["box"]].text = del.seen.text) /\ NoSlip)
                \/ Slip
          /\ Leave("box")
    /\ KeepTree /\ KeepRest /\ UNCHANGED <<links, spare, unlinked>>

\* verifyQuarantinedDeleteEntry, before the object gets its last name.
CheckEntry ==
    /\ del.at = "check"
    /\ IF Still("box", del.cap) THEN To("isolate") ELSE Leave("box")
    /\ NoSlip /\ KeepTree /\ KeepRest /\ UNCHANGED <<links, spare, unlinked>>

\* isolateCheckedRemovalAt: a rename inside the quarantine, which hides any stamp before it.
IsolateEntry ==
    /\ del.at = "isolate"
    /\ thing' = [thing EXCEPT ![held["box"]].stamp = @ + 1]
    /\ To("last")
    /\ NoSlip /\ KeepRest /\ UNCHANGED <<held, aside, links, spare, unlinked>>

\* Variant: the stamp is allowed to change and the content is not read again.
LastLookByStamp ==
    /\ del.at = "last"
    /\ del' = [del EXCEPT !.at = "unlink", !.cap = Identity(held["box"])]
    /\ NoSlip /\ KeepTree /\ KeepRest /\ UNCHANGED <<links, spare, unlinked>>

\* verifyCheckedDeleteRegularFile, or the walk of the folder: the content under the last name.
\* On a difference the name is given back.
LastLook ==
    /\ del.at = "last"
    /\ IF thing[held["box"]].text = del.seen.text
       THEN /\ del' = [del EXCEPT !.at = "unlink", !.cap = Identity(held["box"])]
            /\ UNCHANGED thing
       ELSE /\ thing' = [thing EXCEPT ![held["box"]].stamp = @ + 1]
            /\ Leave("box")
    /\ NoSlip /\ KeepRest /\ UNCHANGED <<held, aside, links, spare, unlinked>>

\* The system calls offer no unlink under a condition: a file edited through an open handle
\* after the last look goes with it ("late"), a folder that got an entry does not.
Unlink ==
    /\ del.at = "unlink"
    /\ \/ /\ ~(del.folder /\ thing[held["box"]].text # Bare) /\ NoSlip
          /\ unlinked' = unlinked \cup {[Snapshot(held["box"]) EXCEPT !.stamp =
                                            IF Still("box", del.cap) THEN 0 ELSE 1]}
          /\ held' = [held EXCEPT !["box"] = NoThing]
          /\ To("clean")
       \/ /\ (del.folder /\ thing[held["box"]].text # Bare /\ NoSlip) \/ Slip
          /\ Leave("box") /\ UNCHANGED <<held, unlinked>>
    /\ KeepRest /\ UNCHANGED <<thing, aside, links, spare>>

\* removeDeleteQuarantineLocked.
RemoveQuarantine ==
    /\ del.at = "clean"
    /\ \/ To("objects") /\ NoSlip
       \/ Slip /\ del' = [del EXCEPT !.at = "objects", !.warned = TRUE]
       \/ Slip /\ Leave("box")
    /\ KeepTree /\ KeepRest /\ UNCHANGED <<links, spare, unlinked>>

\* deleteUnreferencedVersionObjects, and the reply.
DeleteObjects ==
    /\ del.at = "objects"
    /\ \/ del' = Reply(del, "done") /\ NoSlip
       \/ ~del.folder /\ Slip /\ del' = Reply([del EXCEPT !.warned = TRUE], "done")
    /\ KeepTree /\ KeepRest /\ UNCHANGED <<links, spare, unlinked>>

-----------------------------------------------------------------------------
(* Turning back.                                                           *)

\* rollbackStagedDeleteLocked: the same object, edited or not, goes back to a free path.
Stuck(spot) == del' = [del EXCEPT !.at = "unhook", !.told = @ \cup {spot}]

LookAtRollback ==
    /\ del.at = "unlook"
    /\ IF held["stage"] = del.cap.thing THEN To("unmove") ELSE Stuck("stage")
    /\ NoSlip /\ KeepTree /\ KeepRest /\ UNCHANGED <<links, spare, unlinked>>

MoveBack ==
    /\ del.at = "unmove"
    /\ IF held["stage"] # NoThing /\ held["target"] = NoThing
       THEN Rename("stage", "target") /\ To("unmoved")
       ELSE Stuck("stage") /\ KeepTree
    /\ NoSlip /\ KeepRest /\ UNCHANGED <<links, spare, unlinked>>

\* A failed sync of the restored target is an error of its own.
LookAfterRollback ==
    /\ del.at = "unmoved"
    /\ \/ held["target"] = del.cap.thing /\ To("unhook") /\ NoSlip
       \/ /\ (held["target"] # del.cap.thing /\ NoSlip) \/ Slip
          /\ Stuck("target")
    /\ KeepTree /\ KeepRest /\ UNCHANGED <<links, spare, unlinked>>

\* The hook's own rollback, only once the hook has succeeded: favorites, then shares.
RollbackHook ==
    /\ del.at = "unhook"
    /\ IF del.undo # "versions" THEN To("unindex") /\ NoSlip /\ UNCHANGED links
       ELSE \E failed \in SUBSET {"share", "favorite"} :
               /\ slips + Cardinality(failed) <= MaxSlips
               /\ slips' = slips + Cardinality(failed)
               /\ links' = [k \in DOMAIN links |->
                               IF k \in {"share", "favorite"} \ failed THEN TRUE ELSE links[k]]
               /\ del' = [del EXCEPT !.at = "unindex",
                              !.told = IF failed = {} THEN @ ELSE @ \cup {"links"}]
    /\ KeepTree /\ KeepRest /\ UNCHANGED <<spare, unlinked>>

\* The row comes back with the path, when it had been deleted.
PathBack == del.told \cap {"stage", "target"} = {}
RestoreIndex ==
    /\ del.at = "unindex"
    /\ \/ /\ NoSlip
          /\ links' = IF del.undo \in {"hook", "versions"} /\ PathBack
                      THEN [links EXCEPT !["index"] = TRUE] ELSE links
          /\ Refuse
       \/ /\ del.undo \in {"hook", "versions"} /\ PathBack /\ Slip
          /\ del' = Reply([del EXCEPT !.told = @ \cup {"links"}], "error")
          /\ UNCHANGED links
    /\ KeepTree /\ KeepRest /\ UNCHANGED <<spare, unlinked>>

-----------------------------------------------------------------------------
(* Everybody else.                                                         *)

Busy == del.at \notin {"idle", "done"}
Touched(t) == [thing EXCEPT ![t].stamp = @ + 1]

\* Another process renames, replaces or edits what it can reach by name, or writes through a
\* handle it opened before.  Quarantines are owner-only.
Meddle ==
    /\ Busy /\ outside < MaxOutside /\ outside' = outside + 1
    /\ \/ \E s \in {"target", "stage"} :
             /\ held[s] # NoThing
             /\ \E t \in aside \cup {NoThing} :
                  /\ held' = [held EXCEPT ![s] = t]
                  /\ aside' = (aside \cup {held[s]}) \ {t}
                  /\ thing' = Touched(held[s])
       \/ \E t \in aside : /\ held["target"] = NoThing
                           /\ held' = [held EXCEPT !["target"] = t]
                           /\ aside' = aside \ {t}
                           /\ thing' = Touched(t)
       \/ \E t \in Things, x \in Texts :
             /\ x # thing[t].text /\ t \notin {u.thing : u \in unlinked}
             /\ thing' = [Touched(t) EXCEPT ![t].text = x]
             /\ UNCHANGED <<held, aside>>
    /\ NoSlip /\ UNCHANGED <<links, spare, mode, epoch, del, unlinked>>

\* Other requests work under the mutation lock, which this one holds from its start and while
\* its last attempt at an intent scans.
Unlocked ==
    \/ del.at \in {"idle", "listed", "confirmed"}
    \/ del.at \in {"scan", "scanHash", "scanned"} /\ ~LastAttempt
Serve ==
    /\ Unlocked /\ epoch < MaxServed /\ epoch' = epoch + 1
    /\ \/ \E t \in aside : /\ held' = [held EXCEPT !["target"] = t]
                           /\ aside' = (aside \cup {held["target"]}) \ {t, NoThing}
                           /\ thing' = Touched(t)
                           /\ UNCHANGED mode
       \/ /\ mode' = IF mode = "trash" THEN "permanent" ELSE "trash"
          /\ KeepTree
    /\ NoSlip /\ UNCHANGED <<links, spare, del, unlinked, outside>>

-----------------------------------------------------------------------------
DeleteInit ==
    /\ \E t \in Things : /\ held = [s \in Spots |-> IF s = "target" THEN t ELSE NoThing]
                         /\ aside = Things \ {t}
    /\ thing \in [Things -> [text : Texts, stamp : {0}]]
    /\ links = [k \in {"index", "share", "favorite", "rows"} |-> TRUE]
    /\ spare = NoText
    /\ mode \in {"trash", "permanent"}
    /\ epoch = 0
    /\ \E folder \in BOOLEAN :
          del = [at |-> "idle", folder |-> folder, plain |-> FALSE, hashed |-> TRUE,
                 shown |-> NoToken, token |-> NoToken, seen |-> NoToken, cap |-> NoToken,
                 mode |-> "trash", epoch |-> 0, tries |-> 0, undo |-> "", told |-> {},
                 warned |-> FALSE, vouched |-> FALSE, answer |-> ""]
    /\ unlinked = {}
    /\ outside = 0 /\ slips = 0

IntentStep == ListTarget \/ StartIntent \/ ScanTarget \/ ScanContent \/ EndIntent
              \/ RequestConfirmed \/ \E hashed \in BOOLEAN : RequestPlain(hashed)
StageStep == StatTarget \/ HashTarget \/ OpenWitness \/ LookBeforeMove \/ MoveToStage
             \/ LookAfterMove \/ Recover \/ Settle \/ VerifyStage
LinkStep == DeleteIndexRow \/ DisableShare \/ RemoveFavorites \/ DeleteVersionRows
RemovalStep == LookAtStage \/ MakeQuarantine \/ MoveToQuarantine \/ LookInside \/ CheckEntry
               \/ IsolateEntry \/ LastLook \/ Unlink \/ RemoveQuarantine \/ DeleteObjects
BackStep == LookAtRollback \/ MoveBack \/ LookAfterRollback \/ RollbackHook \/ RestoreIndex

DeleteNext == IntentStep \/ StageStep \/ LinkStep \/ RemovalStep \/ BackStep \/ Meddle \/ Serve
DeleteSpec == DeleteInit /\ [][DeleteNext]_deleteVars

-----------------------------------------------------------------------------
(* Only what the user saw is destroyed, under the policy they confirmed:   *)
(* the listed object with the content it had in the listing, whatever      *)
(* other processes do to the path, the hidden stage or the file itself     *)
(* (a write through an open handle after the last look excepted).          *)
OnlyTheShown ==
    \A u \in unlinked : /\ u.thing = del.shown.thing
                        /\ del.mode = "permanent"
                        /\ u.text = del.shown.text \/ u.stamp = 1

(* No rename of the server replaces an object.                             *)
NothingReplaced ==
    Things = (({held[s] : s \in Spots} \ {NoThing}) \cup aside \cup {u.thing : u \in unlinked})

(* The answer is true: a plain success means the object is gone with all   *)
(* that was kept of it; a plain refusal that the path and all that is kept *)
(* of it are as they were, but for what others took; and what is left at a *)
(* hidden name was reported with that name.  A recovery copy that was      *)
(* vouched for has the content that was to be deleted.                     *)
AnswerTrue ==
    del.at = "done" =>
        /\ \A s \in {"stage", "box"} : held[s] # NoThing => s \in del.told
        /\ del.answer = "deleted" =>
              /\ \E u \in unlinked : u.thing = del.shown.thing
              /\ \A k \in DOMAIN links : ~links[k]
        /\ del.answer = "warned" => \A k \in DOMAIN links : ~links[k]
        /\ del.answer \in {"refused", "trashed"} =>
              /\ unlinked = {}
              /\ \A k \in DOMAIN links : links[k]
        /\ del.answer = "residual" => unlinked = {}
        /\ del.vouched => spare = del.shown.text

(* A permanent deletion against changes from outside, as a whole.          *)
DeletionExact == OnlyTheShown /\ NothingReplaced /\ AnswerTrue

=============================================================================
