---------------------------- MODULE AddonSources ----------------------------
(* An add-on repository (opiha_apps/addon_repos.py) and the plan and job     *)
(* that build one of its add-ons (manager.py).  Every request has a thread   *)
(* of its own and no lock keeps the clone still while a plan is made from it *)
(* or a job copies it.  Files are known by the commit they are of: the       *)
(* add-on's manifest stands for the part that is reviewed, source for what   *)
(* is built.                                                                 *)
EXTENDS Integers

CONSTANTS Handlers,   \* requests that add, refresh or remove the repository
          MaxCommit   \* bound: commits upstream

ASSUME SourcesAssumption == MaxCommit \in Nat \ {0}

VARIABLES
  upstream,  \* its newest commit
  clone,     \* repos/<id>: is there, has meta.json, its two files
  handler,   \* what each request does, and the clone it works on beside it
  review,    \* the plan: the manifest it shows, the content it is bound to
  builder,   \* the job: its next step and the files copied
  built      \* the content of the image and the review it was built for

srcVars == <<upstream, clone, handler, review, builder, built>>

NoFiles == [manifest |-> 0, source |-> 0]
NoClone == [dir |-> FALSE, meta |-> FALSE, files |-> NoFiles]
At(c) == [manifest |-> c, source |-> c]
Rest == [pc |-> "idle", files |-> NoFiles]
NoBuild == [pc |-> "idle", files |-> NoFiles]
NoReview == [pc |-> "none", raw |-> 0, hash |-> NoFiles]

SrcInit ==
  /\ upstream = 1 /\ clone = NoClone
  /\ handler = [h \in Handlers |-> Rest]
  /\ review = NoReview /\ builder = NoBuild
  /\ built = [files |-> NoFiles, review |-> NoReview]

Does(h, step) == handler' = [handler EXCEPT ![h].pc = step]
Rests(h) == handler' = [handler EXCEPT ![h] = Rest]

Commits ==
  /\ upstream < MaxCommit /\ upstream' = upstream + 1
  /\ UNCHANGED <<clone, handler, review, builder, built>>

-----------------------------------------------------------------------------
(* add: cloned and checked in a hidden directory, then renamed.  A rename    *)
(* onto a directory that another request has put there fails.                *)

Adds(h) ==
  /\ handler[h].pc = "idle" /\ ~clone.dir
  /\ handler' = [handler EXCEPT ![h] = [pc |-> "cloned", files |-> At(upstream)]]
  /\ UNCHANGED <<upstream, clone, review, builder, built>>

Renames(h) ==
  /\ handler[h].pc = "cloned"
  /\ clone' = IF clone.dir THEN clone ELSE [dir |-> TRUE, meta |-> TRUE, files |-> handler[h].files]
  /\ Rests(h)
  /\ UNCHANGED <<upstream, review, builder, built>>

(* refresh: fetch, then reset --hard, file by file; git's own lock admits    *)
(* one reset at a time.                                                      *)
Fetches(h) ==
  /\ handler[h].pc = "idle" /\ clone.meta
  /\ handler' = [handler EXCEPT ![h] = [pc |-> "fetched", files |-> At(upstream)]]
  /\ UNCHANGED <<upstream, clone, review, builder, built>>

ResetStarts(h) ==
  /\ handler[h].pc = "fetched" /\ clone.dir
  /\ \A g \in Handlers : handler[g].pc # "reset"
  /\ Does(h, "reset")
  /\ clone' = [clone EXCEPT !.files.manifest = handler[h].files.manifest]
  /\ UNCHANGED <<upstream, review, builder, built>>

ResetEnds(h) ==
  /\ handler[h].pc = "reset" /\ clone.dir
  /\ Rests(h)
  /\ clone' = [clone EXCEPT !.files.source = handler[h].files.source]
  /\ UNCHANGED <<upstream, review, builder, built>>

(* git fails: no network, another reset, a directory that is being removed.  *)
RefreshFails(h) ==
  /\ handler[h].pc \in {"fetched", "reset"} /\ Rests(h)
  /\ UNCHANGED <<upstream, clone, review, builder, built>>

(* remove: rmtree goes through the directory in the order the disk has it    *)
(* and stops at an error, such as a file that a refresh has just written.    *)
Removes(h) ==
  /\ handler[h].pc = "idle" /\ clone.meta
  /\ Does(h, "removing")
  /\ UNCHANGED <<upstream, clone, review, builder, built>>

RemoveGoesOn(h) ==
  /\ handler[h].pc = "removing"
  /\ \/ clone' = [clone EXCEPT !.meta = FALSE] /\ UNCHANGED handler
     \/ clone' = [clone EXCEPT !.files = NoFiles] /\ UNCHANGED handler
     \/ ~clone.meta /\ clone.files = NoFiles /\ clone' = NoClone /\ Rests(h)
     \/ UNCHANGED clone /\ Rests(h)
  /\ UNCHANGED <<upstream, review, builder, built>>

-----------------------------------------------------------------------------
(* plan_addon: the manifest is read and shown; then the directory is hashed. *)

ReadsRaw ==
  /\ review.pc = "none" /\ clone.meta /\ clone.files.manifest # 0
  /\ review' = [pc |-> "hash", raw |-> clone.files.manifest, hash |-> NoFiles]
  /\ UNCHANGED <<upstream, clone, handler, builder, built>>

Hashes ==
  /\ review.pc = "hash"
  /\ review' = IF clone.files.manifest = 0 THEN NoReview
               ELSE [review EXCEPT !.pc = "planned", !.hash = clone.files]
  /\ UNCHANGED <<upstream, clone, handler, builder, built>>

Expired ==
  /\ review.pc = "planned" /\ builder.pc = "idle" /\ review' = NoReview
  /\ UNCHANGED <<upstream, clone, handler, builder, built>>

(* The job, approved: refused if the hash has changed; then the directory is *)
(* copied file by file and built.                                            *)
Compares ==
  /\ review.pc = "planned" /\ builder.pc = "idle"
  /\ IF clone.files = review.hash THEN builder' = [NoBuild EXCEPT !.pc = "copy"] /\ UNCHANGED review
                                  ELSE review' = NoReview /\ UNCHANGED builder
  /\ UNCHANGED <<upstream, clone, handler, built>>

CopiesFile ==
  /\ builder.pc \in {"copy", "copying"}
  /\ builder' = IF builder.pc = "copy" THEN [builder EXCEPT !.pc = "copying", !.files.manifest = clone.files.manifest]
                ELSE [builder EXCEPT !.pc = "build", !.files.source = clone.files.source]
  /\ UNCHANGED <<upstream, clone, handler, review, built>>

(* The build, or its failure; without a Dockerfile it always fails.          *)
Builds ==
  /\ builder.pc = "build"
  /\ \/ builder.files.source # 0 /\ built' = [files |-> builder.files, review |-> review]
     \/ UNCHANGED built
  /\ builder' = NoBuild /\ review' = NoReview
  /\ UNCHANGED <<upstream, clone, handler>>

-----------------------------------------------------------------------------
SrcNext ==
  \/ Commits
  \/ \E h \in Handlers :
       \/ Adds(h) \/ Renames(h) \/ Fetches(h) \/ ResetStarts(h) \/ ResetEnds(h)
       \/ RefreshFails(h) \/ Removes(h) \/ RemoveGoesOn(h)
  \/ ReadsRaw \/ Hashes \/ Expired \/ Compares \/ CopiesFile \/ Builds

SrcSpec == SrcInit /\ [][SrcNext]_srcVars

-----------------------------------------------------------------------------
Files == [manifest : 0..MaxCommit, source : 0..MaxCommit]
Reviews == [pc : {"none", "hash", "planned"}, raw : 0..MaxCommit, hash : Files]

SrcTypeOK ==
  /\ upstream \in 1..MaxCommit
  /\ clone \in [dir : BOOLEAN, meta : BOOLEAN, files : Files]
  /\ handler \in [Handlers -> [pc : {"idle", "cloned", "fetched", "reset", "removing"}, files : Files]]
  /\ review \in Reviews
  /\ builder \in [pc : {"idle", "copy", "copying", "build"}, files : Files]
  /\ built \in [files : Files, review : Reviews]

(* tree_hash: "Content hash of an add-on directory so an approved plan builds *)
(* exactly what was reviewed"; ADDONS.md: "if the repository changes between  *)
(* planning and approval, the job refuses".  An image has the content its plan *)
(* was bound to, with the manifest that was shown.                           *)
BuildsWhatWasReviewed ==
  built.files = built.review.hash /\ built.files.manifest = built.review.raw
=============================================================================
