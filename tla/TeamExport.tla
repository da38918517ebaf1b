----------------------------- MODULE TeamExport -----------------------------
(***************************************************************************)
(* Team exports.  A developer's `push` loads the events, signs an export   *)
(* of what it makes of them, and writes it to a shared folder; the team    *)
(* lead's `merge` reads the files it is given and counts, for each user,   *)
(* the export generated last.                                              *)
(*                                                                         *)
(* Pushes of one user may overlap, from two machines or two terminals, and *)
(* a merge may read the folder while files are written to it.  A push may  *)
(* fail at any step; the follow-through records it has then already        *)
(* updated (see FollowThrough) stay updated.                               *)
(*                                                                         *)
(* Of the metrics of an export only the tokens spent are kept, and the     *)
(* place of its LoadEvents in the order of all, which tells exports apart. *)
(* Time is counted in seconds, which is what GeneratedAt is precise to.    *)
(***************************************************************************)
EXTENDS Integers, Sequences, SequencesExt, FiniteSetsExt, Functions

CONSTANTS
  User,       \* the user names
  Pusher,     \* the processes that push
  UserOf,     \* the user name in the configuration of each
  KeyOf,      \* the key of the machine of each
  Keyring,    \* the lead's file of enrolled keys: a function from users to keys
  NoKey,      \* no public key
  SpendAt,    \* the tokens spent in the window of each LoadEvents
  MaxTime,    \* bound: the seconds that pass
  MaxPushes,  \* bound: how many pushes are run
  MaxFiles    \* bound: how many files a merge is given

Time == 0..MaxTime
Key == {KeyOf[p] : p \in Pusher}
Payload == {[load |-> n, spend |-> SpendAt[n]] : n \in 1..MaxPushes}

ASSUME PusherAssumption == UserOf \in [Pusher -> User]
ASSUME KeyAssumption == NoKey \notin Key /\ DOMAIN Keyring \subseteq User
ASSUME SpendAssumption == SpendAt \in [1..MaxPushes -> Nat]
ASSUME BoundAssumption == MaxTime \in Nat /\ MaxPushes \in Nat /\ MaxFiles \in Nat

\* SignedExport: a signature is the key and the payload it was made with.
Export == [user : User, at : Time, key : Key, sig : Key \X Payload, payload : Payload]

\* A file is named for the user and the second of its export.
FileName == User \X Time

VARIABLES
  now,        \* the time
  folder,     \* the files in the shared folder: for each name {e}, or {} for a
              \*   file that does not hold a whole export
  pc,         \* where each push is
  payload,    \* what each push has loaded, as a set of one, or {}
  draft,      \* the export each has built, as a set of one, or {}
  pushes,     \* how many pushes have been run
  issued,     \* all exports ever built
  lead,       \* where the merge is
  verify,     \* whether it was asked to verify signatures
  paths,      \* the files it has still to read
  exports,    \* the exports it has read
  published,  \* the exports that were whole in its files when it started
  kept,       \* what Dedupe has left of them
  rollups     \* the rollups: their labels and their SpendTokens

pushVars == <<pc, payload, draft, pushes, issued>>
mergeVars == <<lead, verify, paths, exports, published, kept, rollups>>
vars == <<now, folder, pushVars, mergeVars>>

TypeOK ==
  /\ now \in Time
  /\ DOMAIN folder \subseteq FileName
  /\ \A f \in DOMAIN folder : folder[f] = {} \/ \E e \in Export : folder[f] = {e}
  /\ pc \in [Pusher -> {"idle", "loaded", "built", "opened"}]
  /\ \A p \in Pusher : payload[p] \subseteq Payload
  /\ \A p \in Pusher : draft[p] \subseteq Export
  /\ pushes \in 0..MaxPushes
  /\ issued \subseteq Export
  /\ lead \in {"idle", "reading", "read", "verified", "rejected", "failed", "ok"}
  /\ verify \in BOOLEAN
  /\ paths \in Seq(FileName)
  /\ exports \in Seq(Export)
  /\ published \subseteq Export
  /\ kept \in Seq(Export)
  /\ rollups \subseteq [label : {"all"}, spend : Nat]

Init ==
  /\ now = 0
  /\ folder = << >>
  /\ pc = [p \in Pusher |-> "idle"]
  /\ payload = [p \in Pusher |-> {}]
  /\ draft = [p \in Pusher |-> {}]
  /\ pushes = 0
  /\ issued = {}
  /\ lead = "idle"
  /\ verify = FALSE
  /\ paths = <<>>
  /\ exports = <<>>
  /\ published = {}
  /\ kept = <<>>
  /\ rollups = {}

-----------------------------------------------------------------------------
(* push *)

\* LoadEvents and what is computed from it, up to the follow-through.
LoadEvents(p) ==
  /\ pc[p] = "idle"
  /\ pushes < MaxPushes
  /\ pushes' = pushes + 1
  /\ payload' = [payload EXCEPT ![p] = {[load |-> pushes + 1, spend |-> SpendAt[pushes + 1]]}]
  /\ pc' = [pc EXCEPT ![p] = "loaded"]
  /\ UNCHANGED <<now, folder, draft, issued, mergeVars>>

\* Mutant of SignedBy: the empty identity of a machine without a key signs.
SignedByNobody(p, data) ==
  [user |-> UserOf[p], at |-> now, key |-> NoKey, sig |-> <<NoKey, data>>,
   payload |-> data]

\* ExportBuilder.Build signs the payload and stamps the export.
SignedBy(p, data) ==
  [user |-> UserOf[p], at |-> now, key |-> KeyOf[p], sig |-> <<KeyOf[p], data>>,
   payload |-> data]

Build(p) ==
  /\ pc[p] = "loaded"
  /\ draft' = [draft EXCEPT ![p] = {SignedBy(p, data) : data \in payload[p]}]
  /\ issued' = issued \cup draft'[p]
  /\ payload' = [payload EXCEPT ![p] = {}]
  /\ pc' = [pc EXCEPT ![p] = "built"]
  /\ UNCHANGED <<now, folder, pushes, mergeVars>>

\* Mutant of ExportFilename: one file for each user.
FilenameOfUser(user, generatedAt) == <<user, 0>>

ExportFilename(user, generatedAt) == <<user, generatedAt>>

NameOf(e) == ExportFilename(e.user, e.at)

\* FilesystemExportTransport.Push, os.WriteFile: the file is created, or
\* truncated if it exists.
OpenExport(p) ==
  /\ pc[p] = "built"
  /\ \E e \in draft[p] :
       folder' = [f \in {NameOf(e)} \cup DOMAIN folder |->
                    IF f = NameOf(e) THEN {} ELSE folder[f]]
  /\ pc' = [pc EXCEPT ![p] = "opened"]
  /\ UNCHANGED <<now, payload, draft, pushes, issued, mergeVars>>

\* ... and then filled.  Over the contents of another push that has opened the
\* file too, the rest of a longer export may stay behind: that is no JSON.
WriteExport(p) ==
  /\ pc[p] = "opened"
  /\ \E e \in draft[p], contents \in {draft[p], {}} :
       /\ folder[NameOf(e)] = {} => contents = draft[p]
       /\ folder' = [folder EXCEPT ![NameOf(e)] = contents]
  /\ draft' = [draft EXCEPT ![p] = {}]
  /\ pc' = [pc EXCEPT ![p] = "idle"]
  /\ UNCHANGED <<now, payload, pushes, issued, mergeVars>>

\* The push is killed, or one of its steps returns an error; what is in the
\* folder by then stays there.
Fail(p) ==
  /\ pc[p] \in {"loaded", "built", "opened"}
  /\ payload' = [payload EXCEPT ![p] = {}]
  /\ draft' = [draft EXCEPT ![p] = {}]
  /\ pc' = [pc EXCEPT ![p] = "idle"]
  /\ UNCHANGED <<now, folder, pushes, issued, mergeVars>>

Push(p) ==
  \/ LoadEvents(p)
  \/ Build(p) \/ OpenExport(p) \/ WriteExport(p) \/ Fail(p)

-----------------------------------------------------------------------------
(* merge *)

\* The files are given in any order, some perhaps twice.
StartMerge(files, verifying) ==
  /\ lead = "idle"
  /\ files # <<>>
  /\ lead' = "reading"
  /\ paths' = files
  /\ verify' = verifying
  /\ published' = UNION {folder[f] : f \in ToSet(files)}
  /\ UNCHANGED <<now, folder, pushVars, exports, kept, rollups>>

\* loadExportFiles reads one file after the other, and gives up at one that
\* cannot be parsed.
ReadExport ==
  /\ lead = "reading"
  /\ IF paths = <<>> THEN lead' = "read" /\ UNCHANGED <<paths, exports>>
     ELSE IF folder[Head(paths)] = {} THEN lead' = "failed" /\ UNCHANGED <<paths, exports>>
     ELSE /\ \E e \in folder[Head(paths)] : exports' = Append(exports, e)
          /\ paths' = Tail(paths)
          /\ UNCHANGED lead
  /\ UNCHANGED <<now, folder, pushVars, verify, published, kept, rollups>>

\* A signature is valid for the payload and the key it was made with; without
\* a public key none is.
Verify(p, sig, pub) == pub # NoKey /\ sig = <<pub, p>>

\* A user who is not in the keyring is let through.
VerifyWithKeyring(p, sig, pub, user) ==
  Verify(p, sig, pub) /\ (user \in DOMAIN Keyring => Keyring[user] = pub)

\* With --verify, every export is verified, but against no public key.
VerifyExports ==
  /\ lead = "read"
  /\ lead' = IF verify /\ \E e \in ToSet(exports) :
                  ~VerifyWithKeyring(e.payload, e.sig, NoKey, e.user)
             THEN "rejected" ELSE "verified"
  /\ UNCHANGED <<now, folder, pushVars, verify, paths, exports, published, kept, rollups>>

\* Mutants of Newer: of two exports the one that comes later in the list; the
\* one that was read first.
LaterInList(e, prev) == TRUE
NeverNewer(e, prev) == FALSE

\* An export replaces another of its user if it was generated later.
Newer(e, prev) == e.at > prev.at

\* One more export, where the latest of each user so far are known.
WithExport(latest, e) ==
  LET same == SelectInSeq(latest, LAMBDA d : d.user = e.user)
  IN  IF same = 0 THEN Append(latest, e)
      ELSE IF Newer(e, latest[same]) THEN ReplaceAt(latest, same, e)
      ELSE latest

\* ExportMerger.Dedupe: one export for each user, in the order in which the
\* users are first met.
Dedupe(es) == FoldLeft(WithExport, <<>>, es)

\* MergeMetrics: the sum of SpendTokens.
MergeMetrics(es) == FoldLeft(LAMBDA sum, e : sum + e.payload.spend, 0, es)

\* The exports of the members of a group.
ExportsOf(users, es) ==
  FoldLeft(LAMBDA of, e : IF e.user \in users THEN Append(of, e) ELSE of, <<>>, es)

\* Rollup: one of each group that has exports, and one of all.
Rollup(es, members) ==
  {[label |-> "all", spend |-> MergeMetrics(es)]} \cup
  {[label |-> g, spend |-> MergeMetrics(ExportsOf(members[g], es))] :
     g \in {h \in DOMAIN members : ExportsOf(members[h], es) # <<>>}}

\* merge passes an empty TeamConfig to Rollup: it has no groups.
MergeExports ==
  /\ lead = "verified"
  /\ lead' = "ok"
  /\ kept' = Dedupe(exports)
  /\ rollups' = Rollup(kept', << >>)
  /\ UNCHANGED <<now, folder, pushVars, verify, paths, exports, published>>

Merge ==
  \/ \E files \in SeqOf(DOMAIN folder, MaxFiles), verifying \in BOOLEAN :
       StartMerge(files, verifying)
  \/ ReadExport \/ VerifyExports \/ MergeExports

Tick ==
  /\ now < MaxTime
  /\ now' = now + 1
  /\ UNCHANGED <<folder, pushVars, mergeVars>>

Next == (\E p \in Pusher : Push(p)) \/ Merge \/ Tick

Spec == Init /\ [][Next]_vars

-----------------------------------------------------------------------------

\* Two exports of one user generated in the same second: the identity that
\* exports are named and told apart by.
Collision == \E d, e \in issued : d # e /\ d.user = e.user /\ d.at = e.at

\* An export that has been published is neither damaged nor replaced by later
\* and overlapping pushes, and a push that fails half way: only one of the same
\* user in the same second can do that.
PublishedIsKept ==
  [][~Collision' => \A f \in DOMAIN folder : folder[f] # {} =>
                      f \in DOMAIN folder' /\ folder'[f] = folder[f]]_vars

\* A merge that succeeds counts for each user the newest export there was when
\* it started, or a newer one, although files are written while it reads them.
MergeIsCurrent ==
  lead = "ok" => \A e \in published :
    \E k \in ToSet(kept) : k.user = e.user /\ k.at >= e.at

\* Whatever the order of the files, and however often each is named, the rollup
\* adds up the newest export of every user once, and so do those of groups, of
\* whichever users, that a team configuration would ask for.
Newest(es) == {e \in es : \A d \in es : d.user = e.user => d.at <= e.at}

RollupCountsEachOnce ==
  LET newest == Newest(ToSet(exports))
      SpendOf(users) == MapThenSumSet(LAMBDA e : e.payload.spend,
                                      {e \in newest : e.user \in users})
  IN  lead = "ok" /\ ~Collision =>
        /\ rollups = {[label |-> "all", spend |-> SpendOf(User)]}
        /\ \A group \in SUBSET User :
             \A r \in Rollup(kept, [g \in {"group"} |-> group]) :
               r.label = "group" => r.spend = SpendOf(group)

\* merge --verify rejects an export only if its signature does not match its
\* own public key, or that key is not the one enrolled for its user.
RejectsOnlyForCause ==
  lead = "rejected" => \E e \in ToSet(exports) :
    ~VerifyWithKeyring(e.payload, e.sig, e.key, e.user)
=============================================================================
