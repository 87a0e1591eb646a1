------------------------------ MODULE Release -------------------------------
(***************************************************************************)
(* The release: locks publish the hashes of files at the time they are     *)
(* issued and are reissued, never edited; the manifest of the release pins *)
(* every shipped file and every lock and declares each divergence of the   *)
(* tree from a lock; the anonymous archive ships the same files, rewritten *)
(* where a pattern finds an author, and left out where a lock forbids that.*)
(* The patterns are tried on files of some suffixes only, and the one for  *)
(* by-lines only under source/.                                            *)
(*                                                                         *)
(* The hash of a file is its version, and whether it is the anonymous form *)
(* of it.                                                                  *)
(***************************************************************************)
EXTENDS Integers, Sequences, SequencesExt

CONSTANTS
  Files,        \* files of the repository, those a lock covers or a release ships
  Shipped,      \* those that match a pattern of INCLUDE
  WithPath, WithByline,  \* those that carry a path with a user name, a by-line
  Redactable,   \* those with a suffix of REDACTABLE_SUFFIXES
  BYLINE_SCOPE, \* those whose by-line is looked for
  Covers,       \* the files the first lock may cover
  LOCK_CHAIN,   \* the locks, oldest first
  LOCKS,        \* the ones the archive looks at
  NoLock,       \* a lock that is not issued, and no lock at all
  Versions,     \* versions of a file
  MaxChanges    \* bound on the changes of files and locks

ASSUME ReleaseAssumption ==
  /\ Shipped \cup WithPath \cup WithByline \cup Redactable \cup BYLINE_SCOPE \subseteq Files
  /\ Covers \subseteq SUBSET Files /\ LOCKS \subseteq ToSet(LOCK_CHAIN)
  /\ MaxChanges \in Nat

Missing == <<"missing", 0>>
Original(v) == <<"original", v>>
Cleaned(bytes) == <<"cleaned", bytes[2]>>
Contents == {Original(v) : v \in Versions}

Nothing == [built |-> FALSE]

VARIABLES
  tree,      \* the files
  locks,     \* lock -> the hashes it publishes
  release,   \* the release manifest
  asBuilt,   \* files and locks at the time it was written
  archive,   \* the unpacked archive: its files and locks, and the manifest in it
  changes

rvars == <<tree, locks, release, asBuilt, archive, changes>>

Locks == ToSet(LOCK_CHAIN)
Publishes(l, f) == l # NoLock /\ f \in DOMAIN l
Recorded(l, f) == IF Publishes(l, f) THEN l[f] ELSE Missing

RInit ==
  /\ tree \in [Files -> {Original(CHOOSE v \in Versions : TRUE)}]
  /\ locks \in {[l \in Locks |-> IF l = LOCK_CHAIN[1] THEN [f \in c |-> tree[f]] ELSE NoLock] :
                  c \in Covers}
  /\ release = Nothing /\ asBuilt = Nothing /\ archive = Nothing
  /\ changes = 0

-----------------------------------------------------------------------------
(* The files and the locks.                                                *)

(* A file is changed, removed or brought back.                             *)
Change(f, bytes) ==
  /\ changes < MaxChanges
  /\ changes' = changes + 1
  /\ bytes # tree[f]
  /\ tree' = [tree EXCEPT ![f] = bytes]
  /\ UNCHANGED <<locks, release, asBuilt, archive>>

(* A lock is brought into line with a file, which no one should do.        *)
Tamper(l, f) ==
  /\ changes < MaxChanges
  /\ changes' = changes + 1
  /\ Publishes(locks[l], f) /\ locks[l][f] # tree[f]
  /\ locks' = [locks EXCEPT ![l][f] = tree[f]]
  /\ UNCHANGED <<tree, release, asBuilt, archive>>

(* The next lock covers what its base covers and what is added, as it is   *)
(* now; a missing file, or nothing new, refuses it.                        *)
Reissue(i, added) ==
  LET base == locks[LOCK_CHAIN[i - 1]]
      covered == DOMAIN base \cup added
  IN  /\ locks[LOCK_CHAIN[i]] = NoLock /\ base # NoLock
      /\ added \cap DOMAIN base = {}
      /\ \A f \in covered : tree[f] # Missing
      /\ added # {} \/ \E f \in DOMAIN base : tree[f] # base[f]
      /\ locks' = [locks EXCEPT ![LOCK_CHAIN[i]] = [f \in covered |-> tree[f]]]
      /\ UNCHANGED <<tree, release, asBuilt, archive, changes>>

-----------------------------------------------------------------------------
(* build_supplementary.py.                                                 *)

hashed_paths(ls) == {f \in Files : \E l \in LOCKS : Publishes(ls[l], f)}

collect(t) == {f \in Shipped : t[f] # Missing}

(* The files a pattern is tried on and matches.                            *)
Identifying == Redactable \cap (WithPath \cup (WithByline \cap BYLINE_SCOPE))

redacted(t, ls) == (collect(t) \cap Identifying) \ hashed_paths(ls)
withheld(t, ls) == collect(t) \cap Identifying \cap hashed_paths(ls)

(* A mutation of anonymise: a file is cleaned, whatever a lock publishes.  *)
anonymise_all(t, ls) ==
  [f \in Files |->
     IF f \in collect(t) \cap Identifying THEN Cleaned(t[f])
     ELSE IF f \in collect(t) THEN t[f] ELSE Missing]

(* The files of the archive, once unpacked.                                *)
anonymise(t, ls) ==
  [f \in Files |->
     IF f \in redacted(t, ls) THEN Cleaned(t[f])
     ELSE IF f \in collect(t) \ withheld(t, ls) THEN t[f] ELSE Missing]

-----------------------------------------------------------------------------
(* build_release_manifest.py.                                              *)

(* The locks that publish other bytes of f than t has.                     *)
Against(f, t, ls) == {l \in Locks : Publishes(ls[l], f) /\ ls[l][f] # t[f]}
Diverged(t, ls) == {f \in Files : Against(f, t, ls) # {}}

LockCovered(ls) == {f \in Files : \E l \in Locks : Publishes(ls[l], f)}

(* The declarations, file -> the lock that pins its bytes, are those of    *)
(* the tree, no more and no less.                                          *)
Declared(declared, t, ls) ==
  /\ Diverged(t, ls) = DOMAIN declared
  /\ \A f \in DOMAIN declared : declared[f] # NoLock =>
        Recorded(ls[declared[f]], f) = t[f]

Declarations ==
  UNION {[D -> Locks \cup {NoLock}] : D \in SUBSET LockCovered(locks)}

(* A manifest is written, or with --force written again.                   *)
Build(declared) ==
  /\ \A l \in Locks : locks[l] # NoLock
  /\ collect(tree) # {}
  /\ Declared(declared, tree, locks)
  /\ release' = [built |-> TRUE,
       sha256 |-> [f \in collect(tree) |-> tree[f]],
       lock_chain |-> locks,
       divergences |-> [f \in DOMAIN declared |->
          [current |-> tree[f], from |-> Against(f, tree, locks), superseded_by |-> declared[f]]],
       not_shipped |-> [f \in LockCovered(locks) \ collect(tree) |-> tree[f]],
       anonymity |-> [f \in redacted(tree, locks) |-> anonymise(tree, locks)[f]],
       withheld |-> withheld(tree, locks)]
  /\ asBuilt' = [built |-> TRUE, tree |-> tree, locks |-> locks]
  /\ UNCHANGED <<tree, locks, archive, changes>>

(* An archive is never written over.                                       *)
Package ==
  /\ archive = Nothing
  /\ release.built
  /\ archive' = [built |-> TRUE, tree |-> anonymise(tree, locks), locks |-> locks,
                 release |-> release,
                 fresh |-> tree = asBuilt.tree /\ locks = asBuilt.locks]
  /\ UNCHANGED <<tree, locks, release, asBuilt, changes>>

-----------------------------------------------------------------------------
(* verify_release_manifest.py.                                             *)

check_released_files(m, t) ==
  \A f \in DOMAIN m.sha256 :
    \/ t[f] = Missing /\ f \in m.withheld
    \/ t[f] # Missing /\ (t[f] = m.sha256[f] \/ (f \in DOMAIN m.anonymity /\ t[f] = m.anonymity[f]))

(* A mutation of check_lock_chain: any lock of the chain's name will do.   *)
check_lock_names(m, ls) == \A l \in DOMAIN m.lock_chain : ls[l] # NoLock

check_lock_chain(m, ls) == \A l \in DOMAIN m.lock_chain : ls[l] = m.lock_chain[l]

(* A divergence no declaration is asked of: a file that is not shipped and *)
(* is absent or as it was, or a withheld one that is absent.               *)
Excused(f, m, t) ==
  IF f \in DOMAIN m.not_shipped THEN t[f] = Missing \/ t[f] = m.not_shipped[f]
  ELSE f \in m.withheld /\ t[f] = Missing

check_divergences(m, t, ls) ==
  LET declared == DOMAIN m.divergences
  IN  /\ \A f \in Diverged(t, ls) :
           \/ Excused(f, m, t)
           \/ /\ f \notin DOMAIN m.not_shipped
              /\ f \in declared
              /\ Against(f, t, ls) \subseteq m.divergences[f].from
      /\ \A f \in declared : f \in Diverged(t, ls) \/ t[f] = Missing
      /\ \A f \in declared :
           LET pin == m.divergences[f].superseded_by
           IN  pin # NoLock => Recorded(ls[pin], f) = m.divergences[f].current

Verifies(m, t, ls) ==
  check_released_files(m, t) /\ check_lock_chain(m, ls) /\ check_divergences(m, t, ls)

-----------------------------------------------------------------------------

RNext ==
  \/ \E f \in Files, bytes \in Contents \cup {Missing} : Change(f, bytes)
  \/ \E l \in Locks, f \in Files : Tamper(l, f)
  \/ \E i \in 2 .. Len(LOCK_CHAIN), added \in SUBSET Files : Reissue(i, added)
  \/ \E d \in Declarations : Build(d)
  \/ Package

-----------------------------------------------------------------------------

(* A file counts as unchanged when it has its bytes, or is absent where    *)
(* the archive has to leave it out, or the release does not ship it.       *)
AsRecorded(f) ==
  \/ tree[f] = asBuilt.tree[f]
  \/ tree[f] = Missing /\ f \in LockCovered(asBuilt.locks) \ collect(asBuilt.tree)
  \/ tree[f] = Missing /\ f \in withheld(asBuilt.tree, asBuilt.locks)

Pinned == collect(asBuilt.tree) \cup LockCovered(asBuilt.locks)

(* The verifier accepts a tree exactly when no lock and no file that the   *)
(* manifest ships or a lock covers has changed since it was built.         *)
VerifiedIsAsBuilt ==
  release.built =>
    (Verifies(release, tree, locks) <=>
       locks = asBuilt.locks /\ \A f \in Pinned : AsRecorded(f))

(* A lock of the archive's list covers every identifying file that any     *)
(* lock covers.                                                            *)
Published(ls) == LockCovered(ls) \cap Identifying \subseteq hashed_paths(ls)

(* What is left of an author in a file of the archive: rewriting replaces  *)
(* the paths, and a by-line in scope.                                      *)
PathLeft(f, bytes) == f \in WithPath /\ bytes[1] = "original"
BylineLeft(f, bytes) ==
  f \in WithByline /\ (bytes[1] = "original" \/ (bytes[1] = "cleaned" /\ f \notin BYLINE_SCOPE))

(* An archive of the tree its manifest was built from verifies as it is    *)
(* unpacked, when a lock of the archive's list covers every file to be     *)
(* rewritten that any lock covers.  A file of any archive names an author  *)
(* only where nothing looks: a file of another suffix, or a by-line out of *)
(* scope.                                                                  *)
ArchiveVerifies ==
  archive.built =>
    /\ \A f \in Files :
         /\ PathLeft(f, archive.tree[f]) => f \notin Redactable
         /\ BylineLeft(f, archive.tree[f]) => f \notin Redactable \cap BYLINE_SCOPE
    /\ archive.fresh /\ Published(archive.locks) =>
         Verifies(archive.release, archive.tree, archive.locks)
=============================================================================
