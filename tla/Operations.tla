----------------------------- MODULE Operations -----------------------------
(* What the operators run: AlertEmail, the catalog they import, the backups  *)
(* of production and its releases. They share nothing in the models.         *)
EXTENDS AlertEmail

CONSTANTS
    Variants, Offered, Gone, MaxTime, MaxImports, Upgrades,
    Controllers, Ids, Releases, Lengths, Count, Pin, Duration, Grace, LocalKept, End,
    MaxGivenUp,
    MaxCommit, MaxAttempts, MaxReleases, MaxSnapshots, MaxWrites, Safe, OperatorWaits

VARIABLES
    rows, stored, complete, imports,
    data, manifest, archive, marker, job, prunes, controller, made, clock, recorded,
    main, ci, tested, live, writes, snapshots, rel, receipt, replaced, late

catalogVars == <<rows, stored, complete, imports>>
backupVars == <<data, manifest, archive, marker, job, prunes, controller, made,
                clock, recorded>>
releaseVars == <<main, ci, tested, live, writes, snapshots, rel, receipt, replaced,
                 late>>

Catalog == INSTANCE ComboCatalog
\* Duration is what Backups calls Limit, which is one of AlertEmail here.
Backup == INSTANCE Backups WITH Limit <- Duration
Release == INSTANCE Releases

-----------------------------------------------------------------------------
\* Whatever the order of the imports, a combination's row says what the newest accepted
\* snapshots say of it, and they all say the same.
NewestWins == Catalog!NewestWins

\* Whatever is on record can be restored: no manifest outlives its archive, although
\* two controllers delete, sweep and record at once.
RecordedIsThere == Backup!RecordedIsThere

\* Nothing is replaced before the data was saved twice: the backup, and a completed
\* snapshot that is no older than it, never one Fly had begun before.
SavedFirst == Release!SavedFirst
=============================================================================
