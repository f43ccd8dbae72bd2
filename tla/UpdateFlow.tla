----------------------------- MODULE UpdateFlow -----------------------------
(***************************************************************************)
(* An update from the settings page: UpdateInstallApplication on the UI    *)
(* thread, and the worker thread that prepares and installs.  They share   *)
(* UpdateInstallCancellation, a cell that both swap: the user may cancel,  *)
(* or close the window, until the worker claims the installer boundary.    *)
(* The update waits for the edits of the same page, and they for it.       *)
(* Meanwhile the release may be published again with other contents, the   *)
(* saved channel may change, and every call of the worker may fail.        *)
(* A release is its contents; a failed installer may have replaced the     *)
(* runtime and not the GUI.                                                *)
(***************************************************************************)
EXTENDS Naturals

CONSTANTS
    MaxRelease,  \* contents published for the release
    MaxTries     \* updates started

VARIABLES
    pending,     \* the operation in progress: "none", "prepare" or "install"
    prepared,    \* what the confirmation shows, or NoOffer
    installed,   \* the release that was verified on the host, or 0
    cancelling, closed,
    report,      \* the channel the last check found an update on, or "none"
    row,         \* the channel that the page shows
    checking,    \* a check for updates is running
    mutating,    \* a settings edit is being saved
    cell,        \* UpdateInstallCancellation of the operation
    pc, bundle, result,            \* the worker: its next step, its bundle, what it reports
    offer,       \* the offer that the worker found, or was given to install
    served, channel, host,         \* the release server, the saved channel, the installed binaries
    tries,
    told,        \* history: the operation was cancelled and the user was told so
    ran          \* history: the release that the installer of this operation runs, or 0

page == <<pending, prepared, installed, cancelling, closed, report, row, checking, mutating>>
worker == <<pc, bundle, result, offer>>
world == <<served, channel, host>>
vars == <<page, cell, worker, world, tries, told, ran>>

Channels == {"stable", "prerelease"}
NoOffer == [target |-> 0, channel |-> "none"]

-----------------------------------------------------------------------------
(* The cancellation cell.                                                  *)

CanCancel == cell = "active"

\* compare_exchange(ACTIVE, CANCELLED)
Cancels == cell' = IF CanCancel THEN "cancelled" ELSE cell

claimMutant == TRUE
\* claim_installer_boundary: compare_exchange(ACTIVE, CLAIMED)
claim == cell = "active"

-----------------------------------------------------------------------------
(* The page.                                                               *)

active == pending # "none" \/ prepared # NoOffer

can_edit == ~active /\ ~closed

\* sync_update_install: the update may start.
Available == report = row /\ ~mutating /\ ~checking

start(task) ==
    /\ pending' = task /\ cancelling' = FALSE
    /\ cell' = "active" /\ told' = FALSE /\ ran' = 0

PrepareUpdateInstall ==
    /\ ~closed /\ ~active /\ installed = 0 /\ Available /\ tries < MaxTries
    /\ start("prepare")
    /\ tries' = tries + 1
    /\ pc' = "preflight" /\ result' = "none" /\ bundle' = 0 /\ offer' = NoOffer
    /\ UNCHANGED <<prepared, installed, closed, report, row, checking, mutating, world>>

ConfirmUpdateInstall ==
    /\ ~closed /\ pending = "none" /\ prepared # NoOffer
    /\ start("install")
    /\ prepared' = NoOffer
    /\ pc' = "channel" /\ result' = "none" /\ bundle' = 0 /\ offer' = prepared
    /\ UNCHANGED <<installed, closed, report, row, checking, mutating, world, tries>>

\* A cancelled operation stays pending until its worker reports.
CancelUpdateInstall ==
    /\ ~closed /\ active /\ ~cancelling
    /\ \/ /\ pending # "none" /\ CanCancel
          /\ Cancels /\ cancelling' = TRUE /\ told' = TRUE
          /\ UNCHANGED prepared
       \/ /\ pending = "none" /\ prepared' = NoOffer
          /\ UNCHANGED <<cell, cancelling, told>>
    /\ UNCHANGED <<pending, installed, closed, report, row, checking, mutating, worker, world, tries, ran>>

\* The GUI replaces itself with the installed one, in the step that asks for it, or fails to.
Relaunch == closed' \in BOOLEAN

RelaunchUpdatedApplication ==
    /\ ~closed /\ pending = "none" /\ installed # 0
    /\ Relaunch
    /\ UNCHANGED <<pending, prepared, installed, cancelling, report, row, checking, mutating, cell,
                   worker, world, tries, told, ran>>

\* can_close: an install that can still be cancelled is, and one that cannot keeps the window.
can_close == pending = "install" => cell # "claimed"

CloseWindow ==
    /\ ~closed /\ can_close
    /\ closed' = TRUE
    /\ IF pending = "install" /\ CanCancel THEN Cancels /\ told' = TRUE
       ELSE UNCHANGED <<cell, told>>
    /\ UNCHANGED <<pending, prepared, installed, cancelling, report, row, checking, mutating, worker,
                   world, tries, ran>>

CheckStarts ==
    /\ ~closed /\ ~checking /\ ~active
    /\ checking' = TRUE
    /\ UNCHANGED <<pending, prepared, installed, cancelling, closed, report, row, mutating, cell,
                   worker, world, tries, told, ran>>

complete_update_check ==
    /\ checking /\ ~closed
    /\ checking' = FALSE /\ report' \in {"none", channel}
    /\ UNCHANGED <<pending, prepared, installed, cancelling, closed, row, mutating, cell, worker,
                   world, tries, told, ran>>

EditStarts ==
    /\ can_edit /\ ~mutating
    /\ mutating' = TRUE
    /\ UNCHANGED <<pending, prepared, installed, cancelling, closed, report, row, checking, cell,
                   worker, world, tries, told, ran>>

\* The edit may be the one that selects a channel.
EditEnds ==
    /\ mutating
    /\ mutating' = FALSE
    /\ \/ UNCHANGED <<channel, row>>
       \/ channel' \in Channels /\ row' = channel'
    /\ UNCHANGED <<pending, prepared, installed, cancelling, closed, report, checking, cell, worker,
                   served, host, tries, told, ran>>

\* A read of the settings.
Refresh ==
    /\ ~closed /\ ~mutating
    /\ row' = channel
    /\ UNCHANGED <<pending, prepared, installed, cancelling, closed, report, checking, mutating, cell,
                   worker, world, tries, told, ran>>

-----------------------------------------------------------------------------
(* The worker.  Before each call it looks at the cell.                     *)

Reports(how) == pc' = "done" /\ result' = how

Cancelled == cell = "cancelled" /\ Reports("cancelled") /\ UNCHANGED <<bundle, offer, host, cell, ran>>

\* A call that fails, or refuses, and a worker that stops.
Fails ==
    /\ Reports("failed")
    /\ UNCHANGED <<bundle, offer, cell, ran>>

Goes(next) == pc' = next /\ UNCHANGED <<result, bundle, offer, host, cell, ran>>

\* prepare_update_install_with: the installation is one that can be updated, then the latest
\* release of the saved channel, and its contents.
PrepareStep ==
    /\ pending = "prepare"
    /\ \/ pc \in {"preflight", "discover", "resolve", "offer"} /\ Cancelled
       \/ pc = "preflight" /\ cell = "active" /\ Goes("discover")
       \/ /\ pc = "discover" /\ cell = "active"
          /\ offer' = [NoOffer EXCEPT !.channel = channel] /\ pc' = "resolve"
          /\ UNCHANGED <<result, bundle, host, cell, ran>>
       \/ /\ pc = "resolve" /\ cell = "active"
          /\ offer' = [offer EXCEPT !.target = served] /\ pc' = "offer"
          /\ UNCHANGED <<result, bundle, host, cell, ran>>
       \/ /\ \/ pc = "offer" /\ cell = "active" /\ Reports("prepared")
             \/ pc = "resolve" /\ cell = "active" /\ Reports("up_to_date")
             \/ pc = "preflight" /\ Reports("restricted")
          /\ UNCHANGED <<bundle, offer, host, cell, ran>>
       \/ pc \in {"preflight", "discover", "resolve"} /\ Fails /\ UNCHANGED host

same_targetMutant == TRUE
\* The bundle that was acquired is the one that was confirmed.
same_target == bundle = offer.target

\* installed_update: both binaries are of the release.
verified == host.runtime = bundle /\ host.gui = bundle

\* install_prepared_update_with
InstallStep ==
    /\ pending = "install"
    /\ \/ pc \in {"channel", "acquire", "identity", "candidate", "claim"} /\ Cancelled
       \/ pc = "channel" /\ cell = "active" /\ channel = offer.channel /\ Goes("acquire")
       \/ /\ pc = "acquire" /\ cell = "active"
          /\ bundle' = served /\ pc' = "identity"
          /\ UNCHANGED <<result, offer, host, cell, ran>>
       \/ pc = "identity" /\ cell = "active" /\ same_target /\ Goes("candidate")
       \/ pc = "candidate" /\ cell = "active" /\ Goes("claim")
       \/ /\ pc = "claim" /\ claim
          /\ cell' = "claimed" /\ pc' = "installing" /\ ran' = bundle
          /\ UNCHANGED <<result, bundle, offer, host>>
       \/ /\ pc = "installing"
          /\ \E gui \in {host.gui, bundle} : host' = [runtime |-> bundle, gui |-> gui]
          /\ \/ pc' = "verify" /\ UNCHANGED <<result, bundle, offer, cell, ran>>
             \/ Fails
       \/ pc = "verify" /\ verified /\ Reports("installed") /\ UNCHANGED <<bundle, offer, host, cell, ran>>
       \/ /\ pc \in {"channel", "acquire", "identity", "candidate", "installing", "verify"}
          /\ Fails /\ UNCHANGED host

WorkerStep ==
    /\ PrepareStep \/ InstallStep
    /\ UNCHANGED <<page, served, channel, tries, told>>

\* complete_update_install: a window that closed hears nothing of it, and a preparation that was
\* cancelled leaves nothing to confirm.
complete_update_install ==
    /\ pc = "done" /\ ~closed /\ pending # "none"
    /\ pending' = "none" /\ pc' = "idle"
    /\ cancelling' = (cancelling /\ pending = "install")
    /\ prepared' = IF result = "prepared" /\ ~cancelling THEN offer ELSE NoOffer
    /\ report' = IF result \in {"up_to_date", "restricted"} THEN "none" ELSE report
    /\ IF result = "installed" THEN installed' = bundle /\ Relaunch
       ELSE UNCHANGED <<installed, closed>>
    /\ UNCHANGED <<row, checking, mutating, cell, bundle, result, offer, world, tries, told, ran>>

-----------------------------------------------------------------------------
\* The release is published again with other contents.
Republish ==
    /\ served < MaxRelease
    /\ served' = served + 1
    /\ UNCHANGED <<page, cell, worker, channel, host, tries, told, ran>>

\* The command line selects another channel.
ChangeChannel ==
    /\ channel' \in Channels \ {channel}
    /\ UNCHANGED <<page, cell, worker, served, host, tries, told, ran>>

Init ==
    /\ pending = "none" /\ prepared = NoOffer /\ installed = 0 /\ cancelling = FALSE
    /\ closed = FALSE /\ report = "none" /\ row = "stable" /\ checking = FALSE /\ mutating = FALSE
    /\ cell = "active" /\ pc = "idle" /\ bundle = 0 /\ result = "none" /\ offer = NoOffer
    /\ served = 2 /\ channel = "stable" /\ host = [runtime |-> 1, gui |-> 1]
    /\ tries = 0 /\ told = FALSE /\ ran = 0

Next ==
    \/ PrepareUpdateInstall \/ ConfirmUpdateInstall \/ CancelUpdateInstall
    \/ RelaunchUpdatedApplication \/ CloseWindow \/ CheckStarts \/ complete_update_check
    \/ EditStarts \/ EditEnds \/ Refresh \/ WorkerStep \/ complete_update_install
    \/ Republish \/ ChangeChannel

Spec == Init /\ [][Next]_vars

-----------------------------------------------------------------------------
\* An update that the user was told is cancelled, by its dialog or with the window, never
\* reaches the installer (CancelUpdateInstall, can_close, claim_installer_boundary).
CancelledNeverInstalls == ~(told /\ ran # 0)

\* The installer runs the contents that the confirmation described, whatever was published
\* between the two (install_prepared_update_with, UpdateInstallError::TargetChanged).
InstalledIsConfirmed == ran # 0 => ran = offer.target

\* The window does not close under an installer that is running: closing it either cancels the
\* update or is refused (can_close).
WindowStaysForInstaller == pc \in {"installing", "verify"} => ~closed

\* Saving settings and updating exclude each other: the update does not replace the program
\* under a write of its configuration (can_edit, sync_update_install).
UpdateExcludesEdits == ~(active /\ mutating)

\* The GUI hands over to, and offers to restart into, binaries that are both of one release
\* (installed_update, complete).
RelaunchIsVerified == installed # 0 => host = [runtime |-> installed, gui |-> installed]
=============================================================================
