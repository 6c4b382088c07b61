------------------------------ MODULE SelfUpdate -----------------------------
(***************************************************************************)
(* The app's update of itself (NetworkSwitch.cpp runSelfUpdate): look up   *)
(* the newest release, download its CIA with CurlHttp's retries, compare   *)
(* its checksum and install it with AM in up to two modes.  Releases       *)
(* appear and files are replaced meanwhile, requests and AM calls fail,    *)
(* and the app may be closed or lose power between any two steps.          *)
(*                                                                         *)
(* GitHub and AM are external: a release list is whole when it was         *)
(* received, AM keeps the installed app until an install is finished, and  *)
(* cancelling one works.  A version is the sequence of its numbers, which  *)
(* fit an int; a file is the version it holds and whether it is the one    *)
(* that was listed.                                                        *)
(***************************************************************************)
EXTENDS Integers, Sequences, FiniteSetsExt

CONSTANTS Tag,          \* version numbers releases are tagged with
          Built,        \* VERSION_MAJOR, VERSION_MINOR, VERSION_MICRO of the first app
          kAttempts,    \* attempts of one request
          CiaChunks,    \* chunks a CIA is written in
          MaxReleases,  \* bound: releases that are published
          MaxFailures   \* bound: failures

ASSUME UpdateAssumption ==
  /\ Tag \subseteq Seq(Nat) /\ Built \in [1 .. 3 -> Nat]
  /\ {kAttempts, CiaChunks} \subseteq Nat \ {0}
  /\ {MaxReleases, MaxFailures} \subseteq Nat

VARIABLES
  releases, replaced,     \* external: the release list; tags whose file was replaced
  app,                    \* external: the installed app
  pending,                \* external: does AM hold an unfinished install?
  emulator,
  version,                \* VERSION_MAJOR, VERSION_MINOR, VERSION_MICRO of the app that runs
  step, attempt,          \* where the job is; attempt of the current request
  verifyTls, lastCurlCode,\* CurlHttp
  info,                   \* AppUpdate::Info
  cia,                    \* the downloaded file
  overwrite, offset,      \* CiaInstall::attempt
  offer,                  \* does the message offer a retry without verification?
  listed,                 \* ghost: the release list the check received
  answer,                 \* ghost: what came of the last request
  failures

github     == <<releases, replaced>>
am         == <<app, pending, emulator>>
http       == <<attempt, verifyTls, lastCurlCode>>
job        == <<info, cia, overwrite, offset>>
ghost      == <<listed, answer>>
updateVars == <<github, am, version, step, http, job, offer, ghost, failures>>

(* A release of the app: any other tag is passed over. *)
Release == [tag : Tag, prerelease : BOOLEAN, asset : BOOLEAN, sha256 : BOOLEAN]
NoFile  == [tag |-> <<>>, as |-> "none"]
File    == [tag : Tag, as : {"listed", "other", "short"}]

(* What ends a request: libcurl's code, and the status of the answer.      *)
Failure ==
  [code : {"certificate", "transport"}, status : {0}]
    \cup [code : {"none"}, status : {404, 500}]
    \cup {[code |-> "none", status |-> 200]}   \* larger than expected
Answer == Failure \cup {[code |-> "none", status |-> 0]}
NoAnswer == [code |-> "none", status |-> 0]

UpdateTypeOK ==
  /\ releases \in Seq(Release) /\ Len(releases) <= MaxReleases
  /\ replaced \subseteq Tag
  /\ app.tag \in Tag \cup {Built} /\ app.as \in {"listed", "other"}
  /\ {pending, emulator, verifyTls, overwrite, offer} \subseteq BOOLEAN
  /\ version \in Seq(Nat)
  /\ step \in {"closed", "page", "check", "fetch", "start", "write", "message", "done"}
  /\ attempt \in 1 .. kAttempts
  /\ lastCurlCode \in {"none", "certificate", "transport"}
  /\ info \in Release \cup {NoFile}
  /\ cia \in File \cup {NoFile}
  /\ offset \in 0 .. CiaChunks
  /\ listed \in Seq(Release)
  /\ answer \in Answer
  /\ failures \in 0 .. MaxFailures

UpdateInit ==
  /\ releases = <<>> /\ replaced = {}
  /\ app = [tag |-> Built, as |-> "listed"] /\ pending = FALSE /\ emulator \in BOOLEAN
  /\ version = Built
  /\ step = "closed"
  /\ attempt = 1 /\ verifyTls = TRUE /\ lastCurlCode = "none"
  /\ info = NoFile /\ cia = NoFile /\ overwrite = TRUE /\ offset = 0
  /\ offer = FALSE
  /\ listed = <<>> /\ answer = NoAnswer
  /\ failures = 0

UpdateFault == failures < MaxFailures /\ failures' = failures + 1

-------------------------------------------------------------------------------
(* Versions (Release.cpp).  Missing numbers count as 0. *)

Part(v, i) == IF i <= Len(v) THEN v[i] ELSE 0

Differing(a, b) ==
  {i \in 1 .. (IF Len(a) > Len(b) THEN Len(a) ELSE Len(b)) : Part(a, i) # Part(b, i)}

(* The first number that differs decides. *)
compareVersions(a, b) ==
  IF Differing(a, b) = {} THEN 0
  ELSE LET i == Min(Differing(a, b))
       IN  IF Part(a, i) < Part(b, i) THEN -1 ELSE 1

Eligible(r) == ~r.prerelease /\ r.asset

(* Mutant: the release that is listed first. *)
findLatestByTagPrefix_First(list) ==
  LET taken == {i \in 1 .. Len(list) : Eligible(list[i])}
  IN  IF taken = {} THEN 0 ELSE Min(taken)

(* After each release of the list, the index of the one to take so far.    *)
Best(list) ==
  LET best[i \in 0 .. Len(list)] ==
        IF i = 0 THEN 0
        ELSE IF Eligible(list[i])
                /\ (\/ best[i - 1] = 0
                    \/ compareVersions(list[i].tag, list[best[i - 1]].tag) > 0)
        THEN i ELSE best[i - 1]
  IN  best

(* Index of the release that is taken, 0 for none: the first of the newest. *)
findLatestByTagPrefix(list) == Best(list)[Len(list)]

-------------------------------------------------------------------------------
(* GitHub lists the newest release first; a maintainer may replace a file. *)
PublishApp ==
  /\ Len(releases) < MaxReleases
  /\ \E r \in Release :
       /\ \A i \in 1 .. Len(releases) : releases[i].tag # r.tag
       /\ releases' = <<r>> \o releases
  /\ UNCHANGED <<version, replaced, am, step, http, job, offer, ghost, failures>>

Replace ==
  /\ UpdateFault
  /\ \E i \in 1 .. Len(releases) :
       releases[i].tag \notin replaced /\ replaced' = replaced \cup {releases[i].tag}
  /\ UNCHANGED <<version, releases, am, step, http, job, offer, ghost>>

-------------------------------------------------------------------------------
(* Opening the app, the page (again, after an update too), and starting    *)
(* the job from the page's row or, with verification off, from a message   *)
(* that offers it.                                                         *)
OpenApp ==
  /\ step = "closed"
  /\ version' = [i \in 1 .. 3 |-> Part(app.tag, i)]
  /\ verifyTls' = TRUE
  /\ step' = "page"
  /\ UNCHANGED <<github, am, attempt, lastCurlCode, job, offer, ghost, failures>>

OpenPage ==
  /\ step \in {"page", "done"}
  /\ verifyTls' = TRUE
  /\ step' = "page"
  /\ UNCHANGED <<github, am, version, attempt, lastCurlCode, job, offer, ghost, failures>>

NewRequest == attempt' = 1 /\ lastCurlCode' = "none"

StartUpdate ==
  /\ step = "page" \/ (step = "message" /\ offer)
  /\ verifyTls' = (verifyTls /\ step = "page")
  /\ NewRequest
  /\ info' = NoFile /\ cia' = NoFile
  /\ offer' = FALSE
  /\ step' = "check"
  /\ UNCHANGED <<version, github, am, overwrite, offset, ghost, failures>>

MessageBack ==
  /\ step = "message"
  /\ step' = "page" /\ offer' = FALSE
  /\ UNCHANGED <<version, github, am, http, job, ghost, failures>>

Message(withOffer) == step' = "message" /\ offer' = withOffer

-------------------------------------------------------------------------------
(* One attempt of a request (CurlHttp::get, getOnce). *)

isTransient(a) == a.code # "none" \/ a.status = 500

(* Mutant: the code of an earlier attempt is kept. *)
GetFails_KeepsCode ==
  /\ step \in {"check", "fetch"}
  /\ UpdateFault
  /\ \E a \in Failure :
       /\ a.code = "certificate" => verifyTls
       /\ answer' = a
       /\ lastCurlCode' = IF a.code = "none" THEN lastCurlCode ELSE a.code
       /\ IF attempt < kAttempts /\ isTransient(a)
          THEN attempt' = attempt + 1 /\ UNCHANGED <<step, offer>>
          ELSE /\ Message(step = "check" /\ lastCurlCode' = "certificate" /\ verifyTls)
               /\ UNCHANGED attempt
  /\ UNCHANGED <<version, github, am, verifyTls, job, listed>>

(* The last attempt's failure is shown, with the offer when the list could *)
(* not be had because of the certificate.                                  *)
GetFails ==
  /\ step \in {"check", "fetch"}
  /\ UpdateFault
  /\ \E a \in Failure :
       /\ a.code = "certificate" => verifyTls
       /\ answer' = a
       /\ lastCurlCode' = a.code
       /\ IF attempt < kAttempts /\ isTransient(a)
          THEN attempt' = attempt + 1 /\ UNCHANGED <<step, offer>>
          ELSE /\ Message(step = "check" /\ lastCurlCode' = "certificate" /\ verifyTls)
               /\ UNCHANGED attempt
  /\ UNCHANGED <<version, github, am, verifyTls, job, listed>>

(* Mutant: the newest release is installed whatever the app's version is. *)
CheckGot_AnyVersion ==
  /\ step = "check"
  /\ answer' = NoAnswer
  /\ listed' = releases
  /\ NewRequest
  /\ LET best == findLatestByTagPrefix(releases)
     IN  IF best # 0
         THEN info' = releases[best] /\ step' = "fetch" /\ UNCHANGED offer
         ELSE Message(FALSE) /\ UNCHANGED info
  /\ UNCHANGED <<version, github, am, verifyTls, cia, overwrite, offset, failures>>

(* AppUpdate::check: no release, nothing newer, or on to the download. *)
CheckGot ==
  /\ step = "check"
  /\ answer' = NoAnswer
  /\ listed' = releases
  /\ NewRequest
  /\ LET best == findLatestByTagPrefix(releases)
     IN  IF best # 0 /\ compareVersions(releases[best].tag, version) > 0
         THEN info' = releases[best] /\ step' = "fetch" /\ UNCHANGED offer
         ELSE Message(FALSE) /\ UNCHANGED info
  /\ UNCHANGED <<version, github, am, verifyTls, cia, overwrite, offset, failures>>

(* What the download URL of a release gives. *)
Served(r) == {[tag |-> r.tag, as |-> IF r.tag \in replaced THEN "other" ELSE "listed"]}
               \cup (IF r.tag \in replaced THEN {[tag |-> r.tag, as |-> "short"]} ELSE {})

(* AppUpdate::fetch, and the mode CiaInstall::install tries first. *)
FetchGot ==
  /\ step = "fetch"
  /\ answer' = NoAnswer
  /\ \E file \in Served(info) :
       IF file.as = "short" \/ (info.sha256 /\ file.as # "listed")
       THEN Message(FALSE) /\ UNCHANGED cia
       ELSE cia' = file /\ step' = "start" /\ UNCHANGED offer
  /\ overwrite' = ~emulator
  /\ offset' = 0
  /\ UNCHANGED <<version, github, am, http, info, listed, failures>>

-------------------------------------------------------------------------------
(* CiaInstall: overwrite mode first, then the plain install once more. *)

AttemptFails ==
  IF overwrite
  THEN overwrite' = FALSE /\ step' = "start" /\ UNCHANGED offer
  ELSE Message(FALSE) /\ UNCHANGED overwrite

AmUnavailable ==
  /\ step = "start" /\ overwrite = ~emulator
  /\ UpdateFault
  /\ Message(FALSE)
  /\ UNCHANGED <<version, github, am, http, job, ghost>>

(* AM holds one unfinished install at a time. *)
StartInstall ==
  /\ step = "start"
  /\ ~pending
  /\ pending' = TRUE
  /\ offset' = 0
  /\ step' = "write"
  /\ UNCHANGED <<version, github, app, emulator, http, info, cia, overwrite, offer, ghost,
                 failures>>

StartFails ==
  /\ step = "start"
  /\ IF pending THEN UNCHANGED failures ELSE UpdateFault
  /\ AttemptFails
  /\ UNCHANGED <<version, github, am, http, info, cia, offset, ghost>>

WriteChunk ==
  /\ step = "write" /\ offset < CiaChunks
  /\ offset' = offset + 1
  /\ UNCHANGED <<version, github, am, step, http, info, cia, overwrite, offer, ghost, failures>>

(* AM_CancelCIAInstall. *)
WriteFails ==
  /\ step = "write" /\ offset < CiaChunks
  /\ UpdateFault
  /\ pending' = FALSE
  /\ AttemptFails
  /\ UNCHANGED <<version, github, app, emulator, http, info, cia, offset, ghost>>

FinishInstall ==
  /\ step = "write" /\ offset = CiaChunks
  /\ pending' = FALSE
  /\ app' = cia
  /\ step' = "done"
  /\ UNCHANGED <<version, github, emulator, http, job, offer, ghost, failures>>

(* The handle is gone with the call, whatever came of it. *)
FinishFails ==
  /\ step = "write" /\ offset = CiaChunks
  /\ UpdateFault
  /\ pending' = FALSE
  /\ AttemptFails
  /\ UNCHANGED <<version, github, app, emulator, http, info, cia, offset, ghost>>

-------------------------------------------------------------------------------
(* The app is left from the page or after an update ("open Nimbus again"), *)
(* or it ends anywhere with the power; AM then drops what was unfinished.  *)
Close ==
  /\ step \in {"page", "done"}
  /\ step' = "closed"
  /\ info' = NoFile /\ cia' = NoFile /\ offset' = 0
  /\ UNCHANGED <<version, github, am, http, overwrite, offer, ghost, failures>>

PowerOff ==
  /\ step \in {"check", "fetch", "start", "write", "message"}
  /\ UpdateFault
  /\ pending' = FALSE
  /\ step' = "closed"
  /\ offer' = FALSE
  /\ info' = NoFile /\ cia' = NoFile /\ offset' = 0
  /\ UNCHANGED <<version, github, app, emulator, http, overwrite, ghost>>

UpdateNext ==
  \/ PublishApp \/ Replace
  \/ OpenApp \/ OpenPage \/ StartUpdate \/ MessageBack
  \/ GetFails \/ CheckGot \/ FetchGot
  \/ AmUnavailable \/ StartInstall \/ StartFails \/ WriteChunk \/ WriteFails
  \/ FinishInstall \/ FinishFails
  \/ Close \/ PowerOff

UpdateSpec == UpdateInit /\ [][UpdateNext]_updateVars

-------------------------------------------------------------------------------
(* Reference order of versions: with 0 for missing numbers, the first      *)
(* place where they differ.                                                *)
Newer(a, b) ==
  \E i \in 1 .. Len(a) + Len(b) :
    Part(a, i) > Part(b, i) /\ \A j \in 1 .. i - 1 : Part(a, j) = Part(b, j)

(* "the release with the highest version" (Release.hpp:18), "verify its     *)
(* SHA-256 against the release (when GitHub reports one)"                  *)
(* (AppUpdate.hpp:27): an update leaves the app on the newest release that *)
(* was listed, with the file it had when it was listed, however releases   *)
(* come in, files are replaced, and requests and modes fail.               *)
InstalledIsNewest ==
  step = "done" =>
    /\ \A i \in 1 .. Len(listed) : Eligible(listed[i]) => ~Newer(listed[i].tag, app.tag)
    /\ info.sha256 => app.as = "listed"

(* "newer than the running version" (AppUpdate.hpp:21): no sequence of     *)
(* updates takes the app back to an older version, also when the page is   *)
(* opened again while the replaced app still runs.                         *)
NeverOlder == [][~Newer(app.tag, app'.tag)]_updateVars

(* "Only ever set after the user agreed" (CurlHttp.hpp:22): the question   *)
(* is asked only when the answer that ended the job was a failed           *)
(* certificate, not an earlier attempt.                                    *)
OfferedForCertificate == step = "message" /\ offer => answer.code = "certificate" /\ verifyTls
==============================================================================
