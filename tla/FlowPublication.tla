-------------------------- MODULE FlowPublication --------------------------
(***************************************************************************)
(* The draft of a flow, its version history and the publications made of   *)
(* it.  Every save of a logical change appends a version and trims the     *)
(* unprotected ones; publishing is four transactions of the store: read    *)
(* the draft, save it again as a version, protect that version, insert the *)
(* publication.  Editors write in between.                                 *)
(*                                                                         *)
(*   Documents     what a draft can hold                                   *)
(*   Publishers    concurrent requests to publish                          *)
(*   HistoryLimit  FLOW_HISTORY_LIMIT, 30 in the code                      *)
(*   MaxVersions   bound: the versions ever made                           *)
(***************************************************************************)
EXTENDS Naturals, Sequences, FiniteSets

CONSTANTS Documents, DefaultDocument, Publishers, HistoryLimit, MaxVersions

ASSUME FlowAssumption ==
  /\ DefaultDocument \in Documents
  /\ HistoryLimit \in Nat \ {0}
  /\ MaxVersions \in Nat \ {0}

VARIABLES
  draft,         \* the document of the flow's one draft
  versions,      \* the history: sequence number -> version
  publications,  \* the publications; the last one is active
  lifted,        \* history: the versions an editor took the protection from
  publishStage,  \* where a publisher is
  frozen         \* what it has read and made so far

flowVars == <<draft, versions, publications, lifted, publishStage, frozen>>

VersionNumbers == 1 .. MaxVersions
FlowVersion == [document : Documents, is_protected : BOOLEAN]
Frozen == [document : Documents, version : VersionNumbers \cup {0}, overtaken : BOOLEAN]

NothingFrozen == [document |-> DefaultDocument, version |-> 0, overtaken |-> FALSE]

FlowTypeOK ==
  /\ draft \in Documents
  /\ DOMAIN versions \subseteq VersionNumbers
  /\ \A n \in DOMAIN versions : versions[n] \in FlowVersion
  /\ publications \in Seq(Frozen)
  /\ lifted \subseteq VersionNumbers
  /\ publishStage \in [Publishers -> { "idle", "freeze", "protect", "insert" }]
  /\ frozen \in [Publishers -> Frozen]

\* ensure_editor_state: a flow begins with the default document as its draft
\* and as its first version.
FlowInit ==
  /\ draft = DefaultDocument
  /\ versions = [n \in {1} |-> [document |-> DefaultDocument, is_protected |-> FALSE]]
  /\ publications = <<>>
  /\ lifted = {}
  /\ publishStage = [p \in Publishers |-> "idle"]
  /\ frozen = [p \in Publishers |-> NothingFrozen]

-----------------------------------------------------------------------------
LatestVersion(vs) == CHOOSE n \in DOMAIN vs : \A m \in DOMAIN vs : m <= n

\* insert_version: max(sequence) + 1
InsertVersion(vs, document) ==
  [n \in DOMAIN vs \cup {LatestVersion(vs) + 1} |->
     IF n \in DOMAIN vs THEN vs[n]
     ELSE [document |-> document, is_protected |-> FALSE]]

\* trim_versions: all unprotected versions but the HistoryLimit newest.
Trimmed(vs) ==
  LET open == { n \in DOMAIN vs : ~ vs[n].is_protected }
  IN  { n \in open : Cardinality({ m \in open : m > n }) >= HistoryLimit }

\* The versions a publication refers to; the reference restricts deletion.
Referenced == { publications[i].version : i \in DOMAIN publications }

\* save_draft and restore_version: one transaction, undone as a whole when
\* the trim meets a version that is published.
SaveFits(document) == Trimmed(InsertVersion(versions, document)) \cap Referenced = {}

\* Mutant of SaveDraft: the reference of a publication does not hold its version.
SaveDraftUnrestricted(document) ==
  LET longer == InsertVersion(versions, document)
  IN  /\ draft' = document
      /\ versions' = [n \in DOMAIN longer \ Trimmed(longer) |-> longer[n]]

SaveDraft(document) ==
  LET longer == InsertVersion(versions, document)
  IN  /\ SaveFits(document)
      /\ draft' = document
      /\ versions' = [n \in DOMAIN longer \ Trimmed(longer) |-> longer[n]]

\* Whoever writes the draft overtakes the publishers that saved theirs.
Overtaken(p) ==
  IF publishStage[p] = "protect" THEN [frozen[p] EXCEPT !.overtaken = TRUE] ELSE frozen[p]

Overtake == frozen' = [p \in Publishers |-> Overtaken(p)]

MayGrow == LatestVersion(versions) < MaxVersions

-----------------------------------------------------------------------------
\* The editor: a layout change writes the draft only.
SaveLayout(document) ==
  /\ draft' = document
  /\ Overtake
  /\ UNCHANGED <<versions, publications, lifted, publishStage>>

SaveLogical(document) ==
  /\ MayGrow
  /\ SaveDraft(document)
  /\ Overtake
  /\ UNCHANGED <<publications, lifted, publishStage>>

RestoreVersion(n) ==
  /\ MayGrow
  /\ n \in DOMAIN versions
  /\ SaveDraft(versions[n].document)
  /\ Overtake
  /\ UNCHANGED <<publications, lifted, publishStage>>

\* update_version_metadata asks for no reason to protect or unprotect.
SetProtection(n, is_protected) ==
  /\ n \in DOMAIN versions
  /\ versions' = [versions EXCEPT ![n].is_protected = is_protected]
  /\ lifted' = IF is_protected THEN lifted ELSE lifted \cup {n}
  /\ UNCHANGED <<draft, publications, publishStage, frozen>>

-----------------------------------------------------------------------------
\* publish_active_version, one action per transaction.
ReadDraft(p) ==
  /\ publishStage[p] = "idle"
  /\ frozen' = [frozen EXCEPT ![p].document = draft]
  /\ publishStage' = [publishStage EXCEPT ![p] = "freeze"]
  /\ UNCHANGED <<draft, versions, publications, lifted>>

\* Mutant of FrozenVersion: the head of the list, which is sorted by
\* protection first.
FrozenVersionListed(vs) ==
  LET first == { n \in DOMAIN vs : vs[n].is_protected }
      list == IF first = {} THEN DOMAIN vs ELSE first
  IN  CHOOSE n \in list : \A m \in list : n <= m

\* latest_flow_version of the state the save returned.
FrozenVersion(vs) == LatestVersion(vs)

FreezeDraft(p) ==
  /\ publishStage[p] = "freeze"
  /\ MayGrow
  /\ IF SaveFits(frozen[p].document)
       THEN /\ SaveDraft(frozen[p].document)
            /\ frozen' = [q \in Publishers |->
                 IF q = p THEN [frozen[p] EXCEPT !.version = FrozenVersion(versions')]
                 ELSE Overtaken(q)]
            /\ publishStage' = [publishStage EXCEPT ![p] = "protect"]
       ELSE /\ publishStage' = [publishStage EXCEPT ![p] = "idle"]
            /\ frozen' = [frozen EXCEPT ![p] = NothingFrozen]
            /\ UNCHANGED <<draft, versions>>
  /\ UNCHANGED <<publications, lifted>>

\* What is compiled and published is the draft this transaction returns.
ProtectVersion(p) ==
  /\ publishStage[p] = "protect"
  /\ IF frozen[p].version \in DOMAIN versions
       THEN /\ versions' = [versions EXCEPT ![frozen[p].version].is_protected = TRUE]
            /\ frozen' = [frozen EXCEPT ![p].document = draft]
            /\ publishStage' = [publishStage EXCEPT ![p] = "insert"]
       ELSE /\ publishStage' = [publishStage EXCEPT ![p] = "idle"]
            /\ frozen' = [frozen EXCEPT ![p] = NothingFrozen]
            /\ UNCHANGED versions
  /\ UNCHANGED <<draft, publications, lifted>>

\* The compiler or the plan's insert may refuse; the publication's insert
\* needs its version to be there.
InsertPublication(p) ==
  /\ publishStage[p] = "insert"
  /\ \/ /\ frozen[p].version \in DOMAIN versions
        /\ publications' = Append(publications, frozen[p])
     \/ UNCHANGED publications
  /\ publishStage' = [publishStage EXCEPT ![p] = "idle"]
  /\ frozen' = [frozen EXCEPT ![p] = NothingFrozen]
  /\ UNCHANGED <<draft, versions, lifted>>

FlowNext ==
  \/ \E d \in Documents : SaveLayout(d) \/ SaveLogical(d)
  \/ \E n \in VersionNumbers : RestoreVersion(n) \/ \E b \in BOOLEAN : SetProtection(n, b)
  \/ \E p \in Publishers :
       ReadDraft(p) \/ FreezeDraft(p) \/ ProtectVersion(p) \/ InsertPublication(p)

FlowSpec == FlowInit /\ [][FlowNext]_flowVars

-----------------------------------------------------------------------------
\* A published version stays in the history, and it is protected as long as
\* no editor lifted its protection.  One that is not protected is what a
\* later trim runs into: from then on no logical change can be saved.
PublishedVersionIsKept ==
  \A n \in Referenced :
    n \in DOMAIN versions /\ (versions[n].is_protected \/ n \in lifted)

\* What a publication serves is the document of the version it names, unless
\* the draft was written between that version's save and its protection.
PublicationServesItsVersion ==
  \A i \in DOMAIN publications :
    publications[i].overtaken
      \/ publications[i].document = versions[publications[i].version].document

=============================================================================
