----------------------------- MODULE ReleaseTrust -----------------------------
(***************************************************************************)
(* What `echoctl release verify` makes of a release bundle.  The files of  *)
(* a bundle may be mixed up between releases, edited or cut short on their *)
(* way; a signature is checked against the key named on the command line,  *)
(* or else the one linked into the binary, if it has one.                  *)
(***************************************************************************)
CONSTANTS Releases, Keys  \* what was built, and signed with one of the keys

None == "none"
\* An edit of a manifest changes the size or digest of its artifact, or it does not.
Edits == {None, "text", "digest"}
Manifests == [of : Releases, edited : Edits, complete : BOOLEAN]
Signatures == [of : Releases, key : Keys, edited : Edits, whole : BOOLEAN]
Artifacts == [of : Releases, whole : BOOLEAN]
NoSignature == [of |-> None]
NoArtifact == [of |-> None]

VARIABLES
    manifest, sig, artifact,      \* the files of the bundle
    allowUnsigned, given, linked, \* the policy: the flag, the key given and the one linked in
    pc,                           \* verifyRelease
    notes, line                   \* of the report: warnings, and what it says of the signature

files == <<manifest, sig, artifact>>
policy == <<allowUnsigned, given, linked>>
vars == <<files, policy, pc, notes, line>>

\* A key file may hold no key; the linked one is missing in a development build.
Init ==
    /\ manifest \in Manifests /\ sig \in Signatures \cup {NoSignature}
    /\ artifact \in Artifacts \cup {NoArtifact}
    /\ allowUnsigned \in BOOLEAN /\ given \in Keys \cup {None, "malformed"}
    /\ linked \in Keys \cup {None, "malformed"}
    /\ pc = "parse" /\ notes = {} /\ line = None

-----------------------------------------------------------------------------
Goto(label) == pc' = label /\ UNCHANGED <<files, policy, notes, line>>
Reject == Goto("rejected")

\* ParseManifest rejects fields it does not know and what lacks one.
ParseManifest ==
    /\ pc = "parse" /\ IF manifest.complete THEN Goto("policy") ELSE Reject

\* trustPolicy and readSignature: a key or a signature that cannot be decoded
\* rejects the bundle, whatever the policy.
TrustPolicy ==
    /\ pc = "policy"
    /\ IF given = "malformed" \/ (sig # NoSignature /\ ~sig.whole) THEN Reject ELSE Goto("check")

PublicKey == IF given # None THEN given ELSE linked
KeyMissing == PublicKey \in {None, "malformed"}
\* VerifyManifest: the signature covers all of the manifest.
Verifies == sig # NoSignature /\ sig.key = PublicKey /\ sig.of = manifest.of /\ sig.edited = manifest.edited

\* Mutant: the flag for unsigned releases lets a bad signature pass.
CheckLenient ==
    /\ pc = "check" /\ IF Verifies \/ allowUnsigned \/ KeyMissing THEN Goto("report") ELSE Reject

\* TrustPolicy.Check.
Check ==
    /\ pc = "check"
    /\ IF (sig = NoSignature \/ KeyMissing) /\ allowUnsigned THEN Goto("report")
       ELSE IF sig # NoSignature /\ ~KeyMissing /\ Verifies THEN Goto("report") ELSE Reject

\* Mutant: a development build without a signature has nothing to warn of.
ReportQuietly ==
    /\ pc = "report" /\ pc' = "artifact" /\ UNCHANGED <<files, policy>>
    /\ notes' = IF allowUnsigned /\ sig # NoSignature THEN {"any binary"} ELSE {}
    /\ line' = IF sig = NoSignature THEN "absent" ELSE "verified"
\* Mutant: what the report says of the signature goes by the key.
ReportByKey ==
    /\ pc = "report" /\ pc' = "artifact" /\ UNCHANGED <<files, policy>>
    /\ notes' = IF allowUnsigned THEN {"any binary"} ELSE {}
    /\ line' = IF KeyMissing THEN "absent" ELSE "verified"

\* StatusNotes and signatureStatus, which looks for a signature file only.
Report ==
    /\ pc = "report" /\ pc' = "artifact" /\ UNCHANGED <<files, policy>>
    /\ notes' = IF allowUnsigned THEN {"any binary"} ELSE {}
    /\ line' = IF sig = NoSignature THEN "absent" ELSE "verified"

\* VerifyArtifact, when the operator names an artifact: size, then digest,
\* and nothing else of the manifest.  The report is written when all has passed.
VerifyArtifact ==
    /\ pc = "artifact"
    /\ IF artifact = NoArtifact \/ (artifact.whole /\ artifact.of = manifest.of /\ manifest.edited # "digest")
       THEN Goto("accepted") ELSE Reject

Next == ParseManifest \/ TrustPolicy \/ Check \/ Report \/ VerifyArtifact
Spec == Init /\ [][Next]_vars

-----------------------------------------------------------------------------
\* "signatures required, no dev builds": what the secure policy accepts is one
\* release as it was signed, manifest and artifact, with the key in use.
AcceptedIsReleased ==
    pc = "accepted" /\ ~allowUnsigned =>
        /\ sig # NoSignature /\ sig.of = manifest.of /\ sig.edited = manifest.edited
        /\ sig.key = (IF given # None THEN given ELSE linked)
        /\ artifact # NoArtifact => artifact.of = sig.of /\ artifact.whole

\* "an operator can never be unaware that this deployment accepts any binary":
\* an accepted bundle comes with a warning unless it was verified.
AcceptanceIsExplained == pc = "accepted" => Verifies \/ notes # {}

\* The line of the report about the signature is true, but for a signature
\* that a development build could not check: with no key to verify with and
\* unsigned releases allowed, the report says "verified against the key built
\* into this binary" of a signature nobody verified.
SignatureLineIsTrue ==
    /\ pc = "accepted" /\ line = "verified" => Verifies \/ (allowUnsigned /\ KeyMissing)
    /\ pc = "accepted" /\ line = "absent" => sig = NoSignature

\* Not so: without that exception.
VerifiedMeansVerified == pc = "accepted" /\ line = "verified" => Verifies

\* The verdict on a bundle and what the report says with it.
TrustInvariant == AcceptedIsReleased /\ AcceptanceIsExplained /\ SignatureLineIsTrue
=============================================================================
