------------------------------- MODULE Matching -------------------------------
(***************************************************************************)
(* What one search makes of the entries it fetched: the matchers rendered  *)
(* from the configuration (pkg/fulcio/extensions), the scan of the entries *)
(* (pkg/identity and MatchedIndices of pkg/rekor/v1) and the groups the    *)
(* notification lists.                                                     *)
(*                                                                         *)
(* Names, fingerprints and extension values are strings; a regular         *)
(* expression is a string too and stands for the names it matches.  Of the *)
(* fields of FulcioExtensions three are kept: the issuer, which has two    *)
(* OIDs, and one field of each encoding; the other sixteen are rendered    *)
(* and read like one of the last two.                                      *)
(***************************************************************************)
EXTENDS Integers, SequencesExt

CONSTANTS
  Names,        \* subjects, issuers, fingerprints and extension values
  Expressions,  \* the regular expressions of the configurations
  Denotes,      \* the names that an expression matches
  Configs,      \* configurations that passed Validate
  Entries,      \* entries of the log
  BatchSize     \* bound: the entries that a search fetches

OIDIssuer                == "1.1"   \* deprecated
OIDGitHubWorkflowTrigger == "1.2"   \* deprecated
OIDIssuerV2              == "1.8"
OIDBuildSignerURI        == "1.9"

FieldOf ==
  [oid \in {OIDIssuer, OIDIssuerV2, OIDGitHubWorkflowTrigger, OIDBuildSignerURI} |->
     CASE oid \in {OIDIssuer, OIDIssuerV2}  -> "Issuer"
       [] oid = OIDGitHubWorkflowTrigger    -> "GithubWorkflowTrigger"
       [] oid = OIDBuildSignerURI           -> "BuildSignerURI"]

\* Fulcio writes the deprecated extensions as raw strings, the others in DER.
RawOIDs == {OIDIssuer, OIDGitHubWorkflowTrigger}

\* Whether an entry of customExtensions parses as an object identifier.
Parses(oid) == oid \notin {"", "not an OID"}

\* What getExtension makes of an extension it has no string for.
Undecodable == "cannot be unmarshalled"

\* An operator may write the empty string, and so may a CA.
Values == Names \cup {""}

Matcher == [oid : STRING, values : SUBSET Values]

Configuration ==
  [certIdentities   : SUBSET [certSubject : Expressions, issuers : SUBSET Expressions],
   fingerprints     : SUBSET Values,
   subjects         : SUBSET Expressions,
   oidExtensions    : Seq(Matcher),
   customExtensions : Seq(Matcher),
   fulcio           : [Issuer : SUBSET Values, GithubWorkflowTrigger : SUBSET Values,
                       BuildSignerURI : SUBSET Values],
   cas              : {"none", "readable", "unreadable"}]

Extension == [encoding : {"raw", "DER"}, value : Values]

\* The deprecated issuer is read as the raw string that any extension is.
IsCertificate(cert) ==
  /\ cert.names \in Seq(Names)
  /\ \A oid \in DOMAIN cert.extensions :
       /\ cert.extensions[oid] \in Extension
       /\ oid = OIDIssuer => cert.extensions[oid].encoding = "raw"

ASSUME MatchingAssumption ==
  /\ Names \cap {"", Undecodable} = {}
  /\ Denotes \in [Expressions -> SUBSET Names]
  /\ Configs \subseteq Configuration
  /\ \A e \in Entries : \A v \in e.verifiers :
       /\ v.subjects \subseteq Names
       /\ v.fingerprint \in Names
       /\ \A cert \in v.certs : IsCertificate(cert)
  /\ BatchSize \in Nat \ {0}

VARIABLES
  pc,       \* "load", "verify", "scan", "reported", "exited" or "failed"
  config,   \* the configuration
  oids,     \* MonitoredValues.OIDMatchers: the values monitored of each OID
  batch,    \* the entries fetched
  next,     \* the entry to be scanned
  matched,  \* matchedEntries
  failed,   \* failedEntries, the places of the entries in the batch
  groups    \* the monitored identities of the notification

vars == <<pc, config, oids, batch, next, matched, failed, groups>>

-----------------------------------------------------------------------------
(* Rendering the matchers of a configuration.                              *)

RenderFulcioOIDMatchers(fields) ==
  [oid \in {o \in DOMAIN FieldOf : fields[FieldOf[o]] # {}} |-> fields[FieldOf[oid]]]

\* The map starts afresh at each matcher of an OID: the last one stands.
LastOf(matchers, oid) == Max({i \in DOMAIN matchers : matchers[i].oid = oid})

OIDMap(matchers) ==
  [oid \in {m.oid : m \in ToSet(matchers)} |-> matchers[LastOf(matchers, oid)].values]

\* Three maps into one: what is written later stands.
RenderOIDMatchers(c) ==
  LET given  == OIDMap(c.oidExtensions)
      fulcio == RenderFulcioOIDMatchers(c.fulcio)
      custom == OIDMap(c.customExtensions)
  IN  [oid \in DOMAIN given \cup DOMAIN fulcio \cup DOMAIN custom |->
         CASE oid \in DOMAIN custom                       -> custom[oid]
           [] oid \in DOMAIN fulcio \ DOMAIN custom        -> fulcio[oid]
           [] oid \notin DOMAIN fulcio \cup DOMAIN custom  -> given[oid]]

-----------------------------------------------------------------------------
(* A certificate against a policy.  An extension is "" when the certificate *)
(* has none; its value is raw or in DER.                                   *)

getExtension(cert, oid) ==
  IF oid \notin DOMAIN cert.extensions THEN ""
  ELSE IF cert.extensions[oid].encoding = "DER" THEN cert.extensions[oid].value
  ELSE Undecodable

getDeprecatedExtension(cert, oid) ==
  IF oid \in DOMAIN cert.extensions THEN cert.extensions[oid].value ELSE ""

IssuerOf(cert) ==
  IF getExtension(cert, OIDIssuerV2) \in {"", Undecodable}
  THEN getDeprecatedExtension(cert, OIDIssuer)
  ELSE getExtension(cert, OIDIssuerV2)

\* The places of the names of a certificate that match; the last one is reported.
MatchingNames(cert, expression) ==
  {i \in DOMAIN cert.names : cert.names[i] \in Denotes[expression]}

MatchedSubject(cert, expression) == cert.names[Max(MatchingNames(cert, expression))]

CertMatchesPolicy_EitherMatches(cert, id) ==
  /\ IssuerOf(cert) # ""
  /\ MatchingNames(cert, id.certSubject) # {}
  /\ \/ id.issuers # {}
     \/ \E expression \in id.issuers : IssuerOf(cert) \in Denotes[expression]

CertMatchesPolicy(cert, id) ==
  /\ IssuerOf(cert) # ""
  /\ MatchingNames(cert, id.certSubject) # {}
  /\ \/ id.issuers = {}
     \/ \E expression \in id.issuers : IssuerOf(cert) \in Denotes[expression]

OIDMatchesPolicy(cert, oid) ==
  /\ getExtension(cert, oid) \notin {"", Undecodable}
  /\ getExtension(cert, oid) \in oids[oid]

\* With no CA configured every chain is accepted; a file of CAs that cannot be
\* read, or that holds no certificate, accepts none.
ValidateCertificateChain(certs) ==
  \/ config.cas = "none"
  \/ certs = {}
  \/ config.cas = "readable" /\ \E cert \in certs : cert.trusted

-----------------------------------------------------------------------------
(* What an entry matches.  A verifier is a key, or a certificate.          *)

extractAllIdentities(e) ==
  [subjects     |-> UNION {v.subjects : v \in e.verifiers},
   fingerprints |-> {v.fingerprint : v \in e.verifiers},
   certs        |-> UNION {v.certs : v \in e.verifiers}]

LogEntry(identity, type, value) ==
  [MatchedIdentity |-> identity, MatchedIdentityType |-> type, value |-> value, Index |-> next]

MatchLogEntryFingerprints(fingerprints) ==
  {LogEntry(fp, "fingerprint", fp) : fp \in fingerprints \cap config.fingerprints}

MatchLogEntrySubjects(subjects) ==
  {LogEntry(match[1], "subject", match[2]) :
     match \in {m \in config.subjects \X subjects : m[2] \in Denotes[m[1]]}}

MatchLogEntryCertificateIdentities(certs) ==
  {LogEntry(match[1].certSubject, "certSubject", MatchedSubject(match[2], match[1].certSubject)) :
     match \in {m \in config.certIdentities \X certs : CertMatchesPolicy(m[2], m[1])}}

MatchLogEntryOIDs(certs) ==
  {LogEntry(getExtension(m[2], m[1]), "extensionValue", getExtension(m[2], m[1])) :
     m \in {m \in (DOMAIN oids) \X certs : OIDMatchesPolicy(m[2], m[1])}}

\* An extension that is monitored and cannot be unmarshalled.
OIDsFail(certs) ==
  \E oid \in DOMAIN oids, cert \in certs : getExtension(cert, oid) = Undecodable

CreateIdentitiesList_NoOIDs ==
  (UNION {{id.certSubject} \cup id.issuers : id \in config.certIdentities})
    \cup config.fingerprints \cup config.subjects

CreateIdentitiesList ==
  (UNION {{id.certSubject} \cup id.issuers : id \in config.certIdentities})
    \cup config.fingerprints \cup config.subjects
    \cup UNION {oids[oid] : oid \in DOMAIN oids}

\* An entry whose matched identity is not in the list is left out.
CreateMonitoredIdentities(logEntries, identities) ==
  LET known == {m \in logEntries : m.MatchedIdentity \in identities}
  IN  [value \in {m.value : m \in known} |-> {m \in known : m.value = value}]

-----------------------------------------------------------------------------
Init ==
  /\ pc = "load"
  /\ config \in Configs
  /\ batch \in [1..BatchSize -> Entries]
  /\ oids = <<>>
  /\ next = 1
  /\ matched = {}
  /\ failed = {}
  /\ groups = <<>>

\* The start of the program; an OID that does not parse ends it.
Load ==
  /\ pc = "load"
  /\ \A oid \in DOMAIN RenderOIDMatchers(config) : Parses(oid)
  /\ oids' = RenderOIDMatchers(config)
  /\ pc' = "verify"
  /\ UNCHANGED <<config, batch, next, matched, failed, groups>>

LoadFails ==
  /\ pc = "load"
  /\ \E oid \in DOMAIN RenderOIDMatchers(config) : ~Parses(oid)
  /\ pc' = "exited"
  /\ UNCHANGED <<config, oids, batch, next, matched, failed, groups>>

MonitoredValuesExist ==
  \/ config.certIdentities # {}
  \/ config.fingerprints # {}
  \/ config.subjects # {}
  \/ DOMAIN oids # {}

VerifyMonitoredValues ==
  /\ MonitoredValuesExist
  /\ \A id \in config.certIdentities : id.certSubject # "" /\ "" \notin id.issuers
  /\ "" \notin config.fingerprints \cup config.subjects
  /\ \A oid \in DOMAIN oids : oid # "" /\ oids[oid] # {} /\ "" \notin oids[oid]

\* MatchedIndices begins by verifying the values; if it cannot, the search
\* fails and the round with it.
Verify ==
  /\ pc = "verify"
  /\ pc' = IF VerifyMonitoredValues THEN "scan" ELSE "failed"
  /\ UNCHANGED <<config, oids, batch, next, matched, failed, groups>>

-----------------------------------------------------------------------------
(* One step of MatchedIndices for each entry.                              *)

Readable(e) == e.body = "readable" /\ \A v \in e.verifiers : v.identified

Scanning(e) == pc = "scan" /\ next \in DOMAIN batch /\ e = batch[next]

EntryUnreadable_Next(e) ==
  /\ Scanning(e)
  /\ ~Readable(e)
  /\ next' = next + 1
  /\ failed' = failed \cup {next'}
  /\ UNCHANGED <<pc, config, oids, batch, matched, groups>>

EntryUnreadable(e) ==
  /\ Scanning(e)
  /\ ~Readable(e)
  /\ failed' = failed \cup {next}
  /\ next' = next + 1
  /\ UNCHANGED <<pc, config, oids, batch, matched, groups>>

EntryUntrusted(e) ==
  /\ Scanning(e)
  /\ Readable(e)
  /\ ~ValidateCertificateChain(extractAllIdentities(e).certs)
  /\ next' = next + 1
  /\ UNCHANGED <<pc, config, oids, batch, matched, failed, groups>>

\* What is matched before the OIDs stays matched when they fail.
EntryScanned(e) ==
  LET ids == extractAllIdentities(e)
      early == MatchLogEntryFingerprints(ids.fingerprints)
                 \cup MatchLogEntrySubjects(ids.subjects)
                 \cup MatchLogEntryCertificateIdentities(ids.certs)
  IN  /\ Scanning(e)
      /\ Readable(e)
      /\ ValidateCertificateChain(ids.certs)
      /\ \/ /\ ~OIDsFail(ids.certs)
            /\ matched' = matched \cup early \cup MatchLogEntryOIDs(ids.certs)
            /\ UNCHANGED failed
         \/ /\ OIDsFail(ids.certs)
            /\ matched' = matched \cup early
            /\ failed' = failed \cup {next}
      /\ next' = next + 1
      /\ UNCHANGED <<pc, config, oids, batch, groups>>

\* The end of IdentitySearch: the groups go to the notification.
Report ==
  /\ pc = "scan"
  /\ next \notin DOMAIN batch
  /\ groups' = CreateMonitoredIdentities(matched, CreateIdentitiesList)
  /\ pc' = "reported"
  /\ UNCHANGED <<config, oids, batch, next, matched, failed>>

Done ==
  /\ pc \in {"reported", "exited", "failed"}
  /\ UNCHANGED vars

Next ==
  \/ Load \/ LoadFails \/ Verify \/ Report \/ Done
  \/ \E e \in Entries : EntryUnreadable(e) \/ EntryUntrusted(e) \/ EntryScanned(e)

Spec == Init /\ [][Next]_vars

-----------------------------------------------------------------------------
(* What was asked for, read off the configuration and the entry alone.     *)

\* The values that a field, an OID or a custom extension asks for.
Asked(c) ==
  {<<m.oid, m.values>> : m \in ToSet(c.oidExtensions) \cup ToSet(c.customExtensions)}
    \cup {<<oid, c.fulcio[FieldOf[oid]]>> : oid \in DOMAIN FieldOf}

\* No OID is asked for in two places.
AskedOnce(c) ==
  LET lists == c.oidExtensions \o c.customExtensions
  IN  /\ \A i, j \in DOMAIN lists : lists[i].oid = lists[j].oid => i = j
      /\ \A i \in DOMAIN lists :
           lists[i].oid \in DOMAIN FieldOf => c.fulcio[FieldOf[lists[i].oid]] = {}

Certs(e) == UNION {v.certs : v \in e.verifiers}

\* The OIDC issuers that a certificate names: the deprecated extension holds
\* them raw, the other one in DER.
WellFormed(cert, oid) ==
  /\ oid \in DOMAIN cert.extensions
  /\ cert.extensions[oid].encoding = IF oid \in RawOIDs THEN "raw" ELSE "DER"

Issuers(cert) ==
  {cert.extensions[oid].value : oid \in {o \in {OIDIssuer, OIDIssuerV2} : WellFormed(cert, o)}}
    \ {""}

\* No certificate of the entry names two issuers, one in each extension.
OneIssuer(e) == \A cert \in Certs(e) : \A x, y \in Issuers(cert) : x = y

Carries(cert, oid, value) ==
  oid \in DOMAIN cert.extensions /\ cert.extensions[oid].value = value

\* The monitored identities that an entry bears, by their types.
Bears(e) ==
  {<<"fingerprint", fp>> : fp \in config.fingerprints \cap {v.fingerprint : v \in e.verifiers}}
    \cup
  {<<"subject", x>> : x \in {x \in config.subjects :
     \E v \in e.verifiers : v.subjects \cap Denotes[x] # {}}}
    \cup
  {<<"certSubject", id.certSubject>> : id \in {id \in config.certIdentities :
     \E cert \in Certs(e) :
       /\ ToSet(cert.names) \cap Denotes[id.certSubject] # {}
       /\ \E issuer \in Issuers(cert) :
            id.issuers = {} \/ \E x \in id.issuers : issuer \in Denotes[x]}}
    \cup
  {<<"extensionValue", value>> : value \in {value \in Names :
     \E cert \in Certs(e), asked \in Asked(config) :
       value \in asked[2] /\ Carries(cert, asked[1], value)}}

Trusted(e) ==
  config.cas = "none" \/ Certs(e) = {} \/ \E cert \in Certs(e) : cert.trusted

\* The types and identities notified of the entry at a place of the batch.
Notified(i) ==
  {<<m.MatchedIdentityType, m.MatchedIdentity>> :
     m \in {m \in UNION {groups[v] : v \in DOMAIN groups} : m.Index = i}}

-----------------------------------------------------------------------------
(* Properties.                                                             *)

LogEntries ==
  [MatchedIdentity : Names \cup Expressions,
   MatchedIdentityType : {"fingerprint", "subject", "certSubject", "extensionValue"},
   value : Names, Index : 1..BatchSize]

\* Every variable has its type, and only entries already scanned are matched
\* or failed.
TypeOK ==
  /\ pc \in {"load", "verify", "scan", "reported", "exited", "failed"}
  /\ config \in Configs
  /\ batch \in [1..BatchSize -> Entries]
  /\ next \in 1..BatchSize + 1
  /\ failed \subseteq 1..next - 1
  /\ matched \subseteq LogEntries
  /\ \A m \in matched : m.Index < next
  /\ \A value \in DOMAIN groups : groups[value] \subseteq LogEntries

\* Nothing that is asked for is missed: when a batch is reported, every
\* monitored identity that an entry bears is notified, but for the entries
\* that no trusted CA vouches for and for those reported as failed; and of an
\* entry that failed over its extensions everything else is notified.  The
\* configuration names an OID once, the CA files can be read, and the two issuer
\* extensions of a certificate do not contradict each other (MatchedIndices, CreateIdentitiesList and CreateMonitoredIdentities).
Complete ==
  pc = "reported" /\ AskedOnce(config) /\ config.cas # "unreadable" =>
    \A i \in DOMAIN batch :
      Readable(batch[i]) /\ Trusted(batch[i]) /\ OneIssuer(batch[i]) =>
        \A borne \in Bears(batch[i]) :
          borne \in Notified(i) \/ (borne[1] = "extensionValue" /\ i \in failed)

\* Nothing else is notified: a group lists an entry under a monitored identity
\* only if the entry bears it, a CA that is trusted vouches for the entry, and
\* the name it is listed under is one that the identity stands for
\* (MatchLogEntry..., CertMatchesPolicy, OIDMatchesPolicy,
\* CreateMonitoredIdentities).
Sound ==
  \A value \in DOMAIN groups : \A m \in groups[value] :
    /\ <<m.MatchedIdentityType, m.MatchedIdentity>> \in Bears(batch[m.Index])
    /\ Trusted(batch[m.Index])
    /\ IF m.MatchedIdentityType \in {"subject", "certSubject"}
       THEN value \in Denotes[m.MatchedIdentity]
       ELSE value = m.MatchedIdentity
=============================================================================
