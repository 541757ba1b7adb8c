------------------------------ MODULE MCMatching ------------------------------
(***************************************************************************)
(* Values for the constants of Matching: configurations that use each kind *)
(* of monitored value alone, two together or none, and entries signed with *)
(* a key, a Fulcio certificate of either age, or something unreadable.     *)
(***************************************************************************)
EXTENDS Matching

MCNames == {"alice", "bob", "idp", "push", "uri", "key1", "key2"}

MCDenotes ==
  ("alice" :> {"alice"}) @@ ("anyone" :> {"alice", "bob"}) @@
  ("idp" :> {"idp"}) @@ ("other" :> {}) @@ ("" :> MCNames)

MCExpressions == DOMAIN MCDenotes

\* Nothing is monitored; the configurations below say what is.  A monitor that
\* runs always has files of CAs, its own or those of the trusted root.
Nothing ==
  [certIdentities |-> {}, fingerprints |-> {}, subjects |-> {},
   oidExtensions |-> <<>>, customExtensions |-> <<>>,
   fulcio |-> [Issuer |-> {}, GithubWorkflowTrigger |-> {}, BuildSignerURI |-> {}],
   cas |-> "readable"]

Id(subject, issuers) == [certSubject |-> subject, issuers |-> issuers]
Ext(oid, values) == [oid |-> oid, values |-> values]

Issuer  == [Nothing EXCEPT !.fulcio.Issuer = {"idp"}]
Trigger == [Nothing EXCEPT !.fulcio.GithubWorkflowTrigger = {"push"}]
Signer  == [Nothing EXCEPT !.fulcio.BuildSignerURI = {"uri"}]

MCConfigs ==
  { Nothing,
    [Nothing EXCEPT !.fingerprints = {"key1"}],
    [Nothing EXCEPT !.subjects = {"alice", "anyone"}],
    [Nothing EXCEPT !.subjects = {""}],
    [Nothing EXCEPT !.certIdentities = {Id("anyone", {})}],
    [Nothing EXCEPT !.certIdentities = {Id("alice", {"idp"}), Id("anyone", {"other"})}],
    [Nothing EXCEPT !.certIdentities = {Id("anyone", {"idp"})}],
    [Nothing EXCEPT !.fingerprints = {"key2"}, !.cas = "unreadable"],
    Issuer, Trigger, Signer,
    [Trigger EXCEPT !.fingerprints = {"key2"}, !.subjects = {"anyone"}],
    [Signer EXCEPT !.customExtensions = <<Ext(OIDBuildSignerURI, {"alice"})>>],
    [Nothing EXCEPT !.oidExtensions = <<Ext("2.5", {"uri"}), Ext("2.5", {"bob"})>>],
    [Signer EXCEPT !.oidExtensions = <<Ext("2.5", {"bob"})>>,
                   !.customExtensions = <<Ext("2.6", {"push"})>>],
    [Signer EXCEPT !.customExtensions = <<Ext("not an OID", {"uri"})>>],
    [Signer EXCEPT !.customExtensions = <<Ext("2.6", {})>>] }

Raw(value) == [encoding |-> "raw", value |-> value]
Der(value) == [encoding |-> "DER", value |-> value]

Cert(names, extensions, trusted) ==
  [names |-> names, extensions |-> extensions, trusted |-> trusted]

\* Fulcio's certificates of before and after the new issuer extension, one
\* without an issuer, and one with an extension of another kind.
OldCert  == Cert(<<"alice">>, OIDIssuer :> Raw("idp"), TRUE)
NewCert  == Cert(<<"bob", "alice">>,
  (OIDIssuer :> Raw("idp")) @@ (OIDIssuerV2 :> Der("idp")) @@
  (OIDGitHubWorkflowTrigger :> Raw("push")) @@ (OIDBuildSignerURI :> Der("uri")), TRUE)
OtherCA  == [NewCert EXCEPT !.trusted = FALSE]
Plain    == Cert(<<"alice">>, "2.5" :> Der("bob"), TRUE)
BadCert  == Cert(<<"bob">>, (OIDIssuerV2 :> Raw("idp")) @@ ("2.6" :> Der("push")), TRUE)

Key(fp) == [subjects |-> {"alice"}, fingerprint |-> fp, certs |-> {}, identified |-> TRUE]
Signed(cert) ==
  [subjects |-> ToSet(cert.names), fingerprint |-> "key2", certs |-> {cert}, identified |-> TRUE]

Entry(verifiers) == [body |-> "readable", verifiers |-> verifiers]

\* A certificate whose issuer extensions contradict each other.
TwoIssuers == Cert(<<"alice">>, (OIDIssuer :> Raw("idp")) @@ (OIDIssuerV2 :> Der("bob")), TRUE)

MCEntries ==
  { [body |-> "unreadable", verifiers |-> {}],
    Entry({[Key("key1") EXCEPT !.identified = FALSE]}),
    Entry({Key("key1")}),
    Entry({Key("key2"), Signed(OldCert)}),
    Entry({Signed(NewCert)}),
    Entry({Signed(OtherCA)}),
    Entry({Signed(OtherCA), Signed(OldCert)}),
    Entry({Signed(Plain)}),
    Entry({Signed(BadCert)}),
    Entry({Signed(TwoIssuers)}) }
=============================================================================
