----------------------------- MODULE MatchingProofs -----------------------------
(***************************************************************************)
(* Theorems about Matching, for every set of names and expressions, every  *)
(* configuration, and batches of any size of any entries.                  *)
(*                                                                         *)
(* The lemmas say what the operators of the scan compute: the last of a    *)
(* list, the matchers that are rendered, the issuer that is read, and what *)
(* one entry adds to matchedEntries.  The invariant then says of each      *)
(* entry scanned so far what Sound and Complete say of the report.         *)
(***************************************************************************)
EXTENDS Matching, FiniteSetTheorems, SequenceTheorems, WellFoundedInduction, TLAPS

-----------------------------------------------------------------------------
(* The last of a list.                                                     *)

\* A finite set of integers that is not empty has a greatest element.
LEMMA HasGreatest ==
  ASSUME NEW S \in SUBSET Int, IsFiniteSet(S), S # {}
  PROVE  Max(S) \in S
<1> DEFINE Above(s) == {r \in S : r > s}
           sets == {Above(s) : s \in S}
<1>1. \E A \in sets : \A B \in sets : ~(B \subseteq A /\ B # A)
  <2>1. sets \subseteq FiniteSubsetsOf(S) /\ sets # {}
    <3>1. ASSUME NEW s \in S PROVE Above(s) \in SUBSET S /\ IsFiniteSet(Above(s))
      <4>1. Above(s) \in SUBSET S
        OBVIOUS
      <4> HIDE DEF Above
      <4> QED  BY <4>1, FS_Subset
    <3> HIDE DEF Above
    <3> QED  BY <3>1 DEF FiniteSubsetsOf
  <2> HIDE DEF sets
  <2>2. PICK A \in sets : \A B \in sets : ~(<<B, A>> \in StrictSubsetOrdering(S))
    BY <2>1, WFMin, FS_StrictSubsetOrderingWellFounded
  <2>3. ASSUME NEW B \in sets, B \subseteq A, B # A
        PROVE  FALSE
    <3>1. <<B, A>> \in (SUBSET S) \X (SUBSET S)
      BY <2>1 DEF FiniteSubsetsOf
    <3>2. <<B, A>> \in StrictSubsetOrdering(S)
      BY <2>3, <3>1 DEF StrictSubsetOrdering
    <3> QED  BY <2>2, <3>2
  <2> QED  BY <2>3
<1>2. PICK s \in S : \A r \in S : ~(Above(r) \subseteq Above(s) /\ Above(r) # Above(s))
  <2>1. PICK A \in sets : \A B \in sets : ~(B \subseteq A /\ B # A)
    BY <1>1
  <2>2. PICK s \in S : A = Above(s)
    OBVIOUS
  <2>3. ASSUME NEW r \in S PROVE Above(r) \in sets
    OBVIOUS
  <2> HIDE DEF sets, Above
  <2> QED  BY <2>1, <2>2, <2>3
<1>3. ASSUME NEW r \in S, r > s PROVE FALSE
  <2>1. ASSUME NEW q \in Above(r) PROVE q \in Above(s)
    BY <1>3
  <2>2. r \in Above(s) /\ r \notin Above(r)
    BY <1>3
  <2> HIDE DEF Above
  <2> QED  BY <1>2, <2>1, <2>2
<1>4. \A r \in S : s >= r
  BY <1>3
<1>5. (CHOOSE x \in S : \A y \in S : x >= y) \in S
  BY <1>4
<1> QED  BY <1>5 DEF Max

\* So has a set of places of a sequence.
LEMMA LastPlace ==
  ASSUME NEW T, NEW seq \in Seq(T), NEW places \in SUBSET (DOMAIN seq), places # {}
  PROVE  Max(places) \in places
<1>1. DOMAIN seq = 1..Len(seq) /\ Len(seq) \in Nat
  OBVIOUS
<1>2. IsFiniteSet(places)
  <2>1. IsFiniteSet(1..Len(seq))
    BY <1>1, FS_Interval
  <2> QED  BY <1>1, <2>1, FS_Subset
<1>3. places \subseteq Int
  BY <1>1
<1> QED  BY <1>2, <1>3, HasGreatest

\* The matcher of an OID that OIDMap takes is one of the list.
LEMMA LastOfList ==
  ASSUME NEW matchers \in Seq(Matcher), NEW oid \in {m.oid : m \in ToSet(matchers)}
  PROVE  /\ LastOf(matchers, oid) \in DOMAIN matchers
         /\ matchers[LastOf(matchers, oid)].oid = oid
<1> DEFINE places == {i \in DOMAIN matchers : matchers[i].oid = oid}
<1>1. places # {}
  BY DEF ToSet
<1>2. Max(places) \in places
  <2>1. places \in SUBSET (DOMAIN matchers)
    OBVIOUS
  <2> HIDE DEF places
  <2> QED  BY <1>1, <2>1, LastPlace
<1>3. LastOf(matchers, oid) \in places
  BY <1>2 DEF LastOf
<1> QED  BY <1>3

\* The subject that is reported is a name of the certificate that matches.
LEMMA MatchedSubjectMatches ==
  ASSUME NEW cert, IsCertificate(cert), NEW expression,
         MatchingNames(cert, expression) # {}
  PROVE  /\ MatchedSubject(cert, expression) \in ToSet(cert.names)
         /\ MatchedSubject(cert, expression) \in Denotes[expression]
<1>1. MatchingNames(cert, expression) \in SUBSET (DOMAIN cert.names)
  BY DEF MatchingNames
<1>2. Max(MatchingNames(cert, expression)) \in MatchingNames(cert, expression)
  BY <1>1, LastPlace DEF IsCertificate
<1> QED  BY <1>2 DEF MatchingNames, MatchedSubject, ToSet

-----------------------------------------------------------------------------
(* The matchers that are rendered.                                         *)

\* What OIDMap knows of an OID is what one matcher of the list says.
LEMMA MapOfList ==
  ASSUME NEW matchers \in Seq(Matcher)
  PROVE  /\ \A i \in DOMAIN matchers : matchers[i].oid \in DOMAIN OIDMap(matchers)
         /\ \A oid \in DOMAIN OIDMap(matchers) :
              \E i \in DOMAIN matchers :
                matchers[i].oid = oid /\ OIDMap(matchers)[oid] = matchers[i].values
<1>1. DOMAIN OIDMap(matchers) = {m.oid : m \in ToSet(matchers)}
  BY DEF OIDMap
<1>2. ASSUME NEW oid \in DOMAIN OIDMap(matchers)
      PROVE  \E i \in DOMAIN matchers :
               matchers[i].oid = oid /\ OIDMap(matchers)[oid] = matchers[i].values
  <2>1. OIDMap(matchers)[oid] = matchers[LastOf(matchers, oid)].values
    BY <1>1, <1>2 DEF OIDMap
  <2> QED  BY <1>1, <1>2, <2>1, LastOfList
<1>3. ASSUME NEW i \in DOMAIN matchers
      PROVE  matchers[i].oid \in DOMAIN OIDMap(matchers)
  <2>1. matchers[i] \in ToSet(matchers)
    BY DEF ToSet
  <2> QED  BY <1>1, <2>1
<1> QED  BY <1>2, <1>3

\* The three places an OID may be asked for in, the later one first.
LEMMA ThreeMaps ==
  ASSUME NEW c
  PROVE  LET given  == OIDMap(c.oidExtensions)
             fulcio == RenderFulcioOIDMatchers(c.fulcio)
             custom == OIDMap(c.customExtensions)
             all    == RenderOIDMatchers(c)
         IN  /\ DOMAIN all = DOMAIN given \cup DOMAIN fulcio \cup DOMAIN custom
             /\ \A oid \in DOMAIN custom : all[oid] = custom[oid]
             /\ \A oid \in DOMAIN fulcio \ DOMAIN custom : all[oid] = fulcio[oid]
             /\ \A oid \in DOMAIN given \ (DOMAIN fulcio \cup DOMAIN custom) :
                  all[oid] = given[oid]
<1> DEFINE given  == OIDMap(c.oidExtensions)
           fulcio == RenderFulcioOIDMatchers(c.fulcio)
           custom == OIDMap(c.customExtensions)
           all    == RenderOIDMatchers(c)
           Value(oid) ==
             CASE oid \in DOMAIN custom                       -> custom[oid]
               [] oid \in DOMAIN fulcio \ DOMAIN custom        -> fulcio[oid]
               [] oid \notin DOMAIN fulcio \cup DOMAIN custom  -> given[oid]
<1>1. all = [oid \in DOMAIN given \cup DOMAIN fulcio \cup DOMAIN custom |-> Value(oid)]
  BY Zenon DEF RenderOIDMatchers
<1> HIDE DEF all
<1>2. DOMAIN all = DOMAIN given \cup DOMAIN fulcio \cup DOMAIN custom
  BY <1>1
<1>3. \A oid \in DOMAIN all : all[oid] = Value(oid)
  BY <1>1, <1>2
<1> HIDE DEF given, fulcio, custom
<1>4. \A oid \in DOMAIN custom : Value(oid) = custom[oid]
  BY Zenon
<1>5. \A oid \in DOMAIN fulcio \ DOMAIN custom : Value(oid) = fulcio[oid]
  BY Zenon
<1>6. \A oid \in DOMAIN given \ (DOMAIN fulcio \cup DOMAIN custom) : Value(oid) = given[oid]
  BY Zenon
<1> HIDE DEF Value
<1>7. /\ DOMAIN all = DOMAIN given \cup DOMAIN fulcio \cup DOMAIN custom
      /\ \A oid \in DOMAIN custom : all[oid] = custom[oid]
      /\ \A oid \in DOMAIN fulcio \ DOMAIN custom : all[oid] = fulcio[oid]
      /\ \A oid \in DOMAIN given \ (DOMAIN fulcio \cup DOMAIN custom) : all[oid] = given[oid]
  BY <1>2, <1>3, <1>4, <1>5, <1>6
<1> QED  BY <1>7, Zenon DEF all, given, fulcio, custom

\* The field of an OID, and the values the configuration gives it.
LEMMA FulcioMap ==
  ASSUME NEW c \in Configuration
  PROVE  /\ \A oid \in DOMAIN FieldOf : c.fulcio[FieldOf[oid]] \in SUBSET Values
         /\ DOMAIN RenderFulcioOIDMatchers(c.fulcio) =
              {oid \in DOMAIN FieldOf : c.fulcio[FieldOf[oid]] # {}}
         /\ \A oid \in DOMAIN RenderFulcioOIDMatchers(c.fulcio) :
              RenderFulcioOIDMatchers(c.fulcio)[oid] = c.fulcio[FieldOf[oid]]
<1>1. ASSUME NEW oid \in DOMAIN FieldOf
      PROVE  FieldOf[oid] \in {"Issuer", "GithubWorkflowTrigger", "BuildSignerURI"}
  BY <1>1, Zenon DEF FieldOf
<1>2. c.fulcio \in [Issuer : SUBSET Values, GithubWorkflowTrigger : SUBSET Values,
                    BuildSignerURI : SUBSET Values]
  BY DEF Configuration
<1>3. \A oid \in DOMAIN FieldOf : c.fulcio[FieldOf[oid]] \in SUBSET Values
  BY <1>1, <1>2
<1> QED  BY <1>3 DEF RenderFulcioOIDMatchers

\* Nothing is rendered that was not asked for.
LEMMA RenderedIsAsked ==
  ASSUME NEW c \in Configuration, NEW oid \in DOMAIN RenderOIDMatchers(c)
  PROVE  <<oid, RenderOIDMatchers(c)[oid]>> \in Asked(c)
<1> DEFINE given  == OIDMap(c.oidExtensions)
           fulcio == RenderFulcioOIDMatchers(c.fulcio)
           custom == OIDMap(c.customExtensions)
<1>1. c.oidExtensions \in Seq(Matcher) /\ c.customExtensions \in Seq(Matcher)
  BY DEF Configuration
<1>2. ASSUME NEW matchers \in Seq(Matcher), oid \in DOMAIN OIDMap(matchers)
      PROVE  \E m \in ToSet(matchers) : m.oid = oid /\ m.values = OIDMap(matchers)[oid]
  <2>1. PICK i \in DOMAIN matchers :
               matchers[i].oid = oid /\ OIDMap(matchers)[oid] = matchers[i].values
    BY <1>2, MapOfList
  <2>2. matchers[i] \in ToSet(matchers)
    BY DEF ToSet
  <2> QED  BY <2>1, <2>2
<1>3. CASE oid \in DOMAIN custom
  <2>1. RenderOIDMatchers(c)[oid] = custom[oid]
    BY <1>3, ThreeMaps
  <2>2. PICK m \in ToSet(c.customExtensions) : m.oid = oid /\ m.values = custom[oid]
    BY <1>1, <1>2, <1>3
  <2> QED  BY <2>1, <2>2 DEF Asked
<1>4. CASE oid \in DOMAIN fulcio \ DOMAIN custom
  <2>1. RenderOIDMatchers(c)[oid] = fulcio[oid]
    BY <1>4, ThreeMaps
  <2>2. oid \in DOMAIN FieldOf /\ fulcio[oid] = c.fulcio[FieldOf[oid]]
    BY <1>4, FulcioMap
  <2> QED  BY <2>1, <2>2 DEF Asked
<1>5. CASE oid \in DOMAIN given \ (DOMAIN fulcio \cup DOMAIN custom)
  <2>1. RenderOIDMatchers(c)[oid] = given[oid]
    BY <1>5, ThreeMaps
  <2>2. PICK m \in ToSet(c.oidExtensions) : m.oid = oid /\ m.values = given[oid]
    BY <1>1, <1>2, <1>5
  <2> QED  BY <2>1, <2>2 DEF Asked
<1>6. oid \in DOMAIN given \cup DOMAIN fulcio \cup DOMAIN custom
  BY ThreeMaps
<1> QED  BY <1>3, <1>4, <1>5, <1>6

\* The places of the elements of two lists in the two taken together.
LEMMA ConcatPlaces ==
  ASSUME NEW T, NEW s1 \in Seq(T), NEW s2 \in Seq(T)
  PROVE  /\ \A i \in DOMAIN s1 : i \in DOMAIN (s1 \o s2) /\ (s1 \o s2)[i] = s1[i]
         /\ \A i \in DOMAIN s2 : /\ Len(s1) + i \in DOMAIN (s1 \o s2)
                                /\ (s1 \o s2)[Len(s1) + i] = s2[i]
                                /\ Len(s1) + i \notin DOMAIN s1
<1>1. /\ s1 \o s2 \in Seq(T)
      /\ Len(s1 \o s2) = Len(s1) + Len(s2)
      /\ \A i \in 1 .. Len(s1) + Len(s2) :
           (s1 \o s2)[i] = IF i <= Len(s1) THEN s1[i] ELSE s2[i - Len(s1)]
  BY ConcatProperties
<1>2. /\ DOMAIN s1 = 1..Len(s1) /\ DOMAIN s2 = 1..Len(s2)
      /\ Len(s1) \in Nat /\ Len(s2) \in Nat
  OBVIOUS
<1>3. DOMAIN (s1 \o s2) = 1..Len(s1) + Len(s2)
  BY <1>1
<1>4. ASSUME NEW i \in DOMAIN s1
      PROVE  i \in DOMAIN (s1 \o s2) /\ (s1 \o s2)[i] = s1[i]
  <2>1. i \in 1 .. Len(s1) + Len(s2) /\ i <= Len(s1)
    BY <1>2
  <2> QED  BY <1>1, <1>3, <2>1
<1>5. ASSUME NEW i \in DOMAIN s2
      PROVE  /\ Len(s1) + i \in DOMAIN (s1 \o s2)
             /\ (s1 \o s2)[Len(s1) + i] = s2[i]
             /\ Len(s1) + i \notin DOMAIN s1
  <2>1. /\ Len(s1) + i \in 1 .. Len(s1) + Len(s2)
        /\ ~(Len(s1) + i <= Len(s1))
        /\ (Len(s1) + i) - Len(s1) = i
    BY <1>2
  <2> QED  BY <1>1, <1>2, <1>3, <2>1
<1> QED  BY <1>4, <1>5

\* All that is asked for is rendered, if no OID is asked for in two places.
LEMMA AskedIsRendered ==
  ASSUME NEW c \in Configuration, AskedOnce(c),
         NEW asked \in Asked(c), asked[2] # {}
  PROVE  /\ asked[1] \in DOMAIN RenderOIDMatchers(c)
         /\ RenderOIDMatchers(c)[asked[1]] = asked[2]
<1> DEFINE oid    == asked[1]
           given  == OIDMap(c.oidExtensions)
           fulcio == RenderFulcioOIDMatchers(c.fulcio)
           custom == OIDMap(c.customExtensions)
           first  == c.oidExtensions
           second == c.customExtensions
           lists  == first \o second
<1>1. first \in Seq(Matcher) /\ second \in Seq(Matcher)
  BY DEF Configuration
<1> HIDE DEF first, second
\* The places of a matcher in the two lists taken together.
<1>2. ASSUME NEW i \in DOMAIN first
      PROVE  i \in DOMAIN lists /\ lists[i] = first[i]
  BY <1>1, ConcatPlaces
<1>3. ASSUME NEW i \in DOMAIN second
      PROVE  /\ Len(first) + i \in DOMAIN lists
             /\ lists[Len(first) + i] = second[i]
             /\ Len(first) + i \notin DOMAIN first
  BY <1>1, ConcatPlaces
<1>4. /\ \A i, j \in DOMAIN lists : lists[i].oid = lists[j].oid => i = j
      /\ \A i \in DOMAIN lists :
           lists[i].oid \in DOMAIN FieldOf => c.fulcio[FieldOf[lists[i].oid]] = {}
  BY DEF AskedOnce, first, second
<1> HIDE DEF lists
<1>5. ASSUME NEW i \in DOMAIN first, NEW j \in DOMAIN first,
             first[i].oid = first[j].oid
      PROVE  i = j
  BY <1>2, <1>4, <1>5
<1>6. ASSUME NEW i \in DOMAIN second, NEW j \in DOMAIN second,
             second[i].oid = second[j].oid
      PROVE  i = j
  <2>1. Len(first) + i = Len(first) + j
    BY <1>3, <1>4, <1>6
  <2>2. i \in Int /\ j \in Int /\ Len(first) \in Int
    BY <1>1
  <2> QED  BY <2>1, <2>2
<1>7. ASSUME NEW i \in DOMAIN first, NEW j \in DOMAIN second
      PROVE  first[i].oid # second[j].oid
  BY <1>2, <1>3, <1>4
<1>8. /\ \A o \in DOMAIN custom : \E j \in DOMAIN second :
            second[j].oid = o
      /\ \A j \in DOMAIN second : second[j].oid \in DOMAIN custom
      /\ \A j \in DOMAIN first : first[j].oid \in DOMAIN given
  BY <1>1, MapOfList DEF first, second
<1>9. ASSUME NEW i \in DOMAIN second, second[i].oid = oid,
             second[i].values = asked[2]
      PROVE  oid \in DOMAIN RenderOIDMatchers(c) /\ RenderOIDMatchers(c)[oid] = asked[2]
  <2>1. oid \in DOMAIN custom
    BY <1>8, <1>9
  <2>2. PICK k \in DOMAIN second :
               second[k].oid = oid /\ custom[oid] = second[k].values
    BY <1>1, <2>1, MapOfList DEF first, second
  <2>3. custom[oid] = asked[2]
    BY <1>6, <1>9, <2>2
  <2> QED  BY <2>1, <2>3, ThreeMaps
<1>10. ASSUME NEW i \in DOMAIN first, first[i].oid = oid,
              first[i].values = asked[2]
       PROVE  oid \in DOMAIN RenderOIDMatchers(c) /\ RenderOIDMatchers(c)[oid] = asked[2]
  <2>1. oid \in DOMAIN given
    BY <1>8, <1>10
  <2>2. PICK k \in DOMAIN first :
               first[k].oid = oid /\ given[oid] = first[k].values
    BY <1>1, <2>1, MapOfList DEF first, second
  <2>3. given[oid] = asked[2]
    BY <1>5, <1>10, <2>2
  <2>4. oid \notin DOMAIN custom
    <3>1. \A j \in DOMAIN second : second[j].oid # oid
      BY <1>7, <1>10
    <3> QED  BY <1>8, <3>1
  <2>5. oid \notin DOMAIN fulcio
    <3>1. i \in DOMAIN lists /\ lists[i].oid = oid
      BY <1>2, <1>10
    <3>2. oid \in DOMAIN FieldOf => c.fulcio[FieldOf[oid]] = {}
      BY <1>4, <3>1
    <3> QED  BY <3>2, FulcioMap
  <2> QED  BY <2>1, <2>3, <2>4, <2>5, ThreeMaps
<1>11. ASSUME oid \in DOMAIN FieldOf, asked[2] = c.fulcio[FieldOf[oid]]
       PROVE  oid \in DOMAIN RenderOIDMatchers(c) /\ RenderOIDMatchers(c)[oid] = asked[2]
  <2>1. oid \in DOMAIN fulcio /\ fulcio[oid] = asked[2]
    BY <1>11, FulcioMap
  <2>2. oid \notin DOMAIN custom
    <3>1. \A j \in DOMAIN second : second[j].oid # oid
      BY <1>3, <1>4, <1>11
    <3> QED  BY <1>8, <3>1
  <2> QED  BY <2>1, <2>2, ThreeMaps
<1>12. \/ \E m \in ToSet(first) \cup ToSet(second) :
             asked = <<m.oid, m.values>>
       \/ \E o \in DOMAIN FieldOf : asked = <<o, c.fulcio[FieldOf[o]]>>
  BY DEF Asked, first, second
<1> QED  BY <1>9, <1>10, <1>11, <1>12 DEF ToSet, first, second

-----------------------------------------------------------------------------
(* What is read of an entry and of its certificates.                       *)

LEMMA Extracted ==
  ASSUME NEW e
  PROVE  /\ extractAllIdentities(e).certs = Certs(e)
         /\ extractAllIdentities(e).subjects = UNION {v.subjects : v \in e.verifiers}
         /\ extractAllIdentities(e).fingerprints = {v.fingerprint : v \in e.verifiers}
  BY DEF extractAllIdentities, Certs

LEMMA EntryTypes ==
  ASSUME NEW e \in Entries
  PROVE  /\ extractAllIdentities(e).subjects \subseteq Names
         /\ extractAllIdentities(e).fingerprints \subseteq Names
         /\ \A cert \in Certs(e) : IsCertificate(cert)
<1>1. \A v \in e.verifiers :
        /\ v.subjects \subseteq Names
        /\ v.fingerprint \in Names
        /\ \A cert \in v.certs : IsCertificate(cert)
  BY MatchingAssumption
<1> QED  BY <1>1, Extracted DEF Certs

\* An extension that can be read is the one the certificate carries.
LEMMA ExtensionRead ==
  ASSUME NEW cert, IsCertificate(cert), NEW oid,
         getExtension(cert, oid) \notin {"", Undecodable}
  PROVE  /\ getExtension(cert, oid) \in Names
         /\ Carries(cert, oid, getExtension(cert, oid))
         /\ cert.extensions[oid].encoding = "DER"
  BY DEF getExtension, IsCertificate, Extension, Values, Carries

\* One that is carried is read, or cannot be.
LEMMA ExtensionCarried ==
  ASSUME NEW cert, NEW oid, NEW value, Carries(cert, oid, value)
  PROVE  getExtension(cert, oid) \in {value, Undecodable}
  BY DEF getExtension, Carries

\* The issuer that is read is one the certificate names.
LEMMA IssuerRead ==
  ASSUME NEW cert, IsCertificate(cert), IssuerOf(cert) # ""
  PROVE  IssuerOf(cert) \in Issuers(cert)
<1>1. CASE getExtension(cert, OIDIssuerV2) \in {"", Undecodable}
  <2>1. IssuerOf(cert) = getDeprecatedExtension(cert, OIDIssuer)
    BY <1>1 DEF IssuerOf
  <2>2. OIDIssuer \in DOMAIN cert.extensions /\ IssuerOf(cert) = cert.extensions[OIDIssuer].value
    BY <2>1 DEF getDeprecatedExtension
  <2>3. WellFormed(cert, OIDIssuer)
    BY <2>2 DEF IsCertificate, WellFormed, RawOIDs
  <2> QED  BY <2>2, <2>3 DEF Issuers
<1>2. CASE getExtension(cert, OIDIssuerV2) \notin {"", Undecodable}
  <2>1. IssuerOf(cert) = getExtension(cert, OIDIssuerV2)
    BY <1>2 DEF IssuerOf
  <2>2. /\ OIDIssuerV2 \in DOMAIN cert.extensions
        /\ cert.extensions[OIDIssuerV2].value = IssuerOf(cert)
        /\ cert.extensions[OIDIssuerV2].encoding = "DER"
    BY <1>2, <2>1, ExtensionRead DEF Carries
  <2>3. WellFormed(cert, OIDIssuerV2)
    BY <2>2 DEF WellFormed, RawOIDs, OIDIssuerV2, OIDIssuer, OIDGitHubWorkflowTrigger
  <2> QED  BY <2>2, <2>3 DEF Issuers
<1> QED  BY <1>1, <1>2

\* A certificate that names an issuer has one that is read.
LEMMA IssuerNamed ==
  ASSUME NEW cert, IsCertificate(cert), Issuers(cert) # {}
  PROVE  IssuerOf(cert) # ""
<1>1. PICK oid \in {OIDIssuer, OIDIssuerV2} :
             WellFormed(cert, oid) /\ cert.extensions[oid].value # ""
  BY DEF Issuers
<1>2. oid \in DOMAIN cert.extensions /\ cert.extensions[oid].value \in Values
  BY <1>1 DEF WellFormed, IsCertificate, Extension
<1>3. CASE oid = OIDIssuer
  <2>1. getDeprecatedExtension(cert, OIDIssuer) # ""
    BY <1>1, <1>2, <1>3 DEF getDeprecatedExtension
  <2> QED  BY <2>1 DEF IssuerOf
<1>4. CASE oid = OIDIssuerV2
  <2>1. cert.extensions[oid].encoding = "DER"
    BY <1>1, <1>4 DEF WellFormed, RawOIDs, OIDIssuerV2, OIDIssuer, OIDGitHubWorkflowTrigger
  <2>2. getExtension(cert, OIDIssuerV2) = cert.extensions[oid].value
    BY <1>2, <1>4, <2>1 DEF getExtension
  <2>3. cert.extensions[oid].value \notin {"", Undecodable}
    BY <1>1, <1>2, MatchingAssumption DEF Values
  <2> QED  BY <1>1, <2>2, <2>3 DEF IssuerOf
<1> QED  BY <1>1, <1>3, <1>4

\* What a monitored certificate identity stands for.
Answers(cert, id) ==
  /\ ToSet(cert.names) \cap Denotes[id.certSubject] # {}
  /\ \E issuer \in Issuers(cert) :
       id.issuers = {} \/ \E x \in id.issuers : issuer \in Denotes[x]

LEMMA PolicySound ==
  ASSUME NEW cert, IsCertificate(cert), NEW id, CertMatchesPolicy(cert, id)
  PROVE  /\ Answers(cert, id)
         /\ MatchedSubject(cert, id.certSubject) \in Names \cap Denotes[id.certSubject]
<1>1. IssuerOf(cert) \in Issuers(cert)
  BY IssuerRead DEF CertMatchesPolicy
<1>2. MatchingNames(cert, id.certSubject) # {}
  BY DEF CertMatchesPolicy
<1>3. /\ MatchedSubject(cert, id.certSubject) \in ToSet(cert.names)
      /\ MatchedSubject(cert, id.certSubject) \in Denotes[id.certSubject]
  BY <1>2, MatchedSubjectMatches
<1>4. ToSet(cert.names) \subseteq Names
  BY DEF ToSet, IsCertificate
<1> QED  BY <1>1, <1>3, <1>4 DEF CertMatchesPolicy, Answers

LEMMA PolicyComplete ==
  ASSUME NEW cert, IsCertificate(cert), NEW id, Answers(cert, id),
         \A x, y \in Issuers(cert) : x = y
  PROVE  CertMatchesPolicy(cert, id)
<1>1. IssuerOf(cert) # "" /\ IssuerOf(cert) \in Issuers(cert)
  BY IssuerNamed, IssuerRead DEF Answers
<1>2. MatchingNames(cert, id.certSubject) # {}
  BY DEF Answers, ToSet, MatchingNames
<1> QED  BY <1>1, <1>2 DEF Answers, CertMatchesPolicy

-----------------------------------------------------------------------------
(* What one entry adds to matchedEntries.                                  *)

\* What is matched before the OIDs.
EarlyMatches(e) ==
  MatchLogEntryFingerprints(extractAllIdentities(e).fingerprints)
    \cup MatchLogEntrySubjects(extractAllIdentities(e).subjects)
    \cup MatchLogEntryCertificateIdentities(extractAllIdentities(e).certs)

OIDMatches(e) == MatchLogEntryOIDs(extractAllIdentities(e).certs)

Borne(m) == <<m.MatchedIdentityType, m.MatchedIdentity>>

\* The name a match is listed under is one that its identity stands for.
NamedRightly(m) ==
  IF m.MatchedIdentityType \in {"subject", "certSubject"}
  THEN m.value \in Denotes[m.MatchedIdentity]
  ELSE m.value = m.MatchedIdentity

\* A match of the entry that is being scanned.
IsMatchOf(m, e) ==
  /\ m \in [MatchedIdentity : Names \cup Expressions,
             MatchedIdentityType : {"fingerprint", "subject", "certSubject", "extensionValue"},
             value : Names, Index : {next}]
  /\ Borne(m) \in Bears(e)
  /\ NamedRightly(m)
  /\ m.MatchedIdentity \in CreateIdentitiesList

LEMMA ConfigTypes ==
  ASSUME config \in Configs
  PROVE  /\ config \in Configuration
         /\ config.subjects \subseteq Expressions
         /\ \A id \in config.certIdentities : id.certSubject \in Expressions
  BY MatchingAssumption DEF Configuration

\* Every value that is monitored is listed.
LEMMA Listed ==
  /\ config.fingerprints \cup config.subjects \subseteq CreateIdentitiesList
  /\ \A id \in config.certIdentities : id.certSubject \in CreateIdentitiesList
  /\ \A oid \in DOMAIN oids : oids[oid] \subseteq CreateIdentitiesList
<1>1. config.fingerprints \cup config.subjects \subseteq CreateIdentitiesList
  BY Zenon DEF CreateIdentitiesList
<1>2. ASSUME NEW id \in config.certIdentities
      PROVE  id.certSubject \in CreateIdentitiesList
  <2>1. id.certSubject \in {id.certSubject} \cup id.issuers
    OBVIOUS
  <2>2. id.certSubject \in UNION {{d.certSubject} \cup d.issuers : d \in config.certIdentities}
    BY <2>1, Zenon
  <2> QED  BY <2>2, Zenon DEF CreateIdentitiesList
<1>3. ASSUME NEW oid \in DOMAIN oids, NEW value \in oids[oid]
      PROVE  value \in CreateIdentitiesList
  <2>1. value \in UNION {oids[o] : o \in DOMAIN oids}
    BY Zenon
  <2> QED  BY <2>1, Zenon DEF CreateIdentitiesList
<1> HIDE DEF CreateIdentitiesList
<1>4. \A oid \in DOMAIN oids : oids[oid] \subseteq CreateIdentitiesList
  BY <1>3, Zenon
<1> QED  BY <1>1, <1>2, <1>4, Zenon

\* The entry that LogEntry makes is a match if its parts are right.
LEMMA EntryIsMatch ==
  ASSUME NEW e, NEW identity \in Names \cup Expressions,
         NEW type \in {"fingerprint", "subject", "certSubject", "extensionValue"},
         NEW value \in Names,
         <<type, identity>> \in Bears(e),
         identity \in CreateIdentitiesList,
         IF type \in {"subject", "certSubject"} THEN value \in Denotes[identity]
         ELSE value = identity
  PROVE  IsMatchOf(LogEntry(identity, type, value), e)
<1> DEFINE m == LogEntry(identity, type, value)
<1>1. m = [MatchedIdentity |-> identity, MatchedIdentityType |-> type, value |-> value,
           Index |-> next]
  BY DEF LogEntry
<1> HIDE DEF m
<1>2. m \in [MatchedIdentity : Names \cup Expressions,
             MatchedIdentityType : {"fingerprint", "subject", "certSubject", "extensionValue"},
             value : Names, Index : {next}]
  BY <1>1
<1>3. Borne(m) \in Bears(e) /\ NamedRightly(m) /\ m.MatchedIdentity \in CreateIdentitiesList
  BY <1>1 DEF Borne, NamedRightly
<1>4. IsMatchOf(m, e)
  BY <1>2, <1>3 DEF IsMatchOf
<1> QED  BY <1>4 DEF m

LEMMA FingerprintMatches ==
  ASSUME NEW e \in Entries,
         NEW m \in MatchLogEntryFingerprints(extractAllIdentities(e).fingerprints)
  PROVE  IsMatchOf(m, e)
<1>1. PICK fp \in extractAllIdentities(e).fingerprints \cap config.fingerprints :
             m = LogEntry(fp, "fingerprint", fp)
  BY DEF MatchLogEntryFingerprints
<1>2. fp \in Names
  BY EntryTypes
<1>3. <<"fingerprint", fp>> \in Bears(e)
  BY Extracted DEF Bears
<1>4. fp \in CreateIdentitiesList
  BY Listed
<1> QED  BY <1>1, <1>2, <1>3, <1>4, EntryIsMatch

LEMMA SubjectMatches ==
  ASSUME config \in Configs, NEW e \in Entries,
         NEW m \in MatchLogEntrySubjects(extractAllIdentities(e).subjects)
  PROVE  IsMatchOf(m, e)
<1>1. PICK x \in config.subjects, name \in extractAllIdentities(e).subjects :
             name \in Denotes[x] /\ m = LogEntry(x, "subject", name)
  <2>1. PICK match \in config.subjects \X extractAllIdentities(e).subjects :
               /\ match[2] \in Denotes[match[1]]
               /\ m = LogEntry(match[1], "subject", match[2])
    BY DEF MatchLogEntrySubjects
  <2>2. match[1] \in config.subjects /\ match[2] \in extractAllIdentities(e).subjects
    OBVIOUS
  <2> QED  BY <2>1, <2>2
<1>2. name \in Names /\ x \in Expressions
  BY EntryTypes, ConfigTypes
<1>3. \E v \in e.verifiers : v.subjects \cap Denotes[x] # {}
  BY <1>1, Extracted
<1>4. <<"subject", x>> \in Bears(e)
  BY <1>3 DEF Bears
<1> QED  BY <1>1, <1>2, <1>4, Listed, EntryIsMatch

LEMMA CertificateMatches ==
  ASSUME config \in Configs, NEW e \in Entries,
         NEW m \in MatchLogEntryCertificateIdentities(extractAllIdentities(e).certs)
  PROVE  IsMatchOf(m, e)
<1>1. PICK id \in config.certIdentities, cert \in Certs(e) :
             /\ CertMatchesPolicy(cert, id)
             /\ m = LogEntry(id.certSubject, "certSubject", MatchedSubject(cert, id.certSubject))
  <2>1. PICK match \in config.certIdentities \X extractAllIdentities(e).certs :
               /\ CertMatchesPolicy(match[2], match[1])
               /\ m = LogEntry(match[1].certSubject, "certSubject",
                               MatchedSubject(match[2], match[1].certSubject))
    BY DEF MatchLogEntryCertificateIdentities
  <2>2. match[1] \in config.certIdentities /\ match[2] \in Certs(e)
    BY Extracted
  <2> QED  BY <2>1, <2>2
<1>2. /\ Answers(cert, id)
      /\ MatchedSubject(cert, id.certSubject) \in Names \cap Denotes[id.certSubject]
  BY <1>1, EntryTypes, PolicySound
<1>3. id.certSubject \in Expressions
  BY ConfigTypes
<1>4. <<"certSubject", id.certSubject>> \in Bears(e)
  BY <1>2 DEF Answers, Bears
<1> QED  BY <1>1, <1>2, <1>3, <1>4, Listed, EntryIsMatch

LEMMA ExtensionMatches ==
  ASSUME config \in Configs, oids = RenderOIDMatchers(config),
         NEW e \in Entries, NEW m \in OIDMatches(e)
  PROVE  IsMatchOf(m, e)
<1>1. PICK oid \in DOMAIN oids, cert \in Certs(e) :
             /\ OIDMatchesPolicy(cert, oid)
             /\ m = LogEntry(getExtension(cert, oid), "extensionValue", getExtension(cert, oid))
  <2>1. PICK match \in (DOMAIN oids) \X extractAllIdentities(e).certs :
               /\ OIDMatchesPolicy(match[2], match[1])
               /\ m = LogEntry(getExtension(match[2], match[1]), "extensionValue",
                               getExtension(match[2], match[1]))
    BY DEF OIDMatches, MatchLogEntryOIDs
  <2>2. match[1] \in DOMAIN oids /\ match[2] \in Certs(e)
    BY Extracted
  <2> QED  BY <2>1, <2>2
<1> DEFINE value == getExtension(cert, oid)
<1>2. value \in oids[oid] /\ value \notin {"", Undecodable}
  BY <1>1 DEF OIDMatchesPolicy
<1>3. value \in Names /\ Carries(cert, oid, value)
  BY <1>2, EntryTypes, ExtensionRead
<1>4. <<oid, oids[oid]>> \in Asked(config)
  BY ConfigTypes, RenderedIsAsked
<1>5. \E c \in Certs(e), asked \in Asked(config) :
        value \in asked[2] /\ Carries(c, asked[1], value)
  BY <1>2, <1>3, <1>4
<1> HIDE DEF value
<1>6. <<"extensionValue", value>> \in Bears(e)
  BY <1>3, <1>5 DEF Bears
<1>7. value \in CreateIdentitiesList
  BY <1>2, Listed DEF value
<1>8. m = LogEntry(value, "extensionValue", value)
  BY <1>1 DEF value
<1> QED  BY <1>3, <1>6, <1>7, <1>8, EntryIsMatch DEF value

\* Whatever an entry adds, the entry bears.
LEMMA MatchesAreBorne ==
  ASSUME config \in Configs, oids = RenderOIDMatchers(config),
         NEW e \in Entries, NEW m \in EarlyMatches(e) \cup OIDMatches(e)
  PROVE  IsMatchOf(m, e)
  BY FingerprintMatches, SubjectMatches, CertificateMatches, ExtensionMatches
     DEF EarlyMatches

\* Whatever an entry bears, it adds, if its extensions can be read.
LEMMA BorneIsMatched ==
  ASSUME config \in Configs, oids = RenderOIDMatchers(config), AskedOnce(config),
         NEW e \in Entries, OneIssuer(e), NEW borne \in Bears(e)
  PROVE  \/ \E m \in EarlyMatches(e) : m.Index = next /\ Borne(m) = borne
         \/ /\ borne[1] = "extensionValue"
            /\ \/ OIDsFail(extractAllIdentities(e).certs)
               \/ \E m \in OIDMatches(e) : m.Index = next /\ Borne(m) = borne
<1> DEFINE ids == extractAllIdentities(e)
<1>1. ASSUME NEW identity, NEW type, NEW value
      PROVE  /\ LogEntry(identity, type, value).Index = next
             /\ Borne(LogEntry(identity, type, value)) = <<type, identity>>
  BY DEF LogEntry, Borne
<1>2. ASSUME NEW fp \in config.fingerprints \cap {v.fingerprint : v \in e.verifiers}
      PROVE  LogEntry(fp, "fingerprint", fp) \in EarlyMatches(e)
  BY Extracted DEF MatchLogEntryFingerprints, EarlyMatches
<1>3. ASSUME NEW x \in config.subjects, NEW v \in e.verifiers,
             v.subjects \cap Denotes[x] # {}
      PROVE  \E name : LogEntry(x, "subject", name) \in EarlyMatches(e)
  <2>1. PICK name \in v.subjects : name \in Denotes[x]
    BY <1>3
  <2>2. name \in ids.subjects
    BY Extracted
  <2>3. LogEntry(x, "subject", name) \in MatchLogEntrySubjects(ids.subjects)
    <3>1. <<x, name>> \in {match \in config.subjects \X ids.subjects :
                             match[2] \in Denotes[match[1]]}
      BY <2>1, <2>2
    <3> QED  BY <3>1 DEF MatchLogEntrySubjects
  <2> QED  BY <2>3 DEF EarlyMatches
<1>4. ASSUME NEW id \in config.certIdentities, NEW cert \in Certs(e), Answers(cert, id)
      PROVE  \E name : LogEntry(id.certSubject, "certSubject", name) \in EarlyMatches(e)
  <2>1. CertMatchesPolicy(cert, id)
    BY <1>4, EntryTypes, PolicyComplete DEF OneIssuer
  <2>2. LogEntry(id.certSubject, "certSubject", MatchedSubject(cert, id.certSubject))
          \in MatchLogEntryCertificateIdentities(ids.certs)
    <3>1. <<id, cert>> \in {match \in config.certIdentities \X ids.certs :
                             CertMatchesPolicy(match[2], match[1])}
      BY <2>1, Extracted
    <3> QED  BY <3>1 DEF MatchLogEntryCertificateIdentities
  <2> QED  BY <2>2 DEF EarlyMatches
<1>5. ASSUME NEW value \in Names, NEW cert \in Certs(e), NEW asked \in Asked(config),
             value \in asked[2], Carries(cert, asked[1], value)
      PROVE  \/ OIDsFail(ids.certs)
             \/ LogEntry(value, "extensionValue", value) \in OIDMatches(e)
  <2>1. asked[1] \in DOMAIN oids /\ oids[asked[1]] = asked[2]
    BY <1>5, ConfigTypes, AskedIsRendered
  <2>2. CASE getExtension(cert, asked[1]) = Undecodable
    BY <2>1, <2>2, Extracted DEF OIDsFail
  <2>3. CASE getExtension(cert, asked[1]) = value
    <3>1. OIDMatchesPolicy(cert, asked[1])
      BY <1>5, <2>1, <2>3, MatchingAssumption DEF OIDMatchesPolicy
    <3>2. <<asked[1], cert>> \in {match \in (DOMAIN oids) \X ids.certs :
                                    OIDMatchesPolicy(match[2], match[1])}
      BY <2>1, <3>1, Extracted
    <3>3. LogEntry(getExtension(cert, asked[1]), "extensionValue", getExtension(cert, asked[1]))
            \in OIDMatches(e)
      BY <3>2 DEF OIDMatches, MatchLogEntryOIDs
    <3> QED  BY <2>3, <3>3
  <2> QED  BY <1>5, <2>2, <2>3, ExtensionCarried
<1>6. \/ \E fp \in config.fingerprints \cap {v.fingerprint : v \in e.verifiers} :
             borne = <<"fingerprint", fp>>
      \/ \E x \in config.subjects : \E v \in e.verifiers :
             v.subjects \cap Denotes[x] # {} /\ borne = <<"subject", x>>
      \/ \E id \in config.certIdentities : \E cert \in Certs(e) :
             Answers(cert, id) /\ borne = <<"certSubject", id.certSubject>>
      \/ \E value \in Names : \E cert \in Certs(e), asked \in Asked(config) :
             /\ value \in asked[2] /\ Carries(cert, asked[1], value)
             /\ borne = <<"extensionValue", value>>
  BY DEF Bears, Answers
<1> HIDE DEF ids
<1>7. CASE \E fp \in config.fingerprints \cap {v.fingerprint : v \in e.verifiers} :
             borne = <<"fingerprint", fp>>
  BY <1>1, <1>2, <1>7
<1>8. CASE \E x \in config.subjects : \E v \in e.verifiers :
             v.subjects \cap Denotes[x] # {} /\ borne = <<"subject", x>>
  BY <1>1, <1>3, <1>8
<1>9. CASE \E id \in config.certIdentities : \E cert \in Certs(e) :
             Answers(cert, id) /\ borne = <<"certSubject", id.certSubject>>
  BY <1>1, <1>4, <1>9
<1>10. CASE \E value \in Names : \E cert \in Certs(e), asked \in Asked(config) :
             /\ value \in asked[2] /\ Carries(cert, asked[1], value)
             /\ borne = <<"extensionValue", value>>
  BY <1>1, <1>5, <1>10 DEF ids
<1> QED  BY <1>6, <1>7, <1>8, <1>9, <1>10

-----------------------------------------------------------------------------
(* The invariant: each entry scanned so far is dealt with.                 *)

TypeInv ==
  /\ pc \in {"load", "verify", "scan", "reported", "exited", "failed"}
  /\ config \in Configs
  /\ batch \in [1..BatchSize -> Entries]
  /\ next \in 1..BatchSize + 1
  /\ failed \subseteq 1..next - 1
  /\ matched \subseteq LogEntries
  /\ \A m \in matched : m.Index < next

\* The matchers are rendered before anything is matched.
RenderedInv ==
  /\ pc \in {"verify", "scan", "reported"} => oids = RenderOIDMatchers(config)
  /\ pc = "load" => matched = {}

Justified(m) ==
  /\ Borne(m) \in Bears(batch[m.Index])
  /\ Trusted(batch[m.Index])
  /\ NamedRightly(m)

SoundInv ==
  \A m \in matched : Justified(m) /\ m.MatchedIdentity \in CreateIdentitiesList

\* An entry that Complete speaks of.
Promised(e) == Readable(e) /\ Trusted(e) /\ OneIssuer(e)

\* What an entry bears is matched, or is a value of an extension and the entry failed.
Covered(i) ==
  \A borne \in Bears(batch[i]) :
    \/ \E m \in matched : m.Index = i /\ Borne(m) = borne
    \/ borne[1] = "extensionValue" /\ i \in failed

CompleteInv ==
  AskedOnce(config) /\ config.cas # "unreadable" =>
    \A i \in 1..next - 1 : Promised(batch[i]) => Covered(i)

\* All of the batch is reported, and nothing before.
GroupsInv ==
  /\ pc = "reported" => next = BatchSize + 1
  /\ groups = IF pc = "reported"
              THEN CreateMonitoredIdentities(matched, CreateIdentitiesList)
              ELSE <<>>

IInv == TypeInv /\ RenderedInv /\ SoundInv /\ CompleteInv /\ GroupsInv

\* The chain of a trusted entry is accepted, and no other is.
LEMMA ChainOfTrusted ==
  ASSUME NEW e
  PROVE  /\ ValidateCertificateChain(extractAllIdentities(e).certs) => Trusted(e)
         /\ config.cas # "unreadable" /\ Trusted(e) /\ config \in Configs =>
              ValidateCertificateChain(extractAllIdentities(e).certs)
<1>1. config \in Configs => config.cas \in {"none", "readable", "unreadable"}
  BY ConfigTypes DEF Configuration
<1> QED  BY <1>1, Extracted DEF ValidateCertificateChain, Trusted

\* What the scan of an entry does, in one of its two ways.
LEMMA EntryScannedAdds ==
  ASSUME NEW e, EntryScanned(e)
  PROVE  /\ EarlyMatches(e) \subseteq matched'
         /\ matched \subseteq matched'
         /\ matched' \subseteq matched \cup EarlyMatches(e) \cup OIDMatches(e)
         /\ OIDsFail(extractAllIdentities(e).certs) => failed' = failed \cup {next}
         /\ ~OIDsFail(extractAllIdentities(e).certs) =>
              failed' = failed /\ OIDMatches(e) \subseteq matched'
  BY DEF EntryScanned, EarlyMatches, OIDMatches

\* What the steps of the scan have in common.
ScanStep(e) ==
  /\ Scanning(e)
  /\ next' = next + 1
  /\ UNCHANGED <<pc, config, oids, batch, groups>>

LEMMA ScanSteps ==
  ASSUME NEW e, EntryUnreadable(e) \/ EntryUntrusted(e) \/ EntryScanned(e)
  PROVE  ScanStep(e)
  BY DEF EntryUnreadable, EntryUntrusted, EntryScanned, ScanStep

LEMMA TypeInductive ==
  ASSUME IInv, [Next]_vars
  PROVE  TypeInv'
<1> USE DEF IInv, TypeInv
<1>1. CASE Load \/ LoadFails \/ Verify \/ Report \/ Done \/ UNCHANGED vars
  BY <1>1 DEF Load, LoadFails, Verify, Report, Done, vars
<1>2. ASSUME NEW e \in Entries, EntryUnreadable(e) \/ EntryUntrusted(e) \/ EntryScanned(e)
      PROVE  TypeInv'
  <2>1. /\ next \in 1..BatchSize /\ next' = next + 1
        /\ UNCHANGED <<pc, config, batch>>
    BY <1>2, ScanSteps DEF ScanStep, Scanning
  <2>2. BatchSize \in Nat
    BY MatchingAssumption
  <2>3. failed' \subseteq failed \cup {next}
    BY <1>2, EntryScannedAdds DEF EntryUnreadable, EntryUntrusted
  <2>4. ASSUME NEW m \in matched'
        PROVE  m \in LogEntries /\ m.Index < next'
    <3>1. CASE m \in matched
      <4>1. m \in LogEntries /\ m.Index < next
        BY <3>1
      <4>2. m.Index \in Int
        BY <2>2, <4>1 DEF LogEntries
      <4> QED  BY <2>1, <4>1, <4>2
    <3>2. CASE m \notin matched
      <4>1. EntryScanned(e) /\ m \in EarlyMatches(e) \cup OIDMatches(e)
        BY <1>2, <3>2, EntryScannedAdds DEF EntryUnreadable, EntryUntrusted
      <4>2. oids = RenderOIDMatchers(config)
        BY <4>1 DEF EntryScanned, Scanning, RenderedInv
      <4>3. IsMatchOf(m, e)
        BY <4>1, <4>2, MatchesAreBorne
      <4> QED  BY <2>1, <2>2, <4>3 DEF IsMatchOf, LogEntries
    <3> QED  BY <3>1, <3>2
  <2>5. failed' \subseteq 1..next' - 1 /\ next' \in 1..BatchSize + 1
    BY <2>1, <2>2, <2>3
  <2> QED  BY <2>1, <2>4, <2>5
<1> QED  BY <1>1, <1>2 DEF Next

LEMMA SoundInductive ==
  ASSUME IInv, [Next]_vars
  PROVE  RenderedInv' /\ SoundInv'
<1> USE DEF IInv
<1>1. CASE Load
  <2>1. matched' = {} /\ pc' = "verify" /\ config' = config
        /\ oids' = RenderOIDMatchers(config)
    BY <1>1 DEF Load, RenderedInv
  <2> QED  BY <2>1 DEF RenderedInv, SoundInv
<1>2. CASE LoadFails \/ Verify \/ Report \/ Done \/ UNCHANGED vars
  <2>1. /\ UNCHANGED <<config, oids, batch, matched>>
        /\ pc' = "load" => pc = "load"
        /\ pc' \in {"verify", "scan", "reported"} => pc \in {"verify", "scan", "reported"}
    BY <1>2 DEF LoadFails, Verify, Report, Done, vars, TypeInv
  <2>2. RenderedInv'
    BY <2>1 DEF RenderedInv
  <2>3. CreateIdentitiesList' = CreateIdentitiesList
    BY <2>1 DEF CreateIdentitiesList
  <2>4. \A m \in matched : Justified(m)' <=> Justified(m)
    BY <2>1 DEF Justified, Bears, Trusted
  <2> QED  BY <2>1, <2>2, <2>3, <2>4 DEF SoundInv
<1>3. ASSUME NEW e \in Entries, EntryUnreadable(e) \/ EntryUntrusted(e) \/ EntryScanned(e)
      PROVE  RenderedInv' /\ SoundInv'
  <2>1. pc = "scan" /\ e = batch[next] /\ UNCHANGED <<pc, config, oids, batch>>
    BY <1>3, ScanSteps DEF ScanStep, Scanning
  <2>2. RenderedInv'
    BY <2>1 DEF RenderedInv
  <2>3. CreateIdentitiesList' = CreateIdentitiesList
    BY <2>1 DEF CreateIdentitiesList
  <2>4. \A m : Justified(m)' <=> Justified(m)
    BY <2>1 DEF Justified, Bears, Trusted
  <2>5. ASSUME NEW m \in matched', m \notin matched
        PROVE  Justified(m) /\ m.MatchedIdentity \in CreateIdentitiesList
    <3>1. EntryScanned(e) /\ m \in EarlyMatches(e) \cup OIDMatches(e)
      BY <1>3, <2>5, EntryScannedAdds DEF EntryUnreadable, EntryUntrusted
    <3>2. IsMatchOf(m, e)
      BY <2>1, <3>1, MatchesAreBorne DEF RenderedInv, TypeInv
    <3>3. Trusted(e)
      BY <3>1, ChainOfTrusted DEF EntryScanned
    <3>4. m.Index = next
      BY <3>2 DEF IsMatchOf
    <3> QED  BY <2>1, <3>2, <3>3, <3>4 DEF IsMatchOf, Justified
  <2> QED  BY <2>2, <2>3, <2>4, <2>5 DEF SoundInv
<1> QED  BY <1>1, <1>2, <1>3 DEF Next

LEMMA CompleteInductive ==
  ASSUME IInv, [Next]_vars
  PROVE  CompleteInv'
<1> USE DEF IInv
<1>1. CASE Load \/ LoadFails \/ Verify \/ Report \/ Done \/ UNCHANGED vars
  <2>1. UNCHANGED <<config, batch, next, matched, failed>>
    BY <1>1 DEF Load, LoadFails, Verify, Report, Done, vars
  <2>2. \A i : Promised(batch[i])' <=> Promised(batch[i])
    BY <2>1 DEF Promised, Trusted
  <2>3. \A i : Bears(batch[i])' = Bears(batch[i])
    BY <2>1 DEF Bears
  <2>4. \A i : Covered(i)' <=> Covered(i)
    BY <2>1, <2>3 DEF Covered
  <2>5. AskedOnce(config)' <=> AskedOnce(config)
    BY <2>1
  <2> QED  BY <2>1, <2>2, <2>4, <2>5 DEF CompleteInv
<1>2. ASSUME NEW e \in Entries, EntryUnreadable(e) \/ EntryUntrusted(e) \/ EntryScanned(e),
             AskedOnce(config), config.cas # "unreadable",
             NEW i \in 1..next, Promised(batch[i])
      PROVE  Covered(i)'
  <2>1. /\ pc = "scan" /\ e = batch[next] /\ UNCHANGED <<config, batch>>
        /\ next \in 1..BatchSize /\ BatchSize \in Nat
    BY <1>2, ScanSteps, MatchingAssumption DEF ScanStep, Scanning, TypeInv
  <2>2. matched \subseteq matched' /\ failed \subseteq failed'
    BY <1>2, EntryScannedAdds DEF EntryUnreadable, EntryUntrusted
  <2>3. Bears(batch[i])' = Bears(batch[i])
    BY <2>1 DEF Bears
  <2>4. CASE i # next
    <3>1. i \in 1..next - 1
      BY <2>1, <2>4
    <3>2. Covered(i)
      BY <1>2, <3>1 DEF CompleteInv
    <3> QED  BY <2>2, <2>3, <3>2 DEF Covered
  <2>5. CASE i = next
    <3>1. EntryScanned(e)
      <4>1. Readable(e) /\ Trusted(e)
        BY <1>2, <2>1, <2>5 DEF Promised
      <4>2. ValidateCertificateChain(extractAllIdentities(e).certs)
        BY <1>2, <4>1, ChainOfTrusted DEF TypeInv
      <4> QED  BY <1>2, <4>1, <4>2 DEF EntryUnreadable, EntryUntrusted
    <3>2. ASSUME NEW borne \in Bears(e)
          PROVE  \/ \E m \in matched' : m.Index = next /\ Borne(m) = borne
                 \/ borne[1] = "extensionValue" /\ next \in failed'
      <4>1. OneIssuer(e) /\ oids = RenderOIDMatchers(config) /\ config \in Configs
        BY <1>2, <2>1, <2>5 DEF Promised, RenderedInv, TypeInv
      <4>2. \/ \E m \in EarlyMatches(e) : m.Index = next /\ Borne(m) = borne
            \/ /\ borne[1] = "extensionValue"
               /\ \/ OIDsFail(extractAllIdentities(e).certs)
                  \/ \E m \in OIDMatches(e) : m.Index = next /\ Borne(m) = borne
        BY <1>2, <4>1, BorneIsMatched
      <4> QED  BY <3>1, <4>2, EntryScannedAdds
    <3> QED  BY <2>1, <2>3, <2>5, <3>2 DEF Covered
  <2> QED  BY <2>4, <2>5
<1>3. ASSUME NEW e \in Entries, EntryUnreadable(e) \/ EntryUntrusted(e) \/ EntryScanned(e)
      PROVE  CompleteInv'
  <2>1. /\ next' - 1 = next /\ UNCHANGED <<config, batch>>
    BY <1>3, ScanSteps DEF ScanStep, TypeInv
  <2>2. ASSUME AskedOnce(config), config.cas # "unreadable",
               NEW i \in 1..next, Promised(batch[i])'
        PROVE  Covered(i)'
    <3>1. Promised(batch[i])
      BY <2>1, <2>2 DEF Promised, Trusted
    <3> QED  BY <1>2, <1>3, <2>2, <3>1
  <2> QED  BY <2>1, <2>2 DEF CompleteInv
<1> QED  BY <1>1, <1>3 DEF Next

LEMMA GroupsInductive ==
  ASSUME IInv, [Next]_vars
  PROVE  GroupsInv'
<1> USE DEF IInv
<1>1. CASE Load \/ LoadFails \/ Verify
  <2>1. pc # "reported" /\ pc' # "reported" /\ groups' = groups
    BY <1>1 DEF Load, LoadFails, Verify
  <2> QED  BY <2>1 DEF GroupsInv
<1>2. CASE Report
  <2>1. /\ pc' = "reported" /\ UNCHANGED <<config, oids, matched, next>>
        /\ groups' = CreateMonitoredIdentities(matched, CreateIdentitiesList)
    BY <1>2 DEF Report
  <2>2. CreateIdentitiesList' = CreateIdentitiesList
    BY <2>1 DEF CreateIdentitiesList
  <2>3. next = BatchSize + 1
    <3>1. next \notin 1..BatchSize /\ next \in 1..BatchSize + 1 /\ BatchSize \in Nat
      BY <1>2, MatchingAssumption DEF Report, TypeInv
    <3> QED  BY <3>1
  <2> QED  BY <2>1, <2>2, <2>3 DEF GroupsInv
<1>3. CASE Done \/ UNCHANGED vars
  BY <1>3 DEF Done, vars, GroupsInv, CreateIdentitiesList
<1>4. ASSUME NEW e \in Entries, EntryUnreadable(e) \/ EntryUntrusted(e) \/ EntryScanned(e)
      PROVE  GroupsInv'
  <2>1. pc = "scan" /\ pc' = pc /\ groups' = groups
    BY <1>4, ScanSteps DEF ScanStep, Scanning
  <2> QED  BY <2>1 DEF GroupsInv
<1> QED  BY <1>1, <1>2, <1>3, <1>4 DEF Next

LEMMA InvInit == Init => IInv
<1>1. Init => TypeInv
  <2>1. BatchSize \in Nat
    BY MatchingAssumption
  <2> QED  BY <2>1 DEF Init, TypeInv
<1>2. Init => RenderedInv /\ SoundInv /\ GroupsInv
  BY DEF Init, RenderedInv, SoundInv, GroupsInv
<1>3. Init => CompleteInv
  BY DEF Init, CompleteInv
<1> QED  BY <1>1, <1>2, <1>3 DEF IInv

LEMMA InvAlways == Spec => []IInv
<1>1. IInv /\ [Next]_vars => IInv'
  BY TypeInductive, SoundInductive, CompleteInductive, GroupsInductive DEF IInv
<1> QED  BY InvInit, <1>1, PTL DEF Spec

-----------------------------------------------------------------------------
(* What is notified.                                                       *)

\* The groups of the report are what was matched, by the names they are listed under.
LEMMA GroupsAre ==
  ASSUME IInv
  PROVE  /\ \A value \in DOMAIN groups : \A m \in groups[value] :
              m \in matched /\ m.value = value
         /\ pc = "reported" =>
              \A m \in matched :
                m.value \in DOMAIN groups /\ m \in groups[m.value]
<1> DEFINE known == {m \in matched : m.MatchedIdentity \in CreateIdentitiesList}
<1>1. CASE pc = "reported"
  <2>1. groups = [value \in {m.value : m \in known} |-> {m \in known : m.value = value}]
    BY <1>1 DEF IInv, GroupsInv, CreateMonitoredIdentities
  <2>2. known = matched
    BY DEF IInv, SoundInv
  <2>3. DOMAIN groups = {m.value : m \in known}
    BY <2>1
  <2> HIDE DEF known
  <2>4. \A value \in DOMAIN groups : groups[value] = {m \in matched : m.value = value}
    BY <2>1, <2>2
  <2>5. \A m \in matched : m.value \in DOMAIN groups
    BY <2>2, <2>3
  <2> QED  BY <2>4, <2>5
<1>2. CASE pc # "reported"
  <2>1. groups = <<>>
    BY <1>2 DEF IInv, GroupsInv
  <2>2. DOMAIN groups = {}
    BY <2>1
  <2> QED  BY <1>2, <2>2
<1> QED  BY <1>1, <1>2

\* Every variable always has its type, and only entries already scanned are matched
\* or failed (MatchedIndices).
THEOREM TypeCorrect == Spec => []TypeOK
<1>1. IInv => TypeOK
  <2> SUFFICES ASSUME IInv PROVE TypeOK
    OBVIOUS
  <2>1. \A value \in DOMAIN groups : groups[value] \subseteq LogEntries
    BY GroupsAre DEF IInv, TypeInv
  <2> QED  BY <2>1 DEF IInv, TypeInv, TypeOK
<1> QED  BY InvAlways, <1>1, PTL

\* Nothing is notified that the configuration does not ask for and the entry bear,
\* whatever the configuration, the certificates and their extensions
\* (MatchedIndices, CertMatchesPolicy, OIDMatchesPolicy, CreateMonitoredIdentities).
THEOREM NothingElseIsNotified == Spec => []Sound
<1>1. IInv => Sound
  <2> SUFFICES ASSUME IInv, NEW value \in DOMAIN groups, NEW m \in groups[value]
               PROVE  /\ Borne(m) \in Bears(batch[m.Index])
                      /\ Trusted(batch[m.Index])
                      /\ IF m.MatchedIdentityType \in {"subject", "certSubject"}
                         THEN value \in Denotes[m.MatchedIdentity]
                         ELSE value = m.MatchedIdentity
    BY DEF Sound, Borne
  <2>1. m \in matched /\ m.value = value
    BY GroupsAre
  <2>2. Justified(m)
    BY <2>1 DEF IInv, SoundInv
  <2> QED  BY <2>1, <2>2 DEF Justified, NamedRightly
<1> QED  BY InvAlways, <1>1, PTL

\* Nothing that is asked for once is missed in an entry that can be read and that a
\* trusted CA vouches for, but the extensions of an entry reported as failed
\* (RenderOIDMatchers, MatchedIndices, CreateIdentitiesList,
\* CreateMonitoredIdentities).
THEOREM NothingIsMissed == Spec => []Complete
<1>1. IInv => Complete
  <2> SUFFICES ASSUME IInv, pc = "reported", AskedOnce(config), config.cas # "unreadable",
                      NEW i \in DOMAIN batch, Promised(batch[i]),
                      NEW borne \in Bears(batch[i])
               PROVE  borne \in Notified(i) \/ (borne[1] = "extensionValue" /\ i \in failed)
    BY DEF Complete, Promised
  <2>1. i \in 1..next - 1
    <3>1. next = BatchSize + 1 /\ i \in 1..BatchSize /\ BatchSize \in Nat
      BY MatchingAssumption DEF IInv, GroupsInv, TypeInv
    <3> QED  BY <3>1
  <2>2. Covered(i)
    BY <2>1 DEF IInv, CompleteInv
  <2>3. ASSUME NEW m \in matched, m.Index = i, Borne(m) = borne
        PROVE  borne \in Notified(i)
    <3>1. m.value \in DOMAIN groups /\ m \in groups[m.value]
      BY GroupsAre
    <3>2. m \in UNION {groups[v] : v \in DOMAIN groups}
      BY <3>1
    <3> QED  BY <2>3, <3>2 DEF Notified, Borne
  <2> QED  BY <2>2, <2>3 DEF Covered
<1> QED  BY InvAlways, <1>1, PTL

=============================================================================
