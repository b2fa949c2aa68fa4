------------------------------- MODULE Triage -------------------------------
(***************************************************************************)
(* From what a scanner prints to what a report says and what a monitor     *)
(* compares (crates/orchestrator/src/triage.rs, actionable_keys in         *)
(* runner.rs).  The scanner emits findings one at a time, in no particular *)
(* order: out is its output so far.  A finding is its rule, the matcher    *)
(* that fired, the scanner's severity, the scanner's own title and its     *)
(* evidence: the pieces that ", " separates, none for None.  Guidance      *)
(* texts are left out.                                                     *)
(***************************************************************************)
EXTENDS Changes, Sequences, Functions

CONSTANTS
    Findings,    \* the findings this scanner can print
    Titles,      \* every title, in alphabetical order
    MaxOut       \* bound on the length of the output

VARIABLE out

\* Severity and Priority, with their derived order.
Info == 0
Low == 1
Medium == 2
High == 3
Critical == 4

NoPriority == 0
Urgent == 4

Act(p)    == [disposition |-> "act", priority |-> p]
Review(p) == [disposition |-> "review", priority |-> p]
Inventory == [disposition |-> "inventory", priority |-> NoPriority]

InventoryRules == {"waf-detect", "dns-waf-detect", "tech-detect", "robots-txt", "security-txt",
                   "google-floc-disabled", "form-detection", "dnssec-detection", "caa-fingerprint",
                   "aaaa-fingerprint", "txt-fingerprint", "mx-fingerprint", "nameserver-fingerprint",
                   "spf-record-detect", "dmarc-detect"}

TransportRules == {"tls-version", "ssl-issuer", "ssl-dns-names", "wildcard-tls"}

CdnDebugRules == {"fastly-debug-headers", "x-debug-headers"}

\* classify, the arms of http-missing-security-headers.
ClassifyHeader(matcher) ==
    CASE matcher = "content-security-policy" -> Act(High)
      [] matcher = "x-frame-options"         -> Act(Medium)
      [] matcher = "x-content-type-options"  -> Act(Low)
      [] OTHER                               -> Review(Low)

\* classify, the arms of tls-certificate-expiry.
ClassifyExpiry(matcher) ==
    CASE matcher \in {"expired", "critical"} -> Act(Urgent)
      [] matcher = "soon"                    -> Act(High)
      [] matcher = "approaching"             -> Review(Medium)
      [] OTHER                               -> Inventory

\* classify, a rule that is not in the table: by the scanner's severity.
ClassifyUnknown(severity) ==
    CASE severity = Critical         -> Act(Urgent)
      [] severity \in {Medium, High} -> Act(severity)
      [] severity = Low              -> Review(Low)
      [] severity = Info             -> Inventory

\* classify: the rules table.
Classify(f) ==
    CASE f.template = "http-missing-security-headers"     -> ClassifyHeader(f.matcher)
      [] f.template = "weak-hsts-detect"                  -> Act(Medium)
      [] f.template \in CdnDebugRules                     -> Act(Low)
      [] f.template \in TransportRules                    -> IF f.severity >= Medium THEN Act(High) ELSE Inventory
      [] f.template = "tls-certificate-expiry"            -> ClassifyExpiry(f.matcher)
      [] f.template \in {"tls-certificate-name-mismatch",
                         "tls-certificate-self-signed"}   -> Act(Urgent)
      [] f.template \in {"email-extractor",
                         "robots-txt-endpoint"}           -> Review(Low)
      [] f.template \in InventoryRules                    -> Inventory
      [] OTHER                                            -> ClassifyUnknown(f.severity)

\* inventory_title and display_title, where several rules share a title or one
\* rule has several.  A rule with one title of its own has it as its name, and a
\* rule the tables do not list keeps the scanner's title.
InventoryTitle(f) ==
    CASE f.template \in {"waf-detect", "dns-waf-detect"} -> "Web application firewall"
      [] f.template = "tls-version"                      -> "TLS protocol versions"
      [] OTHER                                           -> f.name

DisplayTitle(f) ==
    CASE Classify(f).disposition = "inventory" -> InventoryTitle(f)
      [] f.template \in CdnDebugRules          -> "CDN debug headers exposed in responses"
      [] f.template = "tls-version"            -> "Obsolete TLS version accepted"
      [] f.template = "http-missing-security-headers" /\ f.matcher # "" -> f.matcher
      [] OTHER                                 -> f.name

\* triage: one finding as one row.
Triaged(f) == [title |-> DisplayTitle(f), priority |-> Classify(f).priority,
               template |-> f.template, evidence |-> f.evidence, occurrences |-> 1]

\* A finding is parsed into these fields, and every title is in the alphabet.
ASSUME FindingsAssumption ==
    Findings \subseteq [template : STRING, matcher : STRING, severity : Info .. Critical,
                       name : STRING, evidence : Seq(STRING)]
ASSUME TitlesAssumption ==
    Titles \in Seq(STRING) /\ \A f \in Findings : \E i \in DOMAIN Titles : Titles[i] = DisplayTitle(f)
-----------------------------------------------------------------------------
\* A plausible bug: the row keeps the first finding's priority.
FoldQuiet(rows, row) ==
    IF \E i \in DOMAIN rows : rows[i].title = row.title
    THEN [i \in DOMAIN rows |-> IF rows[i].title = row.title
                                THEN [rows[i] EXCEPT !.occurrences = @ + 1] ELSE rows[i]]
    ELSE Append(rows, row)

\* collapse_duplicates, the evidence: what is one piece and already there adds
\* nothing, anything else is put at the end, with the pieces it repeats.
AddEvidence(current, new) ==
    IF Len(new) = 1 /\ new[1] \in Range(current) THEN current ELSE current \o new

\* An existing row and one more finding under its title.
Joined(row, new) ==
    [row EXCEPT !.occurrences = @ + 1,
                !.evidence = AddEvidence(@, new.evidence),
                !.priority = IF new.priority > @ THEN new.priority ELSE @]

\* collapse_duplicates, one round of its loop: the row whose title is already
\* there is folded into that one, which keeps its rule and the higher priority.
Fold(rows, row) ==
    IF \E i \in DOMAIN rows : rows[i].title = row.title
    THEN [i \in DOMAIN rows |-> IF rows[i].title = row.title
                                THEN Joined(rows[i], row) ELSE rows[i]]
    ELSE Append(rows, row)

\* The findings of one disposition, in the order printed, as the rows of its bucket.
Collapse(fs, disposition) ==
    LET rows[n \in 0 .. Len(fs)] ==
            IF n = 0 THEN << >>
            ELSE IF Classify(fs[n]).disposition = disposition
                 THEN Fold(rows[n - 1], Triaged(fs[n]))
                 ELSE rows[n - 1]
    IN  rows[Len(fs)]

TitleRank(title) == CHOOSE i \in DOMAIN Titles : Titles[i] = title

\* A plausible bug: the report keeps the scanner's order.
BeforeByPriority(a, b) == a.priority > b.priority

\* The order of a bucket: by priority, highest first, then by title.
Before(a, b) ==
    \/ a.priority > b.priority
    \/ a.priority = b.priority /\ TitleRank(a.title) < TitleRank(b.title)

\* sort_by, which keeps the order of rows that compare equal: the place of a row
\* is the number of rows that come before it, plus one.
Place(rows, i) ==
    1 + Cardinality({j \in DOMAIN rows : \/ Before(rows[j], rows[i])
                                         \/ ~Before(rows[i], rows[j]) /\ j < i})

Sorted(rows) == [k \in DOMAIN rows |-> rows[CHOOSE i \in DOMAIN rows : Place(rows, i) = k]]

\* triage_scan, one bucket.
Bucket(fs, disposition) == Sorted(Collapse(fs, disposition))

Dispositions == {"act", "review", "inventory"}

\* actionable_keys: rule and title of the rows to act on.
ActionableKeys(fs) ==
    LET rows == Bucket(fs, "act") IN {<<rows[i].template, rows[i].title>> : i \in DOMAIN rows}
-----------------------------------------------------------------------------
Init == out = << >>

\* The scanner prints one more finding.
Emit(f) ==
    /\ Len(out) < MaxOut
    /\ out' = Append(out, f)

Next == \E f \in Findings : Emit(f)

Spec == Init /\ [][Next]_out
-----------------------------------------------------------------------------
(* Properties of the output, whatever was printed *)

Reorderings(fs) == {[i \in DOMAIN fs |-> fs[p[i]]] : p \in Bijection(DOMAIN fs, DOMAIN fs)}

\* TriagedScan::observations, of one bucket.
Observations(rows) ==
    LET total[n \in 0 .. Len(rows)] == IF n = 0 THEN 0 ELSE total[n - 1] + rows[n].occurrences
    IN  total[Len(rows)]

\* Folding loses no finding: the rows of the three buckets stand for exactly as
\* many findings as the scanner printed (TriagedScan::observations).
NothingLost ==
    Observations(Bucket(out, "act")) + Observations(Bucket(out, "review"))
        + Observations(Bucket(out, "inventory")) = Len(out)

\* A row is never quieter than its loudest finding: every finding to act on is
\* reported under its title with at least its own priority.
LoudestWins ==
    \A i \in DOMAIN out :
        LET bucket == Bucket(out, Classify(out[i]).disposition)
        IN  \E k \in DOMAIN bucket : /\ bucket[k].title = DisplayTitle(out[i])
                                     /\ bucket[k].priority >= Classify(out[i]).priority

\* Folding by title is faithful: no finding is dropped, counted twice or quietened.
FoldKeeps == NothingLost /\ LoudestWins

\* What a report prints of the rows of a bucket, and the same with the evidence of
\* a row taken as a set.
Printed(rows) ==
    [i \in DOMAIN rows |-> <<rows[i].title, rows[i].priority, rows[i].occurrences, rows[i].evidence>>]

Shown(rows) ==
    [i \in DOMAIN rows |-> <<rows[i].title, rows[i].priority, rows[i].occurrences, Range(rows[i].evidence)>>]

\* Which rows a report has, their priorities, their order, how many findings each
\* stands for and what was observed do not depend on the order in which the
\* scanner printed (triage_scan: collapse_duplicates, then sort_by).
ReportOrderStable ==
    \A d \in Dispositions, fs \in Reorderings(out) :
        Shown(Bucket(fs, d)) = Shown(Bucket(out, d))

\* "two runs of the same scan produce byte-identical reports" (triage_scan), also
\* when the scanner prints its findings in another order.
ReportIdentical ==
    \A d \in Dispositions, fs \in Reorderings(out) :
        Printed(Bucket(fs, d)) = Printed(Bucket(out, d))

\* Reference for compare_identities over the keys of two scans: silence means
\* the same keys, and a key that was not there before is announced as news.
ChangeIsNamed ==
    \A n \in 0 .. Len(out) :
        LET before == ActionableKeys(SubSeq(out, 1, n))
            after  == ActionableKeys(SubSeq(out, n + 1, Len(out)))
            change == CompareIdentities(before, after)
        IN  /\ (change = "None") <=> (before = after)
            /\ (change \in {"Appeared", "Worse", "Replaced"}) <=> (after \ before # {})
=============================================================================
