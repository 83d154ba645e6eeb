-------------------------- MODULE AttachmentScan --------------------------
(***************************************************************************)
(* framework/attachment_scanner.py: the risk of one attachment.  A file is  *)
(* what its name claims (kind, double extension), what its first bytes say  *)
(* (magic), and what a look inside would find.                              *)
(***************************************************************************)
EXTENDS Integers

\* kind "document" is .pdf, .docx, .jpg, .png or .txt; .doc is "macro" and, like
\* them, an innocent name for an executable.
Kinds  == {"dangerous", "macro", "archive", "document", "other"}
Magics == {"executable", "ole", "pdf", "zip", "other"}
File == [kind : Kinds, claimsPdf : BOOLEAN, claimsDoc : BOOLEAN, double : BOOLEAN,
         magic : Magics, macros : {"none", "plain", "suspicious"}, active : BOOLEAN,
         locked : BOOLEAN, carriesExecutable : BOOLEAN,
         blocked : BOOLEAN,      \* its hash is on the tenant's blocklist
         virus : BOOLEAN]        \* clamd knows it

Worse(x, y) == IF x >= y THEN x ELSE y
If(c, n)    == IF c THEN n ELSE 0

NameRisk(f) == Worse(If(f.kind = "dangerous", 65), If(f.double, 85))

\* Extension/type mismatch: a "document" that is an executable.
ContentRisk(f) ==
  If(f.magic = "executable", IF f.kind = "document" \/ f.claimsDoc THEN 90 ELSE 80)

MacroRisk(f) ==
  IF f.magic = "ole" \/ f.kind = "macro"
    THEN CASE f.macros = "suspicious" -> 95
           [] f.macros = "plain"      -> 85
           [] OTHER                   -> If(f.magic = "ole", 45)
    ELSE 0

PdfRisk(f) == If((f.magic = "pdf" \/ f.claimsPdf) /\ f.active, 70)

\* An archive is opened only under an archive's name.
ArchiveRisk(f) ==
  If(f.magic = "zip" /\ f.kind = "archive",
     Worse(If(f.locked, 60), If(f.carriesExecutable, 80)))

\* scan_attachment.  A blocklisted hash sets the score, clamd raises it.
Inspected(f) ==
  Worse(Worse(NameRisk(f), ContentRisk(f)),
        Worse(MacroRisk(f), Worse(PdfRisk(f), ArchiveRisk(f))))
ScanRisk(f) == Worse(IF f.blocked THEN 95 ELSE Inspected(f), If(f.virus, 100))

\* persist_detection: the worst of a message's attachments.
AttachmentRisk(files) ==
  IF files = {} THEN 0
  ELSE CHOOSE n \in {ScanRisk(f) : f \in files} : \A f \in files : n >= ScanRisk(f)

=============================================================================
