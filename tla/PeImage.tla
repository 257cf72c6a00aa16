------------------------------- MODULE PeImage -------------------------------
(***************************************************************************)
(* The validation of a PE32+ image before any of it is mapped              *)
(* (userland/winbridge/src/pe.rs): the headers, then one section header    *)
(* after the other, then the layout of all of them.  Header fields are     *)
(* words of Width bits; offsets are summed in a word twice as wide.        *)
(***************************************************************************)
EXTENDS Integers, Sequences

CONSTANTS
    Width,          \* bits of a header field (32 in the code)
    PageSize,       \* of the hardware's pages (4096)
    Alignments,     \* bound: what the alignment fields hold
    Images, Files,  \* bound: sizes of the image, and of the file
    Fields,         \* bound: offsets and sizes of a section
    MaxSections     \* 96 in the code

PeAssumption ==
    /\ Width \in Nat /\ MaxSections \in Nat /\ PageSize \in Nat \ {0}
    /\ Alignments \cup Images \cup Files \cup Fields \subseteq Nat
    /\ \A k \in 0 .. Width - 1 : 2 ^ k \in Nat \ {0}

VARIABLES header, count, sections, hadWx, verdict

peVars == <<header, count, sections, hadWx, verdict>>

PowerOfTwo(n) == \E k \in 0 .. Width - 1 : n = 2 ^ k
Bigger(a, b) == IF a >= b THEN a ELSE b
AlignDown(v, align) == v - (v % align)
AlignUp(v, align) == AlignDown((v + align) - 1, align)

\* What the loader reads before the section headers; `marks` is whether the magic
\* numbers, the machine, the sizes of the headers and their place in the file are
\* what it accepts.
Headers ==
    [marks : BOOLEAN, sectionAlign : Alignments, fileAlign : Alignments,
     image : Images, heads : Images, entry : Images, file : Files]
SectionHeaders ==
    [va : Fields, vsize : Fields, rawSize : Fields, raw : Fields, wx : BOOLEAN]

Extent(s) == Bigger(s.vsize, s.rawSize)

ImageInit == /\ header \in Headers /\ count \in 0 .. MaxSections + 1
             /\ sections = <<>> /\ hadWx = FALSE /\ verdict = "headers"

ParseHeaders ==
    /\ verdict = "headers"
    /\ verdict' = IF /\ header.marks /\ count <= MaxSections
                     /\ PowerOfTwo(header.sectionAlign) /\ PowerOfTwo(header.fileAlign)
                     /\ header.sectionAlign >= header.fileAlign
                     /\ header.entry < header.image
                  THEN "sections" ELSE "refused"
    /\ UNCHANGED <<header, count, sections, hadWx>>

\* Mutation of ValidateSection: the sums wrap around in a header field's width.
ValidateSection_Wraps(s) ==
    /\ (s.raw + s.rawSize) % 2 ^ Width <= header.file
    /\ (s.va + Extent(s)) % 2 ^ Width <= header.image
    /\ s.va >= header.heads

ValidateSection(s) ==
    /\ s.raw + s.rawSize <= header.file
    /\ s.va + Extent(s) <= header.image
    /\ s.va >= header.heads

\* The next section header; one that ends outside the file is a truncated header.
ReadSection(s) ==
    /\ verdict = "sections" /\ Len(sections) < count
    /\ IF ValidateSection(s)
       THEN sections' = Append(sections, s) /\ hadWx' = (hadWx \/ s.wx) /\ UNCHANGED verdict
       ELSE verdict' = "refused" /\ UNCHANGED <<sections, hadWx>>
    /\ UNCHANGED <<header, count>>
TruncatedSection ==
    /\ verdict = "sections" /\ Len(sections) < count /\ verdict' = "refused"
    /\ UNCHANGED <<header, count, sections, hadWx>>

Start(s) == AlignDown(s.va, header.sectionAlign)
End(s) == AlignUp(s.va + Extent(s), header.sectionAlign)

Overlap(a, b) == Start(a) < End(b) /\ Start(b) < End(a)

CheckNoOverlap ==
    /\ verdict = "sections" /\ Len(sections) = count
    /\ verdict' = IF \E i, j \in 1 .. count : i < j /\ Overlap(sections[i], sections[j])
                  THEN "refused" ELSE "accepted"
    /\ UNCHANGED <<header, count, sections, hadWx>>

ImageNext == \/ ParseHeaders \/ TruncatedSection \/ CheckNoOverlap
             \/ \E s \in SectionHeaders : ReadSection(s)
ImageSpec == ImageInit /\ [][ImageNext]_peVars

-----------------------------------------------------------------------------
(* Properties *)

\* The hardware's pages that a section's bytes are in.
Pages(s) == {(s.va + k) \div PageSize : k \in 0 .. Extent(s) - 1}

\* "Two sections claiming the same pages with different protections ... we reject
\* it" (pe.rs:323-326): an accepted image whose sections are aligned to pages maps
\* no page twice.  An image of a smaller alignment is accepted as well
\* (pe.rs:232-237), and of its pages nothing is said.  Nothing is copied from
\* outside the file or to outside the image, whatever the sums of its fields come
\* to; a section that asks for write and execute is on record (pe.rs:270-322).
PagesMappedOnce ==
    verdict = "accepted" =>
        /\ header.sectionAlign % PageSize = 0 =>
               \A i, j \in 1 .. count :
                   i # j => Pages(sections[i]) \cap Pages(sections[j]) = {}
        /\ \A i \in 1 .. count : \A k \in 0 .. sections[i].rawSize - 1 :
               sections[i].raw + k < header.file /\ sections[i].va + k < header.image
        /\ hadWx = (\E i \in 1 .. count : sections[i].wx)
=============================================================================
