---------------------------- MODULE ResumeEngine ----------------------------
(***************************************************************************)
(* What services/resume_intelligence_engine.py makes of an extracted       *)
(* resume: the timeline and the gaps of its roles, the trend of the        *)
(* career, the confidence of the extraction and the ATS score.             *)
(*                                                                         *)
(* Years are small numbers up to This, the current one; texts are left     *)
(* out. Confidences are in hundredths, the parts of the score in 220ths of *)
(* a percent, which is exact; where Python rounds a binary float both      *)
(* neighbours of a tie are allowed.                                        *)
(***************************************************************************)
EXTENDS Integers, Sequences, FiniteSets, SequencesExt, FiniteSetsExt

CONSTANTS Years,      \* the years a resume may name
          This,       \* datetime.now().year
          Titles,     \* the kinds of titles, of TITLE_LEVELS
          Named,      \* whether a role names its company: TRUE, FALSE or both
          MaxRoles,
          Facts,      \* what may change besides the roles
          Counts      \* how many skills, or records of a section, there may be

None == -1

VARIABLES roles,    \* _normalize_experience: <<[start, end, current, title, company]>>
          profile   \* the other facts of the canonical resume
vars == <<roles, profile>>

Sections == {"education", "certifications", "projects"}

Size(p, s) == p.whole[s] + p.part[s]

Init ==
  /\ roles = <<>>
  /\ profile = [email |-> FALSE, phone |-> FALSE, name |-> FALSE, location |-> FALSE, summary |-> 0,
                technical |-> 0, soft |-> 0,
                whole |-> [s \in Sections |-> 0], part |-> [s \in Sections |-> 0],
                emails |-> 0, phones |-> 0, studies |-> 0]

(* An end that reads "present" marks the role as current and is none.        *)
AddRole ==
  /\ Len(roles) < MaxRoles
  /\ \E s, e \in Years \cup {None}, c \in BOOLEAN, k \in Named, t \in Titles :
       /\ c => e = None
       /\ roles' = Append(roles, [start |-> s, end |-> e, current |-> c, title |-> t, company |-> k])
  /\ UNCHANGED profile

(* whole, part: records of a section with both, or one, of the fields that   *)
(* count; studies: of education, those that end before they start.           *)
EditProfile ==
  /\ \/ \E f \in Facts \cap {"email", "phone", "name", "location"} : profile' = [profile EXCEPT ![f] = TRUE]
     \/ \E f \in Facts \cap {"technical", "soft"}, n \in Counts : profile' = [profile EXCEPT ![f] = n]
     \/ \E s \in Facts \cap Sections, n \in Counts : profile' = [profile EXCEPT !.whole[s] = n]
     \/ \E s \in Facts \cap Sections, n \in 0..1 : profile' = [profile EXCEPT !.part[s] = n]
     \/ \E n \in Facts \cap {"studies"} : profile' = [profile EXCEPT ![n] = 1]
     \/ \E f \in Facts \cap {"emails", "phones"} : profile' = [profile EXCEPT ![f] = 2]
     \/ "summary" \in Facts /\ profile' = [profile EXCEPT !.summary = 220]
  /\ profile'.studies =< Size(profile', "education")
  /\ UNCHANGED roles

Next == AddRole \/ EditProfile

-----------------------------------------------------------------------------
(* _analyze_employment *)
Known(year) == IF year = None THEN 0 ELSE year
EndOf(r)    == IF r.end = None THEN This ELSE r.end

Late(r)     == IF r.end = None THEN 9999 ELSE r.end

Timeline(rs) ==
  SortSeq(rs, LAMBDA a, b : Known(a.start) > Known(b.start) \/ (Known(a.start) = Known(b.start) /\ Late(a) > Late(b)))

(* The places in the timeline before which a gap is reported.                *)
Gaps(rs) ==
  LET t == Timeline(rs)
  IN  {i \in 2..Len(t) : t[i-1].start # None /\ t[i-1].start - EndOf(t[i]) >= 1}

TotalYears(rs) ==
  FoldLeft(LAMBDA sum, r : IF r.start # None /\ EndOf(r) >= r.start THEN sum + EndOf(r) - r.start ELSE sum, 0, rs)

-----------------------------------------------------------------------------
(* _title_level: the first token of TITLE_LEVELS that is in the title.       *)
TITLE_LEVELS ==
  <<[token |-> "intern", level |-> 1], [token |-> "junior", level |-> 2], [token |-> "associate", level |-> 2],
    [token |-> "engineer", level |-> 3], [token |-> "senior", level |-> 4], [token |-> "lead", level |-> 6],
    [token |-> "manager", level |-> 7]>>

TitleLevel(title) ==
  IF title = {} THEN 0
  ELSE LET named == {i \in DOMAIN TITLE_LEVELS : TITLE_LEVELS[i].token \in title}
       IN  IF named = {} THEN 3 ELSE TITLE_LEVELS[Min(named)].level

(* _analyze_career_progression *)
Chronological(rs) ==
  SortSeq(rs, LAMBDA a, b : Known(a.start) < Known(b.start) \/ (Known(a.start) = Known(b.start) /\ Known(a.end) < Known(b.end)))

Trend(rs) ==
  LET c == Chronological(rs)
      moves == Len(c) - 1
      ups   == Cardinality({i \in 2..Len(c) : TitleLevel(c[i].title) > TitleLevel(c[i-1].title)})
  IN  CASE Len(c) < 2           -> "insufficient_data"
        [] 10 * ups >= 7 * moves -> "strong_upward"
        [] 10 * ups >= 4 * moves -> "steady"
        [] ups > 0               -> "mixed"
        [] OTHER                 -> "flat_or_downward"

-----------------------------------------------------------------------------
AtMost(a, b) == IF a < b THEN a ELSE b
Clamped(x, hi) == IF x < 0 THEN 0 ELSE AtMost(x, hi)

RoundsTo(num, den) ==
  {q \in {num \div den, num \div den + 1} : 2 * den * q - den =< 2 * num /\ 2 * num =< 2 * den * q + den}

Flag(b, n) == IF b THEN n ELSE 0

(* _detect_inconsistencies: numbers of issues, by the field they are about.  *)
Issues(rs, p) ==
  [contact    |-> Flag(p.emails > 1, 1) + Flag(p.phones > 1, 1),
   education  |-> p.studies,
   experience |-> Cardinality({i \in DOMAIN rs : rs[i].start # None /\ rs[i].end # None /\ rs[i].start > rs[i].end})
                    + Flag(Cardinality({i \in DOMAIN rs : rs[i].current}) > 1, 1)]

Penalty(issues) == AtMost(40, 10 * issues)

(* _list_confidence and _record_confidence; filled counts half records.      *)
ListConfidence(n, max) == IF n = 0 THEN {0} ELSE RoundsTo(60 * max + 40 * AtMost(n, max), max)
RecordConfidence(n, filled, target) ==
  IF n = 0 THEN {0} ELSE RoundsTo(35 * filled * target + 30 * n * AtMost(n, target), n * target)

Less(values, penalty) == {IF v > penalty THEN v - penalty ELSE 0 : v \in values}

SectionConfidence(p, s, target) == RecordConfidence(Size(p, s), 2 * p.whole[s] + p.part[s], target)

FilledIn(rs) == Cardinality({i \in DOMAIN rs : rs[i].title # {}}) + Cardinality({i \in DOMAIN rs : rs[i].company})

(* _field_confidence_scores. The penalty for a contact conflict applies only *)
(* where there is no contact.                                                *)
FieldConfidences(rs, p) ==
  [full_name  |-> {IF p.name THEN 100 ELSE 20},
   email      |-> {Flag(p.email, 100)},
   phone      |-> {Flag(p.phone, 100)},
   location   |-> {IF p.location THEN 80 ELSE 30},
   summary    |-> RoundsTo(100 * AtMost(p.summary, 220), 220),
   technical_skills |-> ListConfidence(p.technical, 16),
   soft_skills      |-> ListConfidence(p.soft, 10),
   education  |-> Less(SectionConfidence(p, "education", 6), Penalty(Issues(rs, p).education)),
   experience |-> Less(RecordConfidence(Len(rs), FilledIn(rs), 8),
                       Penalty(Issues(rs, p).experience)),
   certifications |-> SectionConfidence(p, "certifications", 6),
   projects   |-> SectionConfidence(p, "projects", 8)]

(* _ats_compatibility_score: what the score may be rounded to.               *)
Present(rs, p) == Cardinality({s \in Sections : Size(p, s) > 0}) + Flag(rs # <<>>, 1)

AtsScores(rs, p) ==
  LET conf   == FieldConfidences(rs, p)
      issues == LET i == Issues(rs, p) IN i.contact + i.education + i.experience
      rest   == 2200 * (Flag(p.email, 1) + Flag(p.phone, 1)) + 1375 * Present(rs, p)
                  + 220 * AtMost(p.technical + p.soft, 20) + 660 * (5 - AtMost(5, issues))
                  - 220 * AtMost(30, 5 * Cardinality(Gaps(rs)))
      low    == MapThenSumSet(LAMBDA f : Min(conf[f]), DOMAIN conf)
      high   == MapThenSumSet(LAMBDA f : Max(conf[f]), DOMAIN conf)
  IN  UNION {RoundsTo(Clamped(rest + 4 * sum, 22000), 220) : sum \in low..high}

-----------------------------------------------------------------------------
Dated == {i \in DOMAIN roles : roles[i].start # None /\ EndOf(roles[i]) >= roles[i].start}
Worked(y) == \E i \in Dated : roles[i].start =< y /\ y < EndOf(roles[i])
Overlap(a, b) == roles[a].start < EndOf(roles[b]) /\ roles[b].start < EndOf(roles[a])

(* Where every role is dated, no year between two of them without work goes  *)
(* unreported, and as long as no two roles overlap nothing else is reported  *)
(* and the years of experience are the years worked. Roles that overlap may  *)
(* make the engine report a gap that is none (_analyze_employment).          *)
GapsAreFound ==
  Dated = DOMAIN roles =>
    LET t == Timeline(roles)
        reported == UNION {EndOf(t[i])..(t[i-1].start - 1) : i \in Gaps(roles)}
        idle == {y \in 1..This : /\ ~Worked(y) /\ (\E i \in Dated : EndOf(roles[i]) =< y)
                               /\ \E i \in Dated : roles[i].start > y}
    IN  /\ idle \subseteq reported
        /\ Cardinality({y \in 1..This : Worked(y)}) =< TotalYears(roles)
        /\ (\A a, b \in Dated : a # b => ~Overlap(a, b)) =>
             reported \subseteq idle /\ TotalYears(roles) = Cardinality({y \in 1..This : Worked(y)})

(* In which order the resume lists the roles makes no difference to the gaps *)
(* nor, unless two have the same years, to the trend.                        *)
OrderIsIrrelevant ==
  LET back == Reverse(roles)
  IN  /\ {EndOf(Timeline(roles)[i]) : i \in Gaps(roles)} = {EndOf(Timeline(back)[i]) : i \in Gaps(back)}
      /\ (\A i, j \in DOMAIN roles : i # j =>
            Known(roles[i].start) # Known(roles[j].start) \/ Known(roles[i].end) # Known(roles[j].end))
           => Trend(roles) = Trend(back)

(* p and q are one resume before and after something was added to it that is *)
(* complete and contradicts nothing.                                         *)
Richer(p, q) ==
  /\ \A f \in {"email", "phone", "name", "location"} : p[f] => q[f]
  /\ \A f \in {"technical", "soft", "summary"} : q[f] >= p[f]
  /\ \A s \in Sections : q.whole[s] >= p.whole[s] /\ q.part[s] = p.part[s]
  /\ q.emails =< p.emails /\ q.phones =< p.phones /\ q.studies =< p.studies

(* Of every step: more skills, contacts or complete records never lower the  *)
(* ATS score; a further record that is incomplete may.                      *)
RicherNeverHurts ==
  (roles' = roles /\ Richer(profile, profile')) =>
    \A old \in AtsScores(roles, profile) : \E new \in AtsScores(roles', profile') : new >= old
=============================================================================
