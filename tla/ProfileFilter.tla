----------------------------- MODULE ProfileFilter -----------------------------
(***************************************************************************)
(* The hard pre-filters of match/profile_filter.py: evaluate decides, before *)
(* anything is paid for, whether a resume may go on.  The filters run in      *)
(* order and the first that fails ends the evaluation.                        *)
(*                                                                            *)
(* A resume is what the filters look for in its texts: marker words, years,   *)
(* periods of work.  A verdict depends on the year it is given in: the same   *)
(* resume is evaluated again when a cursor is lost or the person responds     *)
(* again, so the year is part of the state.                                   *)
(***************************************************************************)
EXTENDS Integers, FiniteSets

CONSTANTS
  Resume,        \* resumes
  Today,         \* bound: the years in which a resume is evaluated
  AgeMinF, AgeMaxF, AgeMinM, AgeMaxM, AgeMinWithEdu,   \* settings.profile_age_*
  RecentYears,   \* settings.profile_recent_role_years
  WarYear,       \* settings.profile_war_pause_year
  WarTolerance,  \* settings.profile_war_pause_tolerance
  Unknown,       \* no birth year, country or gender given
  Present        \* the end of a period that goes on

Year   == 1950..2039
Gender == {"F", "M", "?"}

\* The resume's region after normalize_region: on the white list, on the black
\* list, on both, on neither, or not given.
Region == {"allowed", "blocked", "both", "neither", "none"}

\* "YYYY - YYYY|present" with the role next to it; manager: the role has one of
\* RECENT_MANAGER_MARKERS.
Period == [start: Year, end: Year \cup {Present}, manager: BOOLEAN]

(***************************************************************************)
(* gender        as given to evaluate; "?" is Gender.UNKNOWN, which is given *)
(* named         the gender the first word of the name ends like: "?" for    *)
(*               endings that say nothing, and without a name               *)
(* education     the education or the resume text has an                    *)
(*               EDUCATION_PROFILE_MARKERS word                             *)
(* birthYear     from the job board's own field                             *)
(* years         the years named in the resume text                         *)
(* last          markers in the last position                               *)
(* titled        one of POSITIVE_TITLES elsewhere in the resume             *)
(* periods       what parse_work_periods finds in the experience text       *)
(***************************************************************************)
AnyResume ==
  [country: {"required", "other", Unknown}, region: Region,
   gender: Gender \cup {Unknown}, named: Gender, education: BOOLEAN,
   birthYear: Year \cup {Unknown}, years: SUBSET Year,
   last: SUBSET {"positive", "negative"}, titled: BOOLEAN, periods: SUBSET Period]

ASSUME ResumesAreResumes == Resume \subseteq AnyResume
ASSUME YearsAreYears     == Today \subseteq Year
ASSUME AgesAreAges ==
  /\ AgeMinF \in Nat /\ AgeMaxF \in Nat /\ AgeMinM \in Nat /\ AgeMaxM \in Nat
  /\ AgeMinWithEdu \in Nat
ASSUME WindowsAreYears   == RecentYears \in Nat /\ WarYear \in Nat /\ WarTolerance \in Nat
ASSUME NotYears          == Unknown \notin Year /\ Present \notin Year
ASSUME NotAGender        == Unknown \notin Gender

VARIABLES
  resume,  \* the resume under evaluation
  today,   \* date.today().year
  verdict  \* the last FilterResult: "ok", or the filter that failed

vars == <<resume, today, verdict>>

-----------------------------------------------------------------------------
\* check_region: the black list wins, and an unknown region passes.
RegionPasses(r) == r.region \in {"allowed", "none"}

CountryPasses(r) == r.country \in {"required", Unknown}

-----------------------------------------------------------------------------
\* extract_birth_year: the earliest year in a text that may be one's birth; as a
\* set, empty when there is none.
Plausible(years, now) == {y \in years : 1950 <= y /\ y <= 2029 /\ y <= now - 18}
Earliest(years) == {y \in years : \A z \in years : y <= z}

ExperienceYears(r) == {p.start : p \in r.periods} \cup ({p.end : p \in r.periods} \ {Present})

\* The field, else the resume text, else the experience text.
BirthYear(r, now) ==
  IF r.birthYear # Unknown THEN {r.birthYear}
  ELSE IF Plausible(r.years, now) # {} THEN Earliest(Plausible(r.years, now))
  ELSE Earliest(Plausible(ExperienceYears(r), now))

\* The gender that was given, else detect_gender_from_name.
GenderOf(r) == IF r.gender # Unknown THEN r.gender ELSE r.named

Lesser(a, b)  == IF a < b THEN a ELSE b
Greater(a, b) == IF a < b THEN b ELSE a

\* Slip: the narrowest window for an unknown gender.
NarrowUpper(gender) ==
  CASE gender = "F" -> AgeMaxF
    [] gender = "M" -> AgeMaxM
    [] OTHER        -> Lesser(AgeMaxF, AgeMaxM)

Upper(gender) ==
  CASE gender = "F" -> AgeMaxF
    [] gender = "M" -> AgeMaxM
    [] OTHER        -> Greater(AgeMaxF, AgeMaxM)

Lower(gender, education) ==
  IF education THEN AgeMinWithEdu
  ELSE CASE gender = "F" -> AgeMinF [] gender = "M" -> AgeMinM
         [] OTHER -> Lesser(AgeMinF, AgeMinM)

InWindow(age, gender, education) == Lower(gender, education) <= age /\ age <= Upper(gender)

\* check_age, with _calc_age; an unknown age passes.
AgePasses(r, now) ==
  \A y \in BirthYear(r, now) : InWindow(now - y, GenderOf(r), r.education)

-----------------------------------------------------------------------------
\* check_recent_role.

EndYear(p, now) == IF p.end = Present THEN now ELSE p.end

\* Slip: the years are counted from the wrong side.
RecentFrom(p, now) == p.manager /\ EndYear(p, now) <= now - RecentYears

\* Slip: the year of the cutoff is out.
RecentAfter(p, now) == p.manager /\ EndYear(p, now) > now - RecentYears

Recent(p, now) == p.manager /\ EndYear(p, now) >= now - RecentYears

LatestQualifying(p, periods, now) ==
  /\ p \in periods /\ p.manager
  /\ \A q \in periods : q.manager => EndYear(q, now) <= EndYear(p, now)

NearWar(y) == WarYear - WarTolerance <= y /\ y <= WarYear + WarTolerance

WarPause(periods, now) ==
  \E p \in periods : LatestQualifying(p, periods, now) /\ NearWar(EndYear(p, now))

\* No period found: unknown, which passes.
RolePasses(periods, now) ==
  periods = {} \/ (\E p \in periods : Recent(p, now)) \/ WarPause(periods, now)

-----------------------------------------------------------------------------
LastPasses(r)  == "negative" \in r.last => "positive" \in r.last
TitlePasses(r) == r.titled \/ "positive" \in r.last

Verdict(r, now) ==
  IF ~CountryPasses(r) THEN "country"
  ELSE IF ~RegionPasses(r) THEN "region"
  ELSE IF ~AgePasses(r, now) THEN "age"
  ELSE IF ~LastPasses(r) THEN "last_position"
  ELSE IF ~TitlePasses(r) THEN "no_positive"
  ELSE IF ~RolePasses(r.periods, now) THEN "recent_role"
  ELSE "ok"

Init ==
  /\ resume \in Resume
  /\ today \in Today
  /\ verdict = "none"

Evaluate ==
  /\ verdict' = Verdict(resume, today)
  /\ UNCHANGED <<resume, today>>

YearPasses ==
  /\ today + 1 \in Today
  /\ today' = today + 1
  /\ UNCHANGED <<resume, verdict>>

Next == Evaluate \/ YearPasses

Spec == Init /\ [][Next]_vars
-----------------------------------------------------------------------------
\* The verdict is one the code returns.
TypeOK ==
  /\ resume \in Resume
  /\ today \in Today
  /\ verdict \in {"none", "ok", "country", "region", "age", "last_position",
                  "no_positive", "recent_role"}

\* Without a gender the name decides, so not giving it says less only where the name
\* says nothing or the same.
LessSaid(r) ==
  {[r EXCEPT !.country = Unknown], [r EXCEPT !.region = "none"],
   [r EXCEPT !.gender = "?"], [r EXCEPT !.named = "?"]}
  \cup {f \in {[r EXCEPT !.gender = Unknown]} : r.named \in {"?", GenderOf(r)}}

\* "Let AI ask on call" (profile_filter.py:162, 182), "widest possible window when
\* gender unknown" (171): leaving out the country, the region or the name, giving an
\* unknown gender, or giving none where the name suggests no other, never turns away a
\* resume that passed, whatever the settings are.  It is not so of a gender in general:
\* an F with a name in -ov, 41, passes, and as a resume without a gender is taken for an
\* M and turned away.
LessSaidPasses ==
  Verdict(resume, today) = "ok" => \A r \in LessSaid(resume) : Verdict(r, today) = "ok"

LaterEnds(periods, p, y) == (periods \ {p}) \cup {[p EXCEPT !.end = y]}

\* The recent-role rule and its war-pause exception (256-306) fit together: having
\* stayed longer in a qualifying role never loses the role check.  It holds until
\* the years of the exception are no longer followed by the recent ones.
LongerInRoleNeverWorse ==
  today <= WarYear + WarTolerance + RecentYears + 1 =>
    \A p \in resume.periods : \A y \in Year :
      (p.manager /\ EndYear(p, today) <= y /\ y <= today /\ RolePasses(resume.periods, today)) =>
        RolePasses(LaterEnds(resume.periods, p, y), today)

\* Whoever was turned away for want of a recent role is not let through by asking
\* again in a later year with the same resume.
RoleRejectionIsFinal == [][verdict = "recent_role" => verdict' # "ok"]_vars
=============================================================================
