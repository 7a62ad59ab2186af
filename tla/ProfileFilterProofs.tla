-------------------------- MODULE ProfileFilterProofs --------------------------
(***************************************************************************)
(* What the filters guarantee for any resumes, ages and windows.             *)
(***************************************************************************)
EXTENDS ProfileFilter, TLAPS

\* Where the periods of a resume end is a year.
LEMMA EndsAreYears ==
  ASSUME NEW p \in Period, NEW now \in Year
  PROVE  EndYear(p, now) \in Year
BY DEF EndYear, Period

\* The unknown gender has the widest window.
LEMMA WidestWindow ==
  ASSUME NEW age \in Int, NEW g \in Gender, NEW e \in BOOLEAN, InWindow(age, g, e)
  PROVE  InWindow(age, "?", e)
<1>1. CASE g = "F"
  BY <1>1, AgesAreAges DEF InWindow, Upper, Lower, Lesser, Greater
<1>2. CASE g = "M"
  BY <1>2, AgesAreAges DEF InWindow, Upper, Lower, Lesser, Greater
<1>3. CASE g = "?"
  BY <1>3
<1> QED  BY <1>1, <1>2, <1>3 DEF Gender

\* A birth year found in a resume is a number.
LEMMA BirthYearsAreYears ==
  ASSUME NEW r \in AnyResume, NEW now \in Year
  PROVE  BirthYear(r, now) \subseteq Int
<1>1. \A years : Earliest(Plausible(years, now)) \subseteq 1950..2029 \/ ~(years \subseteq Int)
  BY DEF Earliest, Plausible
<1>2. r.years \subseteq Int /\ (r.birthYear # Unknown => r.birthYear \in Int)
  BY DEF AnyResume, Year
<1>3. ExperienceYears(r) \subseteq Int
  <2>1. \A p \in r.periods : p \in Period
    BY DEF AnyResume
  <2>2. \A p \in r.periods : p.start \in Int /\ (p.end # Present => p.end \in Int)
    BY <2>1 DEF Period, Year
  <2> QED  BY <2>2 DEF ExperienceYears
<1> QED  BY <1>1, <1>2, <1>3 DEF BirthYear

\* A resume that differs from one that passes in its gender at most, and there by not
\* having one, passes too.
LEMMA AgeWithoutGender ==
  ASSUME NEW r \in AnyResume, NEW now \in Year, AgePasses(r, now), NEW f,
         f.birthYear = r.birthYear, f.years = r.years, f.periods = r.periods,
         f.education = r.education, GenderOf(f) \in {"?", GenderOf(r)}
  PROVE  AgePasses(f, now)
<1>1. BirthYear(f, now) = BirthYear(r, now)
  BY DEF BirthYear, ExperienceYears
<1>2. GenderOf(r) \in Gender /\ r.education \in BOOLEAN
  BY DEF AnyResume, GenderOf
<1>3. ASSUME NEW y \in BirthYear(r, now) PROVE InWindow(now - y, GenderOf(f), r.education)
  <2>1. now - y \in Int
    BY BirthYearsAreYears DEF Year
  <2>2. InWindow(now - y, GenderOf(r), r.education)
    BY DEF AgePasses
  <2> QED  BY <1>2, <2>1, <2>2, WidestWindow
<1> QED  BY <1>1, <1>3 DEF AgePasses

\* What passes the filters.
LEMMA PassesAll ==
  ASSUME NEW r, NEW now
  PROVE  Verdict(r, now) = "ok" <=>
           /\ CountryPasses(r) /\ RegionPasses(r) /\ AgePasses(r, now)
           /\ LastPasses(r) /\ TitlePasses(r) /\ RolePasses(r.periods, now)
BY DEF Verdict

LEMMA LessSaidStillPasses ==
  ASSUME NEW r \in AnyResume, NEW now \in Year, Verdict(r, now) = "ok", NEW f \in LessSaid(r)
  PROVE  Verdict(f, now) = "ok"
<1>1. /\ CountryPasses(r) /\ RegionPasses(r) /\ AgePasses(r, now)
      /\ LastPasses(r) /\ TitlePasses(r) /\ RolePasses(r.periods, now)
  BY PassesAll
<1>2. /\ f.education = r.education /\ f.birthYear = r.birthYear /\ f.years = r.years
      /\ f.last = r.last /\ f.titled = r.titled /\ f.periods = r.periods
      /\ f.country \in {r.country, Unknown} /\ f.region \in {r.region, "none"}
  BY DEF LessSaid, AnyResume
<1>3. GenderOf(f) \in {"?", GenderOf(r)}
  <2>1. CASE f.gender = r.gender /\ f.named \in {r.named, "?"}
    BY <2>1 DEF GenderOf
  <2>2. CASE f.gender = "?"
    BY <2>2, NotAGender DEF GenderOf, Gender
  <2>3. CASE f.gender = Unknown /\ f.named = r.named /\ r.named \in {"?", GenderOf(r)}
    BY <2>3 DEF GenderOf
  <2> QED  BY <2>1, <2>2, <2>3 DEF LessSaid, AnyResume
<1>4. CountryPasses(f) /\ RegionPasses(f) /\ LastPasses(f) /\ TitlePasses(f)
  BY <1>1, <1>2 DEF CountryPasses, RegionPasses, LastPasses, TitlePasses
<1>5. AgePasses(f, now) /\ RolePasses(f.periods, now)
  BY <1>1, <1>2, <1>3, AgeWithoutGender
<1> QED  BY <1>4, <1>5, PassesAll

-----------------------------------------------------------------------------
\* A later year does not bring a lost role back.
LEMMA RoleOnlyAges ==
  ASSUME NEW periods \in SUBSET Period, NEW now \in Year, now + 1 \in Year,
         RolePasses(periods, now + 1)
  PROVE  RolePasses(periods, now)
<1>1. \A p \in periods : EndYear(p, now) \in Int /\ EndYear(p, now + 1) \in Int
  BY EndsAreYears DEF Year
<1>2. \A p \in periods : \/ p.end = Present
                         \/ EndYear(p, now) = EndYear(p, now + 1)
  BY DEF EndYear
<1>3. \A p \in periods : p.end = Present => EndYear(p, now) = now /\ EndYear(p, now + 1) = now + 1
  BY DEF EndYear
<1>4. ASSUME NEW p \in periods, Recent(p, now + 1) PROVE Recent(p, now)
  BY <1>1, <1>2, <1>3, <1>4, WindowsAreYears DEF Recent, Year
<1>5. ASSUME NEW p \in periods, p.manager, p.end = Present PROVE Recent(p, now)
  BY <1>3, <1>5, WindowsAreYears DEF Recent, Year
<1>6. ASSUME WarPause(periods, now + 1), ~ \E p \in periods : Recent(p, now)
      PROVE  WarPause(periods, now)
  <2>1. PICK p \in periods : LatestQualifying(p, periods, now + 1) /\ NearWar(EndYear(p, now + 1))
    BY <1>6 DEF WarPause
  <2>2. \A q \in periods : q.manager => EndYear(q, now) = EndYear(q, now + 1)
    BY <1>2, <1>5, <1>6
  <2> QED  BY <2>1, <2>2 DEF WarPause, LatestQualifying
<1> QED  BY <1>4, <1>6 DEF RolePasses

\* Staying longer in a qualifying role keeps the check, as long as no year lies
\* between those of the exception and the recent ones.
LEMMA LongerIsNoWorse ==
  ASSUME NEW periods \in SUBSET Period, NEW now \in Year, NEW p \in periods, NEW y \in Year,
         now <= WarYear + WarTolerance + RecentYears + 1,
         p.manager, EndYear(p, now) <= y, y <= now, RolePasses(periods, now)
  PROVE  RolePasses(LaterEnds(periods, p, y), now)
<1> DEFINE r == [p EXCEPT !.end = y]
           later == LaterEnds(periods, p, y)
<1>1. r \in Period /\ r.end = y /\ r.manager /\ r \in later /\ EndYear(r, now) = y
  BY NotYears DEF Period, LaterEnds, EndYear
<1>2. \A q \in periods : q = p \/ q \in later
  BY DEF LaterEnds
<1>3. \A q \in later : q = r \/ q \in periods
  BY DEF LaterEnds
<1>4. \A q \in periods : EndYear(q, now) \in Int
  BY EndsAreYears DEF Year
<1>5. ASSUME NEW q \in periods, Recent(q, now) PROVE RolePasses(later, now)
  <2>1. CASE q = p
    <3>1. Recent(r, now)
      BY <1>1, <1>4, <1>5, <2>1, WindowsAreYears DEF Recent, Year
    <3> QED  BY <1>1, <3>1 DEF RolePasses
  <2>2. CASE q # p
    BY <1>2, <1>5, <2>2 DEF RolePasses
  <2> QED  BY <2>1, <2>2
<1>6. ASSUME WarPause(periods, now), ~ Recent(r, now) PROVE WarPause(later, now)
  <2>1. PICK q \in periods : LatestQualifying(q, periods, now) /\ NearWar(EndYear(q, now))
    BY <1>6 DEF WarPause
  <2>2. y < now - RecentYears
    BY <1>1, <1>6, WindowsAreYears DEF Recent, Year
  <2>3. y <= WarYear + WarTolerance
    BY <2>2, WindowsAreYears DEF Year
  <2>4. CASE y >= EndYear(q, now)
    <3>1. NearWar(y)
      BY <1>4, <2>1, <2>3, <2>4, WindowsAreYears DEF NearWar, Year
    <3>2. LatestQualifying(r, later, now)
      BY <1>1, <1>3, <1>4, <2>1, <2>4 DEF LatestQualifying, Year
    <3> QED  BY <1>1, <3>1, <3>2 DEF WarPause
  <2>5. CASE y < EndYear(q, now)
    <3>1. q # p
      BY <1>4, <2>5 DEF Year
    <3>2. LatestQualifying(q, later, now)
      BY <1>1, <1>2, <1>3, <1>4, <2>1, <2>5, <3>1 DEF LatestQualifying, Year
    <3> QED  BY <1>2, <2>1, <3>1, <3>2 DEF WarPause
  <2> QED  BY <1>4, <2>4, <2>5 DEF Year
<1> QED  BY <1>1, <1>5, <1>6 DEF RolePasses

-----------------------------------------------------------------------------
\* A role rejection still stands: the verdict may be years old.
IInv == TypeOK /\ (verdict = "recent_role" => ~RolePasses(resume.periods, today))

LEMMA Invariance == Spec => []IInv
<1>1. Init => IInv
  BY DEF Init, IInv, TypeOK
<1>2. IInv /\ [Next]_vars => IInv'
  <2> SUFFICES ASSUME IInv, [Next]_vars PROVE IInv'
    OBVIOUS
  <2>1. resume \in AnyResume /\ today \in Year
    BY ResumesAreResumes, YearsAreYears DEF IInv, TypeOK
  <2>2. CASE Evaluate
    BY <2>2 DEF Evaluate, IInv, TypeOK, Verdict
  <2>3. CASE YearPasses
    <3>1. today + 1 \in Year /\ resume.periods \in SUBSET Period
      BY <2>1, <2>3, YearsAreYears DEF YearPasses, AnyResume
    <3>2. ~RolePasses(resume.periods, today) => ~RolePasses(resume.periods, today + 1)
      BY <2>1, <3>1, RoleOnlyAges
    <3> QED  BY <2>3, <3>2 DEF YearPasses, IInv, TypeOK
  <2>4. CASE UNCHANGED vars
    BY <2>4 DEF vars, IInv, TypeOK
  <2> QED  BY <2>2, <2>3, <2>4 DEF Next
<1> QED  BY <1>1, <1>2, PTL DEF Spec

\* Leaving out the country, the region or the name, giving an unknown gender, or giving
\* none where the name suggests no other, never turns a resume away.
THEOREM LessSaidAlwaysPasses == Spec => []LessSaidPasses
<1>1. IInv => LessSaidPasses
  BY LessSaidStillPasses, ResumesAreResumes, YearsAreYears DEF IInv, TypeOK, LessSaidPasses
<1> QED  BY <1>1, Invariance, PTL

\* Having stayed longer in a qualifying role never loses the role check while the
\* years of the exception and the recent ones leave no gap.
THEOREM LongerInRoleIsNeverWorse == Spec => []LongerInRoleNeverWorse
<1>1. IInv => LongerInRoleNeverWorse
  <2> SUFFICES ASSUME IInv, today <= WarYear + WarTolerance + RecentYears + 1,
                      NEW p \in resume.periods, NEW y \in Year, p.manager,
                      EndYear(p, today) <= y, y <= today, RolePasses(resume.periods, today)
               PROVE  RolePasses(LaterEnds(resume.periods, p, y), today)
    BY DEF LongerInRoleNeverWorse
  <2>1. resume \in AnyResume /\ today \in Year
    BY ResumesAreResumes, YearsAreYears DEF IInv, TypeOK
  <2>2. resume.periods \in SUBSET Period
    BY <2>1 DEF AnyResume
  <2> QED  BY <2>1, <2>2, LongerIsNoWorse
<1> QED  BY <1>1, Invariance, PTL

\* Asking again in a later year does not let through who was turned away for want
\* of a recent role.
THEOREM RoleRejectionStands == Spec => RoleRejectionIsFinal
<1>1. IInv /\ [Next]_vars => [verdict = "recent_role" => verdict' # "ok"]_vars
  <2>1. ASSUME IInv, Evaluate, verdict = "recent_role" PROVE verdict' # "ok"
    BY <2>1, PassesAll DEF IInv, Evaluate
  <2>2. ASSUME YearPasses, verdict = "recent_role" PROVE verdict' # "ok"
    BY <2>2 DEF YearPasses
  <2> QED  BY <2>1, <2>2 DEF Next
<1> QED  BY <1>1, Invariance, PTL DEF Spec, RoleRejectionIsFinal
=============================================================================
