---------------------------- MODULE MCProfileFilter ----------------------------
(* Resumes on both sides of every limit of ProfileFilter, for TLC. *)
EXTENDS ProfileFilter

Years == 2025..2028

Worked(from, to, manager) == [start |-> from, end |-> to, manager |-> manager]

\* Qualifying roles that ended in, next to and after the years of the exception,
\* one that goes on, and one in another trade after it.
SomePeriods ==
  {Worked(2010, 2019, TRUE), Worked(2015, 2022, TRUE), Worked(2015, 2023, TRUE),
   Worked(2020, 2024, TRUE), Worked(2021, Present, TRUE), Worked(2006, Present, FALSE)}

Histories == {ps \in SUBSET SomePeriods : Cardinality(ps) <= 3}

Plain == [country |-> "required", region |-> "allowed", gender |-> Unknown, named |-> "F",
          education |-> FALSE, birthYear |-> 1990, years |-> {}, last |-> {"positive"},
          titled |-> TRUE, periods |-> {}]

OfPlaces == {[Plain EXCEPT !.country = c, !.region = r] :
               c \in {"required", "other", Unknown}, r \in Region}

OfAges == {[Plain EXCEPT !.gender = g, !.named = n, !.education = e, !.birthYear = b,
                         !.years = ys, !.periods = ps] :
             g \in Gender \cup {Unknown}, n \in Gender, e \in BOOLEAN,
             b \in {Unknown, 1985, 2004}, ys \in {{}, {1986}, {2005}},
             ps \in {{}, {Worked(2006, Present, FALSE)}, {Worked(2021, Present, TRUE)}}}

OfRoles == {[Plain EXCEPT !.last = l, !.titled = t, !.periods = ps] :
              l \in SUBSET {"positive", "negative"}, t \in BOOLEAN, ps \in Histories}

Resumes == OfPlaces \cup OfAges \cup OfRoles
=============================================================================
