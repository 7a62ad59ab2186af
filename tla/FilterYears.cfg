CONSTANTS Resume <- Resumes Today <- Years Unknown = Unknown Present = Present
CONSTANTS AgeMinF = 23 AgeMaxF = 42 AgeMinM = 23 AgeMaxM = 40 AgeMinWithEdu = 22
CONSTANTS RecentYears = 3 WarYear = 2022 WarTolerance = 1
SPECIFICATION Spec
INVARIANTS LessSaidPasses LongerInRoleNeverWorse
PROPERTY RoleRejectionIsFinal
