SPECIFICATION Spec
CONSTANTS
 t1 = t1
 t2 = t2
 mine = mine
 camp = camp
 u1 = u1
 u2 = u2
 u3 = u3
 s1 = s1
 s2 = s2
 red = red
 blue = blue
 Town = {t1, t2}
 Firm = {mine, camp}
 Unit = {u1, u2, u3}
 Spy = {s1, s2}
 Nation = {red, blue}
 MAX_TOWN_POPULATION = 2
 MAX_WORKER = 2
 LiveInTown = {mine}
 NeedOverseer = {camp}
 MaxPeople = 3
 Crowded = {"town","firm"}
 Rare = {}
 Start <- Village
SYMMETRY Alike
INVARIANTS TypeOK JobsAddUp SpiesCounted SpyPlaced RolesAgree NationsExist
PROPERTY PeopleConserved
CHECK_DEADLOCK FALSE
