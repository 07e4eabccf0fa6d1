CONSTANTS
  p1 = p1  p2 = p2  p3 = p3  p4 = p4  p5 = p5
  salts = salts  dressing = dressing  box3 = box3  box5 = box5
  claw = claw  sinew = sinew  pupa = pupa  eggs = eggs  saw = saw
  s1 = s1  s2 = s2  s3 = s3
  Potions <- MCPotions
  Tools <- MCTools
  Schemes <- MCSchemes
  Rarity <- MCRarity
  BoxSize <- MCBoxSize
  Needs <- MCNeeds
  CoreFamily <- MCCoreFamily
  Boards <- MCBoards
  FamilyDraws = {"BONE", "INSECT"}
  MaxOwned = 2
SPECIFICATION Spec
SYMMETRY CardSymmetry
INVARIANTS
  BonesAsDescribed
