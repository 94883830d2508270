CONSTANTS
  Iphones = {"iPhone"}
  Androids = {"pixel"}
  CarPatches <- Car
  Scenes <- MCScenes
SPECIFICATION Spec
INVARIANTS AgreeAtRest ModeRules ThemesAgree
PROPERTY Settles
