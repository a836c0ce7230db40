SPECIFICATION Spec
CONSTANTS
  Emails = {e1}
  Passwords = {w1}
  Requests = {1, 2, 3}
  Calls = {4, 5}
  Hosts = {"home"}
  Configs <- ThreeConfigs
  NoConfig = NoConfig
  MaxMishaps = 2
  NoToken = NoToken
  Nobody = Nobody
  Names = {"create_preference"}
  Needs <- TwoNeeds
  Claims <- AllClaimed
  Scenes <- MCScenes
CONSTRAINT AfterSignIn
INVARIANTS TypeOK OriginJudgedByOverlap AnswersAreTrue ManagersWereSuper LogOutEnds
CHECK_DEADLOCK FALSE
