CONSTANTS machine = machine NotLoaded = NotLoaded NoFile = NoFile
CONSTANTS Host <- OneMachine BotHost = machine JobHost = machine
SPECIFICATION Spec
PROPERTIES SwitchesSurviveRestart FirstJobObeys
